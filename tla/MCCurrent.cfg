CONSTANTS
    Procs = {p1}
    Targets = {t1, t2}
    Settled = TRUE
SPECIFICATION Spec
SYMMETRY Symmetry
PROPERTIES NeverToNothing SuccessIsOnTarget LeftoversAreCleared HealthyGlobalIsKept ForeignIsKept
