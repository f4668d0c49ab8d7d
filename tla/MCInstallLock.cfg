CONSTANTS
    Procs = {p1, p2}
    Names = {n1, n2}
    Files = {f1, f2, f3, f4}
    NoFile = NoFile
SPECIFICATION FairSpec
INVARIANTS WaitsOnTheNamedFile
PROPERTIES EveryInstallEnds ImplementsNameMutex
