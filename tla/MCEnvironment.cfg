CONSTANTS
    Procs = {p1}
    Commands = {"setup", "undo", "purge"}
    Values = {v1, v2}
    Unwritable = {v2}
    Settings = {s1, s2}
    Defaults = s1
    Dirs = {d1, d2}
    UserWaits = TRUE
SPECIFICATION Spec
INVARIANTS JavaHomeIsOnRecord UndoGivesBack
PROPERTIES SettingsAreKept OthersAreKept SuccessIsComplete
