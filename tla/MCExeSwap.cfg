CONSTANTS
    Procs = {p1, p2}
    Files = {f1, f2, f3, f4}
    NoFile = NoFile
    Commands = {"update", "loose", "setup", "materialize", "shim", "undo"}
    Together = {"update", "setup", "shim"}
    MayScan = TRUE
SPECIFICATION Spec
SYMMETRY Symmetry
INVARIANTS DestIsWhole NeverVanishes
PROPERTIES LastCopyIsKept
