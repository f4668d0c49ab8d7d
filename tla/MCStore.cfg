CONSTANTS
    n1 = n1
    n2 = n2
    Procs = {p1, p2}
    Names = {n1}
    Kind <- OneBuild
    Rank <- Ranking
    Selectors <- AnyName
    MaxLevel = 2
SPECIFICATION Spec
SYMMETRY Symmetry
PROPERTIES ImplementsAtomicStore
