CONSTANTS
    PVC = {p1, p2}
    sc = sc
    Class = {sc}
    ClassOf <- SameClass
    FsType <- FileSystems
    MaxParallel = 2
    Absent = Absent
    MaxChanges = 0
SPECIFICATION Spec
INVARIANT WarningIsTrue
SYMMETRY Alike
