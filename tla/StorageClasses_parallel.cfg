CONSTANTS
    PVC = {p1, p2, p3}
    sc = sc
    Class = {sc}
    ClassOf <- SameClass
    FsType <- FileSystems
    MaxParallel = 2
    Absent = Absent
    MaxChanges = 2
SPECIFICATION Spec
INVARIANTS TypeOK AllowedThisCycle FixedInodesWarned
SYMMETRY Alike
