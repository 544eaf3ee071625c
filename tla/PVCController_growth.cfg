CONSTANTS
    Absent = Absent
    Invalid = Invalid
    NaN = NaN
    NotManaged = NotManaged
    GiB = 1
    MaxInt64 = 1000
    FloatOverflow = 1000
    TicksPerSecond = 1
    PVC = {p1, p2}
    Annotations <- BriskAndFull
    Policies = {}
    Templates = {}
    Global <- MCGlobal
    Filesystem <- AllFilesystem
    Expandable <- AllExpandable
    Objects <- OneGrows
    UserSizes = {}
    RecoverResize = FALSE
    EditVersions = 0
    MaxTime = 3
    Managers = {m1}
    DryRuns = {{}}
    MaxParallel = 1
    Usages <- OneUsage
    NoPVC = NoPVC
    NoJob = NoJob
    growing = p1
SPECIFICATION FairSpec
PROPERTIES CycleCompletes GrowsUnderPressure
