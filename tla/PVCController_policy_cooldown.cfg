CONSTANTS
    Absent = Absent
    Invalid = Invalid
    NaN = NaN
    NotManaged = NotManaged
    GiB = 1
    MaxInt64 = 1000
    FloatOverflow = 1000
    TicksPerSecond = 2
    PVC = {p1}
    Annotations <- PolicyOnly
    Policies <- GenerousOnly
    Templates = {}
    Global <- MCGlobal
    Filesystem <- AllFilesystem
    Expandable <- AllExpandable
    Objects <- PolicyClaims
    UserSizes = {3}
    RecoverResize = FALSE
    EditVersions = 0
    MaxTime = 4
    Managers = {m1}
    DryRuns = {{}}
    MaxParallel = 1
    Usages <- AllUsages
    NoPVC = NoPVC
    NoJob = NoJob
    growing = p1
SPECIFICATION Spec
PROPERTY PolicyCooldownRespected
