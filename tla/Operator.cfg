CONSTANTS
    Absent = Absent
    Invalid = Invalid
    NaN = NaN
    NotManaged = NotManaged
    GiB = 1
    MaxInt64 = 1000
    FloatOverflow = 1000
    TicksPerSecond = 1
    PVC = {good, typo}
    good = good
    Annotations <- ComeAndGo
    Policies = {}
    Templates = {}
    Global <- MCGlobal
    Filesystem <- AllTrue
    Expandable <- AllTrue
    Objects <- SmallAndLarge
    UserSizes = {}
    RecoverResize = TRUE
    EditVersions = 1
    MaxTime = 0
    Managers = {m1}
    DryRuns = {{}}
    MaxParallel = 1
    Usages <- FullOnly
    NoPVC = NoPVC
    NoJob = NoJob
    GroupName = g
    GroupVersions = 1
SPECIFICATION OperatorSpec
PROPERTY WorksAtomically
PROPERTY WritesOnlyOptedIn
