CONSTANTS
    Absent = Absent
    Invalid = Invalid
    NaN = NaN
    NotManaged = NotManaged
    GiB = 1
    MaxInt64 = 1000
    FloatOverflow = 1000
    TicksPerSecond = 1
    PVC = {p1}
    Annotations <- BriskAndPolicy
    Policies <- GenerousOnly
    Templates = {}
    Global <- MCGlobal
    Filesystem <- AllFilesystem
    Expandable <- AllExpandable
    Objects <- BriskClaims
    UserSizes = {}
    RecoverResize = FALSE
    EditVersions = 1
    MaxTime = 2
    Managers = {m1, m2}
    DryRuns <- AtMostOne
    MaxParallel = 1
    Usages <- OneUsage
    NoPVC = NoPVC
    NoJob = NoJob
    growing = p1
SPECIFICATION Spec
INVARIANT DecisionHolds
PROPERTIES ExpandsAtomically DryLoopWritesNothing CooldownRespected
SYMMETRY Alike
