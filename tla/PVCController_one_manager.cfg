CONSTANTS
    Absent = Absent
    Invalid = Invalid
    NaN = NaN
    NotManaged = NotManaged
    GiB = 1
    MaxInt64 = 1000
    FloatOverflow = 1000
    TicksPerSecond = 2
    PVC = {p1}
    Annotations <- AllKinds
    Policies <- StriderAndBroken
    Templates <- Templated
    Global <- Roomy
    Filesystem <- AllFilesystem
    Expandable <- AllExpandable
    Objects <- TakesTemplate
    UserSizes = {3}
    RecoverResize = TRUE
    EditVersions = 3
    MaxTime = 5
    Managers = {m1}
    DryRuns = {{}}
    MaxParallel = 1
    Usages <- AllUsages
    NoPVC = NoPVC
    NoJob = NoJob
    growing = p1
SPECIFICATION Spec
INVARIANTS TypeOK RequestIsOneStep
PROPERTIES ExpandsAtomically CooldownRespected SettingsSurvive
