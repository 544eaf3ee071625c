CONSTANTS
    Absent = Absent
    Invalid = Invalid
    NaN = NaN
    NotManaged = NotManaged
    GiB = 1
    MaxInt64 = 1000
    FloatOverflow = 1000
    TicksPerSecond = 1
    PVC = {p1, p2}
    Annotations <- ComeAndGo
    Policies = {}
    Templates = {}
    Global <- MCGlobal
    Filesystem <- AllTrue
    Expandable <- AllTrue
    Objects <- OneSmall
    UserSizes = {3}
    RecoverResize = TRUE
    EditVersions = 1
    MaxTime = 0
    Managers = {m1}
    GroupName = g
    NoPVC = NoPVC
    GroupVersions = 1
SPECIFICATION FairSpec
INVARIANTS TypeOK NeverForgotten
PROPERTIES MembersConverge StatusConverges RequestsNeverShrink OnlyMembersRaised
