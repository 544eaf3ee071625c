CONSTANTS
    Absent = Absent
    Invalid = Invalid
    NaN = NaN
    NotManaged = NotManaged
    GiB = 4
    MaxInt64 = 127
    FloatOverflow <- MCFloatOverflow
    TicksPerSecond = 1
    Configs <- MCConfigs
    InitialSizes <- MCInitialSizes
SPECIFICATION Spec
INVARIANTS TypeOK LimitIsExact
PROPERTY LandsOnBoundary
