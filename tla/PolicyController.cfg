CONSTANTS
    PVC = {p1, p2}
    PVCPolicy = {q1}
    Label = {blue, red}
    Absent = Absent
    Invalid = Invalid
    NoWork = NoWork
    MaxChanges = 2
    MaxTime = 1
SPECIFICATION FairSpec
INVARIANTS TypeOK SettledIsRight
PROPERTIES CountFitsSelector CountsConverge
