CONSTANTS
    PVC = {p1, p2}
    Node = {n1, n2}
    Views <- LocalAndSharedViews
    Absent = Absent
SPECIFICATION FairSpec
INVARIANTS TypeOK UsageIsTheNodes ParsersAgree
PROPERTY CollectionEnds
