--------------------------- MODULE MCKubeletMetrics ---------------------------
\* Claims mounted on one node or none, or reported alike by all; some with families
\* missing, full, or with numbers that contradict each other.
EXTENDS KubeletMetrics

Report(capacity, available, inodes, inodesUsed) ==
    [capacity |-> capacity, available |-> available, inodes |-> inodes, inodesUsed |-> inodesUsed]
NotMounted == [f \in Family |-> Absent]
Volumes == {Report(10, 2, 10, 9), Report(20, 15, Absent, Absent), Report(10, Absent, 0, 0),
            Report(Absent, Absent, 10, 1), Report(10, 0, 10, 12), Report(10, 12, 5, 5)}

LocalAndSharedViews ==
    {[n \in Node |-> [p \in PVC |-> IF n = place[p] THEN volume[p] ELSE NotMounted]] :
        place \in [PVC -> Node \cup {Absent}], volume \in [PVC -> Volumes]}
    \cup {[n \in Node |-> volume] : volume \in [PVC -> Volumes \cup {NotMounted}]}
=============================================================================
