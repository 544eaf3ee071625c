-------------------------- MODULE MCGroupController --------------------------
\* A group of two claims of different sizes that join, leave and grow.
EXTENDS GroupController

Unset == [f \in Field |-> Absent]
Percent(n) == [kind |-> "percent", amount |-> n]
MCGlobal == [Unset EXCEPT !["threshold"] = 80, !["inodesThreshold"] = 80, !["cooldown"] = 1,
                          !["minScaleUp"] = 1, !["maxSize"] = 0, !["increase"] = Percent(10)]

InGroup == [enabled |-> "true", group |-> GroupName, set |-> Unset]
Outside == [enabled |-> "true", group |-> Absent, set |-> Unset]

Claim(ann, size) == [rv |-> 0, req |-> size, cap |-> size, resizing |-> FALSE, bound |-> TRUE,
                     ann |-> ann, last |-> Absent]
ComeAndGo == {InGroup, Outside}
OneSmall == {[p \in PVC |-> Claim(InGroup, IF p = small THEN 1 ELSE 2)] : small \in PVC}
AllTrue == [p \in PVC |-> TRUE]
=============================================================================
