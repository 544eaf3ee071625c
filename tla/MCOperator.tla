------------------------------ MODULE MCOperator ------------------------------
\* Two members of a group, one that the loop expands and one that it does not manage,
\* because an annotation has a typing error.
EXTENDS Operator

CONSTANT good

Unset == [f \in Field |-> Absent]
Step == [kind |-> "absolute", amount |-> 1]
MCGlobal == [Unset EXCEPT !["threshold"] = 80, !["inodesThreshold"] = 80, !["cooldown"] = 1,
                          !["minScaleUp"] = 1, !["maxSize"] = 4, !["increase"] = Step]
Member(set) == [enabled |-> "true", group |-> GroupName, set |-> set]
Typo == [Unset EXCEPT !["threshold"] = Invalid]
Left == [Member(Unset) EXCEPT !.group = Absent]
Removed == [enabled |-> Absent, group |-> Absent, set |-> Unset]
ComeAndGo == {Member(Unset), Member(Typo), Left, Removed}

\* Users edit the good claim only: the version of the other is past EditVersions.
Claim(rv, size, set) == [rv |-> rv, req |-> size, cap |-> size, resizing |-> FALSE, bound |-> TRUE,
                         ann |-> Member(set), last |-> Absent]
SmallAndLarge == {[p \in PVC |-> IF p = good THEN Claim(0, 1, Unset) ELSE Claim(1, 3, Typo)]}
AllTrue == [p \in PVC |-> TRUE]
FullOnly == {[storage |-> 90, inodes |-> Absent]}
=============================================================================
