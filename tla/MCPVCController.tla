--------------------------- MODULE MCPVCController ---------------------------
\* Small clusters for PVCController: sizes in GiB, two clock ticks to a second.
EXTENDS PVCController, TLC

CONSTANT growing  \* a claim below its limit

Bytes(n) == [kind |-> "absolute", amount |-> n]
Percent(n) == [kind |-> "percent", amount |-> n]

Unset == [f \in Field |-> Absent]
Flags == [Unset EXCEPT !["threshold"] = 0, !["inodesThreshold"] = 0, !["cooldown"] = 0,
                       !["minScaleUp"] = 0, !["maxSize"] = 4]
Builtin == [Unset EXCEPT !["threshold"] = 80, !["inodesThreshold"] = 90, !["cooldown"] = 2,
                         !["minScaleUp"] = 1, !["increase"] = Percent(10)]
MCGlobal == NewGlobalConfig(Flags, Builtin)

\* Steps of 2 and 3, of which any two together are more than one, and room for two.
Roomy == NewGlobalConfig([Flags EXCEPT !["minScaleUp"] = 2, !["maxSize"] = 7], Builtin)

Annotated(enabled, set) == [enabled |-> enabled, group |-> Absent, set |-> set]
Grouped(set) == [enabled |-> "true", group |-> "group", set |-> set]
Template == [Unset EXCEPT !["cooldown"] = 3, !["threshold"] = NaN]
Slower == [Unset EXCEPT !["cooldown"] = 4, !["threshold"] = NaN]
Brisk == Annotated("True", [Unset EXCEPT !["cooldown"] = 2])
ByPolicy == Annotated(Absent, Unset)
Disabled == Annotated("false", Unset)

Policy(selects, enabled, set) == [selects |-> selects, enabled |-> enabled, set |-> set]
Generous == Policy(PVC, Absent, [Unset EXCEPT !["increase"] = Bytes(2), !["cooldown"] = 6])
Strider == Policy(PVC, Absent, [Unset EXCEPT !["increase"] = Bytes(3), !["cooldown"] = 6])
Broken == Policy(PVC, Absent, [Unset EXCEPT !["increase"] = Invalid])

Claim(ann, cap) == [rv |-> 0, req |-> cap, cap |-> cap, resizing |-> FALSE, bound |-> TRUE,
                    ann |-> ann, last |-> Absent]
Claims(anns) == {[p \in PVC |-> Claim(f[p], 2)] : f \in [PVC -> anns]}

AllFilesystem == [p \in PVC |-> TRUE]
AllExpandable == [p \in PVC |-> TRUE]
OutOfInodes == [storage |-> 10, inodes |-> 95]
HalfEmpty == [storage |-> 50, inodes |-> 50]

Templated == {Template}
AllKinds == {ByPolicy, Disabled} \cup {Grouped(set) : set \in {Unset, Template, Slower}}
TakesTemplate == Claims({Grouped(Unset), ByPolicy})
AtItsLimit == Annotated("true", [Unset EXCEPT !["maxSize"] = 2])
BriskAndFull == {Brisk, AtItsLimit}
OneGrows == {[p \in PVC |-> Claim(IF p = growing THEN Brisk ELSE AtItsLimit, 2)]}
PolicyOnly == {ByPolicy}
PolicyClaims == Claims(PolicyOnly)
GenerousOnly == {Generous}
BriskAndPolicy == {Brisk, ByPolicy}
BriskClaims == Claims({Brisk})
StriderAndBroken == {Strider, Broken}
AllUsages == {OutOfInodes, HalfEmpty}
OneUsage == {OutOfInodes}
AtMostOne == {d \in SUBSET Managers : Cardinality(d) <= 1}
Alike == Permutations(Managers)
=============================================================================
