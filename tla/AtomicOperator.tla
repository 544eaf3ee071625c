---------------------------- MODULE AtomicOperator ----------------------------
(***************************************************************************)
(* What the operator as a whole promises: besides the atomic expansions of *)
(* AtomicExpander, a claim that is a member of the group at that moment is *)
(* raised, to a size that members have asked for.  How long a size is      *)
(* remembered is left open.                                                *)
(***************************************************************************)
EXTENDS AtomicExpander

CONSTANT GroupName  \* the group's name, as claims' group annotation gives it

VARIABLE asked      \* sizes that members have asked for

\* A claim takes part if its annotation names the group and enabled is exactly "true".
IsActive(o) == o.ann.group = GroupName /\ o.ann.enabled = "true"

MembersAsk == {api[p].req : p \in {q \in PVC : IsActive(api[q])}}

Coordinate(p) ==
    /\ IsActive(api[p])
    /\ \E size \in asked :
          /\ size > api[p].req
          /\ Accepts(p, api[p], size)
          /\ \E w \in Written(api[p], size, api[p].last) : api' = [api EXCEPT ![p] = w]
    /\ UNCHANGED now

OperatorInit == ClusterInit /\ asked \subseteq MembersAsk

OperatorNext ==
    /\ \/ UNCHANGED clusterVars
       \/ \E p \in PVC : Coordinate(p)
       \/ AtomicNext
    /\ asked' \subseteq asked \cup MembersAsk'

OperatorSpec == OperatorInit /\ [][OperatorNext]_<<api, now, asked>>

=============================================================================
