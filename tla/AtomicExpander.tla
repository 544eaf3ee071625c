---------------------------- MODULE AtomicExpander ----------------------------
(***************************************************************************)
(* What the periodic expansion of claims promises: every expansion is one  *)
(* atomic step on the claim as it is stored at that moment, as if the      *)
(* operator read, decided and wrote without anybody in between, whatever   *)
(* the number of operator instances and the age of their caches.           *)
(***************************************************************************)
EXTENDS Cluster

(***************************************************************************)
(* A configuration c of the stored claim o allows expanding it at time t:  *)
(* the claim is bound to a file system, its class expandable, no resize is going on, the *)
(* cooldown is over and the new size respects the limit.                   *)
(***************************************************************************)
Allows(p, o, c, t) ==
    /\ c # NotManaged
    /\ Filesystem[p] /\ o.bound
    /\ Expandable[p]
    /\ ~o.resizing
    /\ ~IsInCooldown(c, t)
    /\ CalculateNewSize(c, o.cap) # Invalid
    /\ ~ExceedsMaxSize(c, CalculateNewSize(c, o.cap))

\* The stamp written with an expansion is a time that passed, no earlier than the
\* second in which the cooldown ended.
StampFits(c, stamp, t) ==
    /\ stamp \in Nat
    /\ stamp <= t
    /\ c.last # Absent => stamp > c.last + c.set.cooldown - TicksPerSecond

ExpandNow(p) ==
    /\ \E c \in Resolved(p, api[p]), stamp \in 0..now :
          /\ Allows(p, api[p], c, now)
          /\ StampFits(c, stamp, now)
          /\ Accepts(p, api[p], CalculateNewSize(c, api[p].cap))
          /\ \E w \in Written(api[p], CalculateNewSize(c, api[p].cap), stamp) :
                api' = [api EXCEPT ![p] = w]
    /\ UNCHANGED now

AtomicNext == Environment \/ \E p \in PVC : ExpandNow(p)

AtomicSpec == ClusterInit /\ [][AtomicNext]_clusterVars

=============================================================================
