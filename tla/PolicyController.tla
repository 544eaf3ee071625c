--------------------------- MODULE PolicyController ---------------------------
(***************************************************************************)
(* PVCPolicyReconciler: one worker keeps status.matchedPVCs, the number of *)
(* claims each policy's selector matches, from informer caches.  Events    *)
(* reach the workqueue through findPVCPoliciesForPVC, which may lose them. *)
(* A claim has one label; a selector is the set of labels it matches.      *)
(***************************************************************************)
EXTENDS FiniteSets, Naturals

CONSTANTS
    PVC,         \* the claims of the namespace
    PVCPolicy,   \* the policies' names
    Label,       \* what a claim may be labelled
    Absent,      \* no such object
    Invalid,     \* a selector that does not parse
    NoWork,      \* no reconciliation under way
    MaxChanges,  \* bound: edits by users
    MaxTime      \* bound: the clock stops here

VARIABLES
    label,        \* claim -> its label as stored, Absent if there is no claim
    policy,       \* policy -> the object as stored
    now,          \* the clock, in seconds
    changes,      \* edits so far
    labelCache,   \* claim -> label in the informer's copy
    policyCache,  \* policy -> the informer's copy
    queued,       \* the policies in the workqueue
    retrying,     \* those that come back after an error
    periodic,     \* those that come back five minutes after a success
    place,        \* where Reconcile is
    copy,         \* what it works on: a policy's name and object
    missed        \* policies that a lost claim event concerned and not counted since

cluster == <<label, policy, now, changes>>
caches == <<labelCache, policyCache>>
queue == <<queued, retrying, periodic>>
work == <<place, copy>>
vars == <<cluster, caches, queue, work, missed>>

Policy == [rv : Nat, selects : (SUBSET Label) \cup {Absent, Invalid}, matched : Nat, updated : Nat]

Work == [name : PVCPolicy, object : Policy]

ASSUME PolicyAssumption ==
    /\ IsFiniteSet(PVC)
    /\ {MaxChanges, MaxTime} \subseteq Nat
    /\ Absent \notin Label
    /\ NoWork \notin Work

NewPolicy(version, selects) == [rv |-> version, selects |-> selects, matched |-> 0, updated |-> 0]

Matches(o, l) == o.selects \notin {Absent, Invalid} /\ l \in o.selects

Existing == {q \in PVCPolicy : policy[q].selects # Absent}

Init ==
    /\ label \in [PVC -> Label \cup {Absent}]
    /\ \E selects \in [PVCPolicy -> (SUBSET Label) \cup {Absent}] :
          policy = [q \in PVCPolicy |-> NewPolicy(0, selects[q])]
    /\ now = 0 /\ changes = 0
    /\ labelCache = label /\ policyCache = policy
    /\ queued = Existing /\ retrying = {} /\ periodic = {}
    /\ place = "idle" /\ copy = NoWork
    /\ missed = {}

-----------------------------------------------------------------------------
(***************************************************************************)
(* Users, and the events that queue a policy                               *)
(***************************************************************************)

Tick ==
    /\ now < MaxTime
    /\ now' = now + 1
    /\ UNCHANGED <<label, policy, changes, caches, queue, work, missed>>

\* A claim is created, labelled anew or deleted.
EditClaim ==
    /\ changes < MaxChanges
    /\ changes' = changes + 1
    /\ \E p \in PVC, l \in Label \cup {Absent} :
          l # label[p] /\ label' = [label EXCEPT ![p] = l]
    /\ UNCHANGED <<policy, now, caches, queue, work, missed>>

\* A policy is created, given another selector or deleted.
EditPolicy ==
    /\ changes < MaxChanges
    /\ changes' = changes + 1
    /\ \E q \in PVCPolicy, s \in (SUBSET Label) \cup {Absent, Invalid} :
          /\ s # policy[q].selects
          /\ policy' = [policy EXCEPT ![q] =
                IF @.selects = Absent THEN NewPolicy(@.rv + 1, s)
                ELSE [@ EXCEPT !.selects = s, !.rv = policy[q].rv + 1]]
    /\ UNCHANGED <<label, now, caches, queue, work, missed>>

\* Every delivery of a policy queues it, its own status updates included.
SyncPolicy(q) ==
    /\ policyCache[q] # policy[q]
    /\ policyCache' = [policyCache EXCEPT ![q] = policy[q]]
    /\ queued' = queued \cup {q}
    /\ UNCHANGED <<cluster, labelCache, retrying, periodic, work, missed>>

findPVCPoliciesForPVC(l) == {q \in PVCPolicy : Matches(policyCache[q], l)}

\* Fault: only the new object is mapped.
ConcernedAfter(old, new) == findPVCPoliciesForPVC(new)

\* The watch maps the old object of an event and the new one.
Concerned(old, new) == findPVCPoliciesForPVC(old) \cup findPVCPoliciesForPVC(new)

SyncClaim(p) ==
    /\ labelCache[p] # label[p]
    /\ labelCache' = [labelCache EXCEPT ![p] = label[p]]
    /\ queued' = queued \cup Concerned(labelCache[p], label[p])
    /\ UNCHANGED <<cluster, policyCache, retrying, periodic, work, missed>>

\* The list of policies fails for the old object, the new one or both: nil is returned
\* and nobody tries again.
SyncClaimLost(p) ==
    /\ labelCache[p] # label[p]
    /\ labelCache' = [labelCache EXCEPT ![p] = label[p]]
    /\ \E found \in {{}, findPVCPoliciesForPVC(labelCache[p]), findPVCPoliciesForPVC(label[p])} :
          /\ queued' = queued \cup found
          /\ missed' = missed \cup (Concerned(labelCache[p], label[p]) \ found)
    /\ UNCHANGED <<cluster, policyCache, retrying, periodic, work>>

\* A delay ends.
Requeue(q) ==
    /\ \/ q \in retrying /\ retrying' = retrying \ {q} /\ UNCHANGED periodic
       \/ q \in periodic /\ periodic' = periodic \ {q} /\ UNCHANGED retrying
    /\ queued' = queued \cup {q}
    /\ UNCHANGED <<cluster, caches, work, missed>>

-----------------------------------------------------------------------------
(***************************************************************************)
(* Reconcile (the semaphore of ten is never full: there is one worker)     *)
(***************************************************************************)

\* Fault: a policy that is gone is worked on as an empty object.
FoundAlways(q) == TRUE

Found(q) == policyCache[q].selects # Absent

GetPolicy(q) ==
    /\ place = "idle" /\ q \in queued
    /\ queued' = queued \ {q}
    /\ IF Found(q)
       THEN place' = "listing" /\ copy' = [name |-> q, object |-> policyCache[q]]
       ELSE UNCHANGED work
    /\ UNCHANGED <<cluster, caches, retrying, periodic, missed>>

Working(q) == place # "idle" /\ copy.name = q

ListPVCs(q) ==
    /\ Working(q) /\ place = "listing"
    /\ copy.object.selects # Invalid
    /\ place' = "updating"
    /\ copy' = [copy EXCEPT
          !.object.matched = Cardinality({p \in PVC : Matches(copy.object, labelCache[p])}),
          !.object.updated = now]
    /\ missed' = missed \ {q}
    /\ UNCHANGED <<cluster, caches, queue>>

Return == place' = "idle" /\ copy' = NoWork

\* Fault: the status is patched without the version.
WriteStatusBlindly(q) ==
    /\ Working(q) /\ place = "updating" /\ policy[q].selects # Absent
    /\ policy' = [policy EXCEPT ![q].matched = copy.object.matched,
                                ![q].updated = copy.object.updated, ![q].rv = @ + 1]

\* Status().Update: refused unless the policy is as it was read; a write that changes
\* nothing keeps the version.
WriteStatus(q) ==
    /\ Working(q) /\ place = "updating"
    /\ policy[q].selects # Absent /\ policy[q].rv = copy.object.rv
    /\ policy' = [policy EXCEPT ![q] =
          IF @ = copy.object THEN @ ELSE [copy.object EXCEPT !.rv = @ + 1]]

\* Fault: nothing brings a policy back after a success.
ComesBackNever(q) == UNCHANGED periodic

ComesBack(q) == periodic' = periodic \cup {q}

UpdateStatus(q) ==
    /\ WriteStatus(q)
    /\ Return
    /\ ComesBack(q)
    /\ UNCHANGED <<label, now, changes, caches, queued, retrying, missed>>

\* The list fails, the selector does not parse, the update is refused, or its answer is
\* lost: the error brings the policy back.
ReconcileFails(q) ==
    /\ Working(q)
    /\ WriteStatus(q) \/ UNCHANGED policy
    /\ Return
    /\ retrying' = retrying \cup {q}
    /\ UNCHANGED <<label, now, changes, caches, queued, periodic, missed>>

\* The process dies; its successor lists everything and queues every policy.
Restart ==
    /\ labelCache' = label /\ policyCache' = policy
    /\ queued' = Existing /\ retrying' = {} /\ periodic' = {}
    /\ Return
    /\ missed' = {}
    /\ UNCHANGED cluster

Reconcile(q) == GetPolicy(q) \/ ListPVCs(q) \/ UpdateStatus(q) \/ ReconcileFails(q)

Next ==
    \/ Tick \/ EditClaim \/ EditPolicy
    \/ \E p \in PVC : SyncClaim(p) \/ SyncClaimLost(p)
    \/ \E q \in PVCPolicy : SyncPolicy(q) \/ Requeue(q) \/ Reconcile(q)
    \/ Restart

Spec == Init /\ [][Next]_vars

(***************************************************************************)
(* Informers deliver, delays end and the worker runs (WF); it takes every  *)
(* queued policy in turn, and reads and writes may fail and the process    *)
(* may die any number of times, but not every time (SF).  Whether the map  *)
(* function loses an event is left open.                                   *)
(***************************************************************************)
Fairness ==
    /\ \A p \in PVC : WF_vars(SyncClaim(p) \/ SyncClaimLost(p))
    /\ \A q \in PVCPolicy :
          /\ WF_vars(SyncPolicy(q)) /\ WF_vars(Requeue(q)) /\ WF_vars(ReconcileFails(q))
          /\ SF_vars(GetPolicy(q)) /\ SF_vars(ListPVCs(q)) /\ SF_vars(UpdateStatus(q))

FairSpec == Spec /\ Fairness

-----------------------------------------------------------------------------
(***************************************************************************)
(* Properties                                                              *)
(***************************************************************************)

\* The type invariant; what Reconcile works on exists.
TypeOK ==
    /\ label \in [PVC -> Label \cup {Absent}]
    /\ policy \in [PVCPolicy -> Policy]
    /\ now \in 0..MaxTime /\ changes \in 0..MaxChanges
    /\ labelCache \in [PVC -> Label \cup {Absent}]
    /\ policyCache \in [PVCPolicy -> Policy]
    /\ {queued, retrying, periodic, missed} \subseteq SUBSET PVCPolicy
    /\ place \in {"idle", "listing", "updating"}
    /\ IF place = "idle" THEN copy = NoWork
       ELSE copy \in Work /\ copy.object.selects # Absent

Right(q) == policy[q].matched = Cardinality({p \in PVC : Matches(policy[q], label[p])})

\* When everything is delivered, the worker has nothing to do for a policy but the
\* periodic run, and no claim event was lost, then the count is right: no order of
\* deliveries, edits, conflicts and errors leaves a wrong count that nobody is about
\* to correct.
SettledIsRight ==
    \A q \in Existing :
        /\ labelCache = label /\ policyCache[q] = policy[q]
        /\ q \notin queued \cup retrying \cup missed
        /\ ~Working(q)
        => Right(q)

\* A count is written only beside the selector it was counted with, although the policy
\* may have been edited, or deleted and made anew, since it was read.
CountFitsSelector ==
    [][\A q \in PVCPolicy :
          Working(q) /\ copy' = NoWork /\ policy'[q] # policy[q] =>
              policy[q].selects = copy.object.selects]_vars

\* The count becomes right and stays so once users leave the objects alone, even if
\* claim events are lost: the periodic run repairs them.
CountsConverge ==
    \A q \in PVCPolicy : <>[](policy[q].selects \notin {Absent, Invalid} => Right(q))

=============================================================================
