----------------------- MODULE PolicyControllerProofs -----------------------
(***************************************************************************)
(* The policy controller's counts are right when nothing is left to do,    *)
(* for any number of claims, policies and labels.  The argument: a version *)
(* names one object, so a write that the server accepts goes to the object *)
(* that was read; a claim event that changes a count queues the policy or  *)
(* is remembered as missed; so a count that neither the queue nor a retry  *)
(* is going to correct agrees with the caches.                             *)
(***************************************************************************)
EXTENDS PolicyController, FiniteSetTheorems, TLAPS

Counted(o) == Cardinality({p \in PVC : Matches(o, labelCache[p])})

\* The informer's copy is an earlier version, or the object itself.
CacheFollows ==
    \A q \in PVCPolicy :
        /\ policyCache[q].rv <= policy[q].rv
        /\ policyCache[q].rv = policy[q].rv => policyCache[q] = policy[q]

\* So is what Reconcile works on, as far as the selector goes.
CopyFollows ==
    \A q \in PVCPolicy : Working(q) =>
        /\ copy.object.rv <= policy[q].rv
        /\ copy.object.rv = policy[q].rv => copy.object.selects = policy[q].selects

\* A policy worked on and not queued again is still as it was read, and if no claim event
\* was lost since it was counted, so is the count.
WorkIsFresh ==
    \A q \in PVCPolicy : Working(q) /\ q \notin queued =>
        /\ policyCache[q].rv = copy.object.rv
        /\ policyCache[q].selects = copy.object.selects
        /\ place = "updating" /\ q \notin missed =>
              copy.object.matched = Counted(policyCache[q])

Waiting(q) == q \in queued \cup retrying \cup missed \/ Working(q)

\* A policy that waits for nothing has the count the caches give.
CountIsFresh ==
    \A q \in PVCPolicy :
        /\ policyCache[q].selects # Absent
        /\ ~Waiting(q)
        /\ policyCache[q] = policy[q]
        => policy[q].matched = Counted(policyCache[q])

\* The inductive invariant.
IInv == TypeOK /\ CacheFollows /\ CopyFollows /\ WorkIsFresh /\ CountIsFresh

-----------------------------------------------------------------------------
(***************************************************************************)
(* Counts                                                                  *)
(***************************************************************************)

\* A count is a number.
LEMMA CountIsNat ==
    ASSUME NEW o
    PROVE  Counted(o) \in Nat
<1> DEFINE T == {p \in PVC : Matches(o, labelCache[p])}
<1>1. T \in SUBSET PVC
    OBVIOUS
<1> HIDE DEF T
<1>2. Cardinality(T) \in Nat
    BY <1>1, PolicyAssumption, FS_Subset, FS_CardinalityType
<1> QED BY <1>2 DEF T, Counted

\* A count depends on the selector only.
LEMMA CountOfSelector ==
    ASSUME NEW o, NEW r, o.selects = r.selects
    PROVE  Counted(o) = Counted(r)
<1>1. {p \in PVC : Matches(o, labelCache[p])} = {p \in PVC : Matches(r, labelCache[p])}
    BY DEF Matches
<1> QED BY <1>1 DEF Counted

\* A delivered claim event changes no count but those of the policies it concerns.
LEMMA EventsConcern ==
    ASSUME TypeOK, UNCHANGED policyCache, NEW q \in PVCPolicy,
           NEW p \in PVC, labelCache' = [labelCache EXCEPT ![p] = label[p]],
           q \notin Concerned(labelCache[p], label[p])
    PROVE  Counted(policyCache[q])' = Counted(policyCache[q])
<1>1. ~Matches(policyCache[q], labelCache[p]) /\ ~Matches(policyCache[q], label[p])
    BY DEF Concerned, findPVCPoliciesForPVC
<1>2. labelCache' \in [PVC -> Label \cup {Absent}] /\ labelCache'[p] = label[p]
      /\ \A r \in PVC \ {p} : labelCache'[r] = labelCache[r]
    BY DEF TypeOK
<1>3. \A r \in PVC : Matches(policyCache[q], labelCache'[r])
                     <=> Matches(policyCache[q], labelCache[r])
    BY <1>1, <1>2
<1> QED BY <1>3 DEF Counted, Matches

-----------------------------------------------------------------------------
(***************************************************************************)
(* Type correctness                                                        *)
(***************************************************************************)

\* What the server has after Status().Update: the object as it was, or a new version of
\* it with the selector that the count was made with.
LEMMA Written ==
    ASSUME TypeOK, NEW q \in PVCPolicy, WriteStatus(q)
    PROVE  /\ copy \in Work /\ policy[q].rv = copy.object.rv
           /\ policy' \in [PVCPolicy -> Policy]
           /\ \A r \in PVCPolicy \ {q} : policy'[r] = policy[r]
           /\ \/ policy'[q] = policy[q] /\ policy[q] = copy.object
              \/ policy'[q].rv = policy[q].rv + 1
           /\ policy'[q].selects = copy.object.selects
<1>1. copy \in Work /\ copy.object \in Policy /\ policy \in [PVCPolicy -> Policy]
    BY DEF TypeOK, WriteStatus, Working, Work
<1>2. CASE policy[q] = copy.object
    BY <1>1, <1>2 DEF WriteStatus
<1>3. CASE policy[q] # copy.object
    <2> DEFINE o == [copy.object EXCEPT !.rv = copy.object.rv + 1]
    <2>1. policy' = [policy EXCEPT ![q] = o] /\ policy[q].rv = copy.object.rv
        BY <1>3 DEF WriteStatus
    <2>2. o \in Policy /\ o.rv = copy.object.rv + 1 /\ o.selects = copy.object.selects
        BY <1>1 DEF Policy
    <2> HIDE DEF o
    <2> QED BY <1>1, <2>1, <2>2
<1> QED BY <1>2, <1>3

\* An edit makes a new version of one policy.
LEMMA EditedPolicy ==
    ASSUME TypeOK, EditPolicy
    PROVE  /\ policy' \in [PVCPolicy -> Policy]
           /\ \A q \in PVCPolicy : policy'[q] = policy[q] \/ policy'[q].rv = policy[q].rv + 1
<1>1. PICK q \in PVCPolicy, s \in (SUBSET Label) \cup {Absent, Invalid} :
          policy' = [policy EXCEPT ![q] =
              IF policy[q].selects = Absent THEN NewPolicy(policy[q].rv + 1, s)
              ELSE [policy[q] EXCEPT !.selects = s, !.rv = policy[q].rv + 1]]
    BY DEF EditPolicy
<1> DEFINE o == IF policy[q].selects = Absent THEN NewPolicy(policy[q].rv + 1, s)
                ELSE [policy[q] EXCEPT !.selects = s, !.rv = policy[q].rv + 1]
<1>2. policy \in [PVCPolicy -> Policy] /\ policy[q] \in Policy
    BY DEF TypeOK
<1>3. o \in Policy /\ o.rv = policy[q].rv + 1
    <2> DEFINE e == [policy[q] EXCEPT !.selects = s, !.rv = policy[q].rv + 1]
    <2>1. NewPolicy(policy[q].rv + 1, s) \in Policy
          /\ NewPolicy(policy[q].rv + 1, s).rv = policy[q].rv + 1
        BY <1>2 DEF Policy, NewPolicy
    <2>2. e = [rv |-> policy[q].rv + 1, selects |-> s, matched |-> policy[q].matched,
               updated |-> policy[q].updated]
        <3>1. ASSUME NEW r \in Policy, NEW v
              PROVE  [[r EXCEPT !.selects = s] EXCEPT !.rv = v] =
                     [rv |-> v, selects |-> s, matched |-> r.matched, updated |-> r.updated]
            <4> DEFINE t == [r EXCEPT !.selects = s]
            <4>1. t = [rv |-> r.rv, selects |-> s, matched |-> r.matched, updated |-> r.updated]
                BY DEF Policy
            <4>2. t \in Policy /\ t.selects = s /\ t.matched = r.matched /\ t.updated = r.updated
                BY <4>1 DEF Policy
            <4> HIDE DEF t
            <4>3. [t EXCEPT !.rv = v] =
                  [rv |-> v, selects |-> t.selects, matched |-> t.matched, updated |-> t.updated]
                BY <4>2 DEF Policy
            <4> QED BY <4>2, <4>3 DEF t
        <3> QED BY <1>2, <3>1
    <2>3. e \in Policy /\ e.rv = policy[q].rv + 1
        BY <1>2, <2>2 DEF Policy
    <2> HIDE DEF e
    <2> QED BY <2>1, <2>3 DEF e
<1> HIDE DEF o
<1> QED BY <1>1, <1>2, <1>3 DEF o

\* ListPVCs sets the count and the time, and leaves the rest of the copy.
LEMMA CountedCopy ==
    ASSUME TypeOK, NEW q \in PVCPolicy, ListPVCs(q)
    PROVE  /\ copy' \in Work /\ copy'.object.selects # Absent
           /\ copy'.name = copy.name
           /\ copy'.object.rv = copy.object.rv
           /\ copy'.object.selects = copy.object.selects
           /\ copy'.object.matched = Counted(copy.object)
<1>1. copy \in Work /\ copy.object \in Policy /\ copy.object.selects # Absent /\ now \in Nat
    BY PolicyAssumption DEF TypeOK, ListPVCs, Working, Work
<1>2. Counted(copy.object) \in Nat
    BY CountIsNat
<1>3. copy' = [copy EXCEPT !.object = [copy.object EXCEPT !.matched = Counted(copy.object),
                                                          !.updated = now]]
    BY <1>1 DEF ListPVCs, Counted, Work, Policy
<1> HIDE DEF Counted
<1> QED BY <1>1, <1>2, <1>3 DEF Work, Policy

\* TypeOK is inductive by itself.
LEMMA TypeStep ==
    ASSUME TypeOK, [Next]_vars
    PROVE  TypeOK'
<1> DEFINE CacheTypeOK == /\ labelCache \in [PVC -> Label \cup {Absent}]
                          /\ policyCache \in [PVCPolicy -> Policy]
           ClusterTypeOK == /\ label \in [PVC -> Label \cup {Absent}]
                            /\ policy \in [PVCPolicy -> Policy]
                            /\ now \in 0..MaxTime /\ changes \in 0..MaxChanges
           QueueTypeOK == {queued, retrying, periodic, missed} \subseteq SUBSET PVCPolicy
           WorkTypeOK == /\ place \in {"idle", "listing", "updating"}
                         /\ IF place = "idle" THEN copy = NoWork
                            ELSE copy \in Work /\ copy.object.selects # Absent
<1> USE DEF cluster, caches, queue, work
<1>1. TypeOK = (ClusterTypeOK /\ CacheTypeOK /\ QueueTypeOK /\ WorkTypeOK)
    BY DEF TypeOK
<1>2. TypeOK' = (ClusterTypeOK' /\ CacheTypeOK' /\ QueueTypeOK' /\ WorkTypeOK')
    BY DEF TypeOK
<1>a. ASSUME NEW x, NEW max \in {MaxChanges, MaxTime}, x \in 0..max, x < max
       PROVE  x + 1 \in 0..max
    <2>1. max \in Nat
        BY PolicyAssumption
    <2> QED BY <1>a, <2>1
<1>3. CASE Tick
    <2>1. now' \in 0..MaxTime
        BY <1>1, <1>3, <1>a DEF Tick
    <2> QED BY <1>1, <1>2, <1>3, <2>1 DEF Tick
<1>4. CASE EditClaim
    <2>1. changes' \in 0..MaxChanges
        BY <1>1, <1>4, <1>a DEF EditClaim
    <2> QED BY <1>1, <1>2, <1>4, <2>1 DEF EditClaim
<1>5. CASE EditPolicy
    <2>1. changes' \in 0..MaxChanges
        BY <1>1, <1>5, <1>a DEF EditPolicy
    <2>2. policy' \in [PVCPolicy -> Policy]
        BY <1>5, EditedPolicy
    <2> QED BY <1>1, <1>2, <1>5, <2>1, <2>2 DEF EditPolicy
<1>6. ASSUME NEW q \in PVCPolicy, SyncPolicy(q) PROVE TypeOK'
    BY <1>1, <1>2, <1>6 DEF SyncPolicy
<1>7. ASSUME NEW q \in PVCPolicy, Requeue(q) PROVE TypeOK'
    BY <1>1, <1>2, <1>7 DEF Requeue
<1>8. ASSUME NEW p \in PVC, SyncClaim(p) PROVE TypeOK'
    BY <1>1, <1>2, <1>8 DEF SyncClaim, Concerned, findPVCPoliciesForPVC
<1>9. ASSUME NEW p \in PVC, SyncClaimLost(p) PROVE TypeOK'
    BY <1>1, <1>2, <1>9 DEF SyncClaimLost, Concerned, findPVCPoliciesForPVC
<1>10. ASSUME NEW q \in PVCPolicy, GetPolicy(q) PROVE TypeOK'
    <2>1. WorkTypeOK'
        <3>1. CASE Found(q)
            <4>1. copy' = [name |-> q, object |-> policyCache[q]] /\ place' = "listing"
                BY <1>10, <3>1 DEF GetPolicy
            <4>2. policyCache[q] \in Policy /\ policyCache[q].selects # Absent
                BY <1>1, <3>1 DEF Found
            <4> QED BY <4>1, <4>2 DEF Work
        <3> QED BY <1>1, <1>10, <3>1 DEF GetPolicy
    <2>2. ClusterTypeOK' /\ CacheTypeOK' /\ QueueTypeOK'
        BY <1>1, <1>10 DEF GetPolicy
    <2> QED BY <1>2, <2>1, <2>2
<1>11. ASSUME NEW q \in PVCPolicy, ListPVCs(q) PROVE TypeOK'
    <2>1. copy' \in Work /\ copy'.object.selects # Absent
        BY <1>11, CountedCopy
    <2> QED BY <1>1, <1>2, <1>11, <2>1 DEF ListPVCs
<1>12. ASSUME NEW q \in PVCPolicy, UpdateStatus(q) PROVE TypeOK'
    <2>1. policy' \in [PVCPolicy -> Policy]
        BY <1>12, Written DEF UpdateStatus
    <2>2. WorkTypeOK' /\ CacheTypeOK' /\ QueueTypeOK'
        BY <1>1, <1>12 DEF UpdateStatus, Return, ComesBack
    <2>3. ClusterTypeOK'
        BY <1>1, <1>12, <2>1 DEF UpdateStatus
    <2> QED BY <1>2, <2>2, <2>3
<1>13. ASSUME NEW q \in PVCPolicy, ReconcileFails(q) PROVE TypeOK'
    <2>1. policy' \in [PVCPolicy -> Policy]
        BY <1>1, <1>13, Written DEF ReconcileFails
    <2>2. WorkTypeOK' /\ CacheTypeOK' /\ QueueTypeOK'
        BY <1>1, <1>13 DEF ReconcileFails, Return
    <2>3. ClusterTypeOK'
        BY <1>1, <1>13, <2>1 DEF ReconcileFails
    <2> QED BY <1>2, <2>2, <2>3
<1>14. CASE Restart
    BY <1>1, <1>2, <1>14 DEF Restart, Return, Existing
<1>15. CASE UNCHANGED vars
    BY <1>1, <1>2, <1>15 DEF vars
<1> QED BY <1>3, <1>4, <1>5, <1>6, <1>7, <1>8, <1>9, <1>10, <1>11, <1>12, <1>13, <1>14, <1>15
        DEF Next, Reconcile

-----------------------------------------------------------------------------
(***************************************************************************)
(* The invariant's other parts, one after the other                        *)
(***************************************************************************)

\* A version grows whenever the object changes.
LEMMA VersionStep ==
    ASSUME IInv, [Next]_vars, NEW q \in PVCPolicy
    PROVE  /\ policy'[q] = policy[q] \/ policy'[q].rv = policy[q].rv + 1
           /\ policyCache'[q] \in {policyCache[q], policy[q], policy'[q]}
<1> USE DEF cluster, caches, IInv
<1>1. CASE Tick \/ EditClaim \/ Restart \/ UNCHANGED vars
    BY <1>1 DEF Tick, EditClaim, Restart, vars
<1>2. CASE EditPolicy
    BY <1>2, EditedPolicy DEF EditPolicy
<1>3. ASSUME NEW p \in PVC, SyncClaim(p) \/ SyncClaimLost(p)
      PROVE  UNCHANGED <<policy, policyCache>>
    BY <1>3 DEF SyncClaim, SyncClaimLost
<1>4. ASSUME NEW r \in PVCPolicy, SyncPolicy(r)
      PROVE  policy' = policy /\ policyCache'[q] \in {policyCache[q], policy[q]}
    BY <1>4 DEF SyncPolicy, TypeOK
<1>5. ASSUME NEW r \in PVCPolicy, Requeue(r) \/ GetPolicy(r) \/ ListPVCs(r)
      PROVE  UNCHANGED <<policy, policyCache>>
    BY <1>5 DEF Requeue, GetPolicy, ListPVCs
<1>6. ASSUME NEW r \in PVCPolicy, UpdateStatus(r) \/ ReconcileFails(r)
      PROVE  /\ UNCHANGED policyCache
             /\ policy'[q] = policy[q] \/ policy'[q].rv = policy[q].rv + 1
    BY <1>6, Written DEF UpdateStatus, ReconcileFails
<1> QED BY <1>1, <1>2, <1>3, <1>4, <1>5, <1>6 DEF Next, Reconcile

LEMMA CacheStep ==
    ASSUME IInv, [Next]_vars
    PROVE  CacheFollows'
<1>1. policy \in [PVCPolicy -> Policy] /\ TypeOK'
    BY TypeStep DEF IInv, TypeOK
<1>2. \A q \in PVCPolicy : policy[q].rv \in Nat /\ policyCache[q].rv \in Nat
    BY DEF IInv, TypeOK, Policy
<1> QED BY <1>1, <1>2, VersionStep DEF IInv, CacheFollows

\* What Reconcile works on: the copy it had, perhaps counted, or the informer's.
LEMMA CopyStep ==
    ASSUME IInv, [Next]_vars
    PROVE  CopyFollows'
<1> USE DEF cluster, caches, work, IInv
<1> SUFFICES ASSUME NEW q \in PVCPolicy, Working(q)'
             PROVE  /\ copy'.object.rv <= policy'[q].rv
                    /\ copy'.object.rv = policy'[q].rv =>
                          copy'.object.selects = policy'[q].selects
    BY DEF CopyFollows
<1>1. \/ Working(q) /\ copy'.object.rv = copy.object.rv
                    /\ copy'.object.selects = copy.object.selects
      \/ policy' = policy /\ copy'.object = policyCache[q]
    <2>1. CASE Tick \/ EditClaim \/ EditPolicy \/ UNCHANGED vars
        BY <2>1 DEF Tick, EditClaim, EditPolicy, vars, Working
    <2>2. ASSUME NEW p \in PVC, SyncClaim(p) \/ SyncClaimLost(p) PROVE UNCHANGED work
        BY <2>2 DEF SyncClaim, SyncClaimLost
    <2>3. ASSUME NEW r \in PVCPolicy, SyncPolicy(r) \/ Requeue(r) PROVE UNCHANGED work
        BY <2>3 DEF SyncPolicy, Requeue
    <2>4. ASSUME NEW r \in PVCPolicy, GetPolicy(r)
          PROVE  policy' = policy /\ copy'.object = policyCache[q]
        BY <2>4 DEF GetPolicy, Working
    <2>5. ASSUME NEW r \in PVCPolicy, ListPVCs(r)
          PROVE  Working(q) /\ copy'.object.rv = copy.object.rv
                            /\ copy'.object.selects = copy.object.selects
        BY <2>5, CountedCopy DEF ListPVCs, Working
    <2>6. ASSUME NEW r \in PVCPolicy, UpdateStatus(r) \/ ReconcileFails(r) \/ Restart PROVE FALSE
        BY <2>6 DEF UpdateStatus, ReconcileFails, Restart, Return, Working
    <2>7. UNCHANGED work => Working(q) /\ copy' = copy
        BY DEF Working
    <2> QED BY <2>1, <2>2, <2>3, <2>4, <2>5, <2>6, <2>7 DEF Next, Reconcile
<1>2. policy'[q].rv \in Nat /\ policy[q].rv \in Nat /\ copy'.object.rv \in Nat
    BY TypeStep DEF TypeOK, Policy, Work, Working
<1>3. policy'[q] = policy[q] \/ policy'[q].rv = policy[q].rv + 1
    BY VersionStep
<1> QED BY <1>1, <1>2, <1>3 DEF CopyFollows, CacheFollows

\* Whatever else is delivered or edited, a policy worked on and not queued is as it was
\* read; a claim event that changes its count queues it or marks it as missed.
LEMMA WorkStep ==
    ASSUME IInv, [Next]_vars
    PROVE  WorkIsFresh'
<1> USE DEF cluster, caches, queue, work, IInv
<1> DEFINE Fresh(q) ==
        /\ policyCache[q].rv = copy.object.rv
        /\ policyCache[q].selects = copy.object.selects
        /\ place = "updating" /\ q \notin missed => copy.object.matched = Counted(policyCache[q])
<1> SUFFICES ASSUME NEW q \in PVCPolicy, Working(q)', q \notin queued'
             PROVE  Fresh(q)'
    BY DEF WorkIsFresh
<1>1. Working(q) /\ q \notin queued => Fresh(q)
    BY DEF WorkIsFresh
<1>2. CASE Tick \/ EditClaim \/ EditPolicy \/ UNCHANGED vars
    <2>1. UNCHANGED <<work, queued, missed, labelCache, policyCache>>
        BY <1>2 DEF Tick, EditClaim, EditPolicy, vars
    <2> QED BY <1>1, <2>1 DEF Working, Counted, Matches
<1>3. ASSUME NEW r \in PVCPolicy, SyncPolicy(r) \/ Requeue(r) PROVE Fresh(q)'
    <2>1. q \notin queued /\ UNCHANGED <<work, missed, labelCache>> /\ policyCache'[q] = policyCache[q]
        BY <1>3 DEF SyncPolicy, Requeue, TypeOK
    <2> QED BY <1>1, <2>1 DEF Working, Counted, Matches
<1>4. ASSUME NEW p \in PVC, SyncClaim(p) \/ SyncClaimLost(p) PROVE Fresh(q)'
    <2>1. q \notin queued /\ Working(q) /\ UNCHANGED <<work, policyCache>>
          /\ (q \notin missed' => q \notin missed)
        BY <1>4 DEF SyncClaim, SyncClaimLost, Working
    <2>2. ASSUME q \notin missed' PROVE Counted(policyCache[q])' = Counted(policyCache[q])
        <3>1. labelCache' = [labelCache EXCEPT ![p] = label[p]]
              /\ q \notin Concerned(labelCache[p], label[p])
            BY <1>4, <2>2 DEF SyncClaim, SyncClaimLost
        <3> QED BY <2>1, <3>1, EventsConcern
    <2> QED BY <1>1, <2>1, <2>2
<1>5. ASSUME NEW r \in PVCPolicy, GetPolicy(r) PROVE Fresh(q)'
    <2>1. copy'.object = policyCache[q] /\ place' = "listing" /\ policyCache' = policyCache
        BY <1>5 DEF GetPolicy, Working
    <2> QED BY <2>1
<1>6. ASSUME NEW r \in PVCPolicy, ListPVCs(r) PROVE Fresh(q)'
    <2>1. Working(q) /\ q \notin queued /\ q = r /\ UNCHANGED <<labelCache, policyCache>>
        BY <1>6, CountedCopy DEF ListPVCs, Working
    <2>2. policyCache[q].rv = copy.object.rv /\ policyCache[q].selects = copy.object.selects
        BY <1>1, <2>1
    <2>3. Counted(copy.object) = Counted(policyCache[q])
        BY <2>2, CountOfSelector
    <2>4. Counted(policyCache[q])' = Counted(policyCache[q])
        BY <2>1 DEF Counted, Matches
    <2>5. /\ copy'.object.rv = copy.object.rv
          /\ copy'.object.selects = copy.object.selects
          /\ copy'.object.matched = Counted(copy.object)
        BY <1>6, CountedCopy
    <2> QED BY <2>1, <2>2, <2>3, <2>4, <2>5
<1>7. ASSUME NEW r \in PVCPolicy, UpdateStatus(r) \/ ReconcileFails(r) \/ Restart PROVE FALSE
    BY <1>7 DEF UpdateStatus, ReconcileFails, Restart, Return, Working
<1> QED BY <1>2, <1>3, <1>4, <1>5, <1>6, <1>7 DEF Next, Reconcile

\* A write that leaves the cache current wrote the count of the cache: the server accepts
\* only what was made from its own version, and a changed object makes the cache stale.
LEMMA CountStep ==
    ASSUME IInv, [Next]_vars
    PROVE  CountIsFresh'
<1> USE DEF cluster, caches, queue, work, IInv
<1> SUFFICES ASSUME NEW q \in PVCPolicy, policyCache'[q].selects # Absent, ~Waiting(q)',
                    policyCache'[q] = policy'[q]
             PROVE  policy'[q].matched = Counted(policyCache[q])'
    BY DEF CountIsFresh
<1>1. /\ policyCache[q].selects # Absent /\ ~Waiting(q) /\ policyCache[q] = policy[q]
      => policy[q].matched = Counted(policyCache[q])
    BY DEF CountIsFresh
<1>2. policy[q].rv \in Nat /\ policyCache[q].rv \in Nat /\ policyCache[q].rv <= policy[q].rv
    BY DEF TypeOK, Policy, CacheFollows
<1>3. CASE Tick \/ EditClaim \/ EditPolicy \/ UNCHANGED vars
    <2>1. UNCHANGED <<work, queue, missed, labelCache, policyCache>>
        BY <1>3 DEF Tick, EditClaim, EditPolicy, vars
    <2>2. policy'[q] = policy[q]
        BY <1>2, <2>1, VersionStep
    <2> QED BY <1>1, <2>1, <2>2 DEF Waiting, Working, Counted, Matches
<1>4. ASSUME NEW r \in PVCPolicy, SyncPolicy(r) \/ Requeue(r)
      PROVE  policy'[q].matched = Counted(policyCache[q])'
    <2>1. UNCHANGED <<work, missed, labelCache, policy>> /\ policyCache'[q] = policyCache[q]
          /\ q \notin queued \cup retrying
        BY <1>4 DEF SyncPolicy, Requeue, TypeOK, Waiting
    <2> QED BY <1>1, <2>1 DEF Waiting, Working, Counted, Matches
<1>5. ASSUME NEW p \in PVC, SyncClaim(p) \/ SyncClaimLost(p)
      PROVE  policy'[q].matched = Counted(policyCache[q])'
    <2>1. ~Waiting(q) /\ UNCHANGED <<policy, policyCache>>
        BY <1>5 DEF SyncClaim, SyncClaimLost, Waiting, Working
    <2>2. labelCache' = [labelCache EXCEPT ![p] = label[p]]
          /\ q \notin Concerned(labelCache[p], label[p])
        BY <1>5 DEF SyncClaim, SyncClaimLost, Waiting
    <2> QED BY <1>1, <2>1, <2>2, EventsConcern
<1>6. ASSUME NEW r \in PVCPolicy, GetPolicy(r) \/ ListPVCs(r)
      PROVE  policy'[q].matched = Counted(policyCache[q])'
    <2>1. UNCHANGED <<policy, policyCache, labelCache>>
        BY <1>6 DEF GetPolicy, ListPVCs
    <2>2. ~Waiting(q)
        <3>1. CASE GetPolicy(r)
            <4>1. q # r
                BY <1>6, <2>1, <3>1 DEF GetPolicy, Found, Waiting, Working
            <4> QED BY <3>1, <4>1 DEF GetPolicy, Waiting, Working
        <3>2. CASE ListPVCs(r)
            BY <3>2, CountedCopy DEF ListPVCs, Waiting, Working
        <3> QED BY <1>6, <3>1, <3>2
    <2> QED BY <1>1, <2>1, <2>2 DEF Counted, Matches
<1>7. ASSUME NEW r \in PVCPolicy, UpdateStatus(r)
      PROVE  policy'[q].matched = Counted(policyCache[q])'
    <2>1. UNCHANGED <<queued, retrying, missed, labelCache, policyCache>>
        BY <1>7 DEF UpdateStatus
    <2>2. policy'[q] = policy[q]
        BY <1>2, <2>1, VersionStep
    <2>3. CASE q = r
        <3>1. Working(q) /\ place = "updating" /\ policy[q].rv = copy.object.rv
            BY <1>7, <2>3 DEF UpdateStatus, WriteStatus
        <3>2. policy[q] = copy.object
            BY <1>2, <1>7, <2>2, <2>3, Written DEF UpdateStatus
        <3>3. copy.object.matched = Counted(policyCache[q])
            BY <2>1, <3>1 DEF WorkIsFresh, Waiting
        <3> QED BY <2>1, <2>2, <3>2, <3>3 DEF Counted, Matches
    <2>4. CASE q # r
        <3>1. ~Working(q)
            BY <1>7, <2>4 DEF UpdateStatus, WriteStatus, Working
        <3> QED BY <1>1, <2>1, <2>2, <3>1 DEF Waiting, Counted, Matches
    <2> QED BY <2>3, <2>4
<1>8. ASSUME NEW r \in PVCPolicy, ReconcileFails(r)
      PROVE  policy'[q].matched = Counted(policyCache[q])'
    <2>1. UNCHANGED <<queued, missed, labelCache, policyCache>> /\ q # r
          /\ (q \notin retrying' => q \notin retrying) /\ ~Working(q)
        BY <1>8 DEF ReconcileFails, Waiting, Working
    <2>2. policy'[q] = policy[q]
        BY <1>2, <2>1, VersionStep
    <2> QED BY <1>1, <2>1, <2>2 DEF Waiting, Counted, Matches
<1>9. CASE Restart
    BY <1>9 DEF Restart, Existing, Waiting, TypeOK
<1> QED BY <1>3, <1>4, <1>5, <1>6, <1>7, <1>8, <1>9 DEF Next, Reconcile

-----------------------------------------------------------------------------
(***************************************************************************)
(* The theorems                                                            *)
(***************************************************************************)

\* IInv holds always: at the start and after a restart every policy that exists is
\* queued, and every step keeps it.
THEOREM Invariance == Spec => []IInv
<1>1. Init => IInv
    <2> SUFFICES ASSUME Init PROVE IInv
        OBVIOUS
    <2>1. policy \in [PVCPolicy -> Policy]
        BY DEF Init, NewPolicy, Policy
    <2>2. TypeOK
        BY <2>1, PolicyAssumption DEF Init, TypeOK, Existing
    <2>3. CacheFollows /\ CopyFollows /\ WorkIsFresh
        BY <2>1 DEF Init, CacheFollows, CopyFollows, WorkIsFresh, Working, Policy
    <2>4. CountIsFresh
        BY DEF Init, CountIsFresh, Waiting, Existing
    <2> QED BY <2>2, <2>3, <2>4 DEF IInv
<1>2. IInv /\ [Next]_vars => IInv'
    BY TypeStep, CacheStep, CopyStep, WorkStep, CountStep DEF IInv
<1> QED BY <1>1, <1>2, PTL DEF Spec

\* The variables keep their types; what Reconcile works on exists.
THEOREM TypeCorrectness == Spec => []TypeOK
<1>1. IInv => TypeOK
    BY DEF IInv
<1> QED BY <1>1, Invariance, PTL

\* No order of deliveries, edits, conflicts, errors, lost answers and restarts leaves a
\* wrong status.matchedPVCs that nobody is about to correct.
THEOREM SettledTheorem == Spec => []SettledIsRight
<1>1. IInv => SettledIsRight
    BY DEF IInv, CountIsFresh, SettledIsRight, Existing, Waiting, Right, Counted
<1> QED BY <1>1, Invariance, PTL

\* A count is written only beside the selector it was counted with.
THEOREM SelectorTheorem == Spec => CountFitsSelector
<1>1. IInv /\ [Next]_vars =>
        [\A q \in PVCPolicy : Working(q) /\ copy' = NoWork /\ policy'[q] # policy[q] =>
             policy[q].selects = copy.object.selects]_vars
    <2> SUFFICES ASSUME IInv, [Next]_vars, NEW q \in PVCPolicy, Working(q), copy' = NoWork,
                        policy'[q] # policy[q]
                 PROVE  policy[q].selects = copy.object.selects
        OBVIOUS
    <2>1. copy # NoWork
        BY PolicyAssumption DEF IInv, TypeOK, Working
    <2>2. CASE \E r \in PVCPolicy : UpdateStatus(r) \/ ReconcileFails(r)
        <3>1. policy[q].rv = copy.object.rv
            BY <2>2 DEF UpdateStatus, ReconcileFails, WriteStatus, Working
        <3> QED BY <3>1 DEF IInv, CopyFollows
    <2>3. UNCHANGED policy \/ UNCHANGED copy \/ \E r \in PVCPolicy : UpdateStatus(r) \/ ReconcileFails(r)
        BY DEF Next, Reconcile, Tick, EditClaim, EditPolicy, SyncClaim, SyncClaimLost, SyncPolicy,
               Requeue, GetPolicy, ListPVCs, Restart, vars, cluster, caches, queue, work
    <2> QED BY <2>1, <2>2, <2>3
<1> QED BY <1>1, Invariance, PTL DEF Spec, CountFitsSelector

=============================================================================
