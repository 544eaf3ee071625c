--------------------------- MODULE GroupController ---------------------------
(***************************************************************************)
(* PVCGroupReconciler for one PVCGroup: a workqueue with one worker per    *)
(* manager reads the group and its members from the informers, raises      *)
(* members below the largest request one Update at a time, and writes the  *)
(* group's status.  Claims, users and storage layer are those of Cluster.  *)
(***************************************************************************)
EXTENDS Cluster, FiniteSets, FiniteSetsExt

CONSTANTS
    Managers,      \* the operator processes
    GroupName,     \* the group's name, as claims' group annotation gives it
    NoPVC,         \* no claim: not a member in this reconciliation
    GroupVersions  \* bound: the group is created and deleted only below this version

ASSUME GroupAssumption ==
    /\ IsFiniteSet(PVC)
    /\ GroupVersions \in Nat
    /\ NoPVC \notin Object

VARIABLES
    group,       \* the PVCGroup the API server stores
    groupCache,  \* manager -> the informer's copy of it
    claimCache,  \* manager -> claim -> the informer's copy
    queued,      \* manager -> the group waits in the workqueue
    delayed,     \* manager -> a RequeueAfter or a retry will queue it
    place,       \* manager -> where Reconcile is
    copy,        \* manager -> the group Reconcile works on
    members      \* manager -> claim -> the copy of an active member it is going to raise

groupVars == <<group, groupCache, claimCache, queued, delayed, place, copy, members>>
vars == <<api, now, group, groupCache, claimCache, queued, delayed, place, copy, members>>

\* The spec of a group is never read; its status is members, size and updated.
Group == [rv : Nat, exists : BOOLEAN, members : Nat, size : Nat \cup {Absent},
          updated : Nat \cup {Absent}]

NewGroup(version) ==
    [rv |-> version, exists |-> TRUE, members |-> 0, size |-> Absent, updated |-> Absent]

NoCopy == NewGroup(0)

Init ==
    /\ ClusterInit
    /\ \E exists \in BOOLEAN : group = [NewGroup(0) EXCEPT !.exists = exists]
    /\ groupCache = [m \in Managers |-> group]
    /\ claimCache = [m \in Managers |-> api]
    /\ queued = [m \in Managers |-> TRUE]
    /\ delayed = [m \in Managers |-> FALSE]
    /\ place = [m \in Managers |-> "idle"]
    /\ copy = [m \in Managers |-> NoCopy]
    /\ members = [m \in Managers |-> [p \in PVC |-> NoPVC]]

-----------------------------------------------------------------------------
(***************************************************************************)
(* The group as users see it, and the events that queue it                 *)
(***************************************************************************)

DeleteGroup ==
    /\ group.exists /\ group.rv < GroupVersions
    /\ group' = [group EXCEPT !.exists = FALSE, !.rv = @ + 1]
    /\ UNCHANGED <<api, now, groupCache, claimCache, queued, delayed, place, copy, members>>

CreateGroup ==
    /\ ~group.exists /\ group.rv < GroupVersions
    /\ group' = NewGroup(group.rv + 1)
    /\ UNCHANGED <<api, now, groupCache, claimCache, queued, delayed, place, copy, members>>

\* Every delivery of the group queues it, its own status updates included.
SyncGroup(m) ==
    /\ groupCache[m] # group
    /\ groupCache' = [groupCache EXCEPT ![m] = group]
    /\ queued' = [queued EXCEPT ![m] = TRUE]
    /\ UNCHANGED <<api, now, group, claimCache, delayed, place, copy, members>>

\* A claim event queues the group the claim names, before or after the change.
findPVCGroupForPVC(o) == o.ann.group

SyncClaim(m, p) ==
    /\ claimCache[m][p] # api[p]
    /\ claimCache' = [claimCache EXCEPT ![m][p] = api[p]]
    /\ queued' = [queued EXCEPT ![m] =
          @ \/ GroupName \in {findPVCGroupForPVC(claimCache[m][p]), findPVCGroupForPVC(api[p])}]
    /\ UNCHANGED <<api, now, group, groupCache, delayed, place, copy, members>>

\* A delay ends.
Requeue(m) ==
    /\ delayed[m]
    /\ delayed' = [delayed EXCEPT ![m] = FALSE]
    /\ queued' = [queued EXCEPT ![m] = TRUE]
    /\ UNCHANGED <<api, now, group, groupCache, claimCache, place, copy, members>>

-----------------------------------------------------------------------------
(***************************************************************************)
(* Reconcile                                                               *)
(***************************************************************************)

\* Fault: what failed is not tried again.
ReturnForGood(m, again) ==
    /\ place' = [place EXCEPT ![m] = "idle"]
    /\ copy' = [copy EXCEPT ![m] = NoCopy]
    /\ members' = [members EXCEPT ![m] = [p \in PVC |-> NoPVC]]
    /\ UNCHANGED delayed

\* Reconcile returns; with again, an error or a RequeueAfter brings it back.
Return(m, again) ==
    /\ place' = [place EXCEPT ![m] = "idle"]
    /\ delayed' = [delayed EXCEPT ![m] = @ \/ again]
    /\ copy' = [copy EXCEPT ![m] = NoCopy]
    /\ members' = [members EXCEPT ![m] = [p \in PVC |-> NoPVC]]

\* The worker takes the group from the queue and reads it.  (The mutex in statusLocks is
\* never contended: the queue hands a group to one worker at a time.)
GetGroup(m) ==
    /\ place[m] = "idle"
    /\ queued[m]
    /\ queued' = [queued EXCEPT ![m] = FALSE]
    /\ IF groupCache[m].exists
       THEN /\ place' = [place EXCEPT ![m] = "listing"]
            /\ copy' = [copy EXCEPT ![m] = groupCache[m]]
            /\ UNCHANGED <<delayed, members>>
       ELSE Return(m, FALSE)
    /\ UNCHANGED <<api, now, group, groupCache, claimCache>>

\* A read fails.
ReadFails(m) ==
    /\ place[m] = "listing"
    /\ Return(m, TRUE)
    /\ UNCHANGED <<api, now, group, groupCache, claimCache, queued>>

\* A claim takes part if its annotation names the group and enabled is exactly "true".
IsActive(o) == o.ann.group = GroupName /\ o.ann.enabled = "true"

calculateLargestSize(claims) == Max({0} \cup {o.req : o \in claims})

\* Fault: every claim of the namespace is counted as a member.
MemberCountOfNamespace(active) == Cardinality(PVC)

\* status.memberCount
MemberCount(active) == Cardinality(active)

\* The members, the size they are to have, those below it, and the new status.
ListMembers(m) ==
    LET active == {p \in PVC : IsActive(claimCache[m][p])}
        target == calculateLargestSize({claimCache[m][p] : p \in active})
        behind == {p \in active : claimCache[m][p].req < target}
    IN  /\ place[m] = "listing"
        /\ place' = [place EXCEPT ![m] = "coordinating"]
        /\ members' = [members EXCEPT ![m] =
                          [p \in PVC |-> IF p \in behind THEN claimCache[m][p] ELSE NoPVC]]
        /\ copy' = [copy EXCEPT ![m] =
                       [copy[m] EXCEPT !.members = MemberCount(active), !.updated = RFC3339(now),
                                       !.size = IF active = {} THEN copy[m].size ELSE target]]
        /\ UNCHANGED <<api, now, group, groupCache, claimCache, queued, delayed>>

\* The members still to be raised.
Behind(m) == {p \in PVC : members[m][p] # NoPVC}

\* Fault: the claim is patched without its version.
CoordinateByPatch(m, p) ==
    /\ place[m] = "coordinating"
    /\ p \in Behind(m)
    /\ Accepts(p, api[p], copy[m].size)
    /\ \E w \in Written(api[p], copy[m].size, api[p].last) : api' = [api EXCEPT ![p] = w]
    /\ members' = [members EXCEPT ![m][p] = NoPVC]
    /\ UNCHANGED <<now, group, groupCache, claimCache, queued, delayed, place, copy>>

\* Fault: the claim is read again and its size compared, but not its membership.
CoordinateAfresh(m, p) ==
    /\ CoordinateByPatch(m, p)
    /\ api[p].req < copy[m].size

\* The API server takes the Update of one member.
Raise(m, p) ==
    /\ Accepts(p, members[m][p], copy[m].size)
    /\ \E w \in Written(members[m][p], copy[m].size, members[m][p].last) : api' = [api EXCEPT ![p] = w]

\* One member is updated; the copy is not needed any more.
CoordinatePVC(m, p) ==
    /\ place[m] = "coordinating"
    /\ p \in Behind(m)
    /\ Raise(m, p)
    /\ members' = [members EXCEPT ![m][p] = NoPVC]
    /\ UNCHANGED <<now, group, groupCache, claimCache, queued, delayed, place, copy>>

\* The first Update that fails ends the reconciliation, before the members that follow
\* and before the status; the write may have been taken all the same.
CoordinationFails(m, p) ==
    /\ place[m] = "coordinating"
    /\ p \in Behind(m)
    /\ \/ UNCHANGED api
       \/ Raise(m, p)
    /\ Return(m, TRUE)
    /\ UNCHANGED <<now, group, groupCache, claimCache, queued>>

\* The status is written if the group is still the one that was read.  A status that
\* changes nothing keeps its version.
UpdateStatus(m) ==
    /\ place[m] = "coordinating"
    /\ Behind(m) = {}
    /\ group.exists /\ group.rv = copy[m].rv
    /\ group' = IF group = copy[m] THEN group ELSE [copy[m] EXCEPT !.rv = @ + 1]
    /\ Return(m, TRUE)
    /\ UNCHANGED <<api, now, groupCache, claimCache, queued>>

StatusFails(m) ==
    /\ place[m] = "coordinating"
    /\ Behind(m) = {}
    /\ Return(m, TRUE)
    /\ UNCHANGED <<api, now, group, groupCache, claimCache, queued>>

\* The process dies between any two steps; its successor lists everything and starts
\* from the group's creation event.
Restart(m) ==
    /\ groupCache' = [groupCache EXCEPT ![m] = group]
    /\ claimCache' = [claimCache EXCEPT ![m] = api]
    /\ queued' = [queued EXCEPT ![m] = TRUE]
    /\ delayed' = [delayed EXCEPT ![m] = FALSE]
    /\ place' = [place EXCEPT ![m] = "idle"]
    /\ copy' = [copy EXCEPT ![m] = NoCopy]
    /\ members' = [members EXCEPT ![m] = [p \in PVC |-> NoPVC]]
    /\ UNCHANGED <<api, now, group>>

Reconcile(m) ==
    \/ GetGroup(m)
    \/ ListMembers(m)
    \/ ReadFails(m)
    \/ \E p \in PVC : CoordinatePVC(m, p) \/ CoordinationFails(m, p)
    \/ UpdateStatus(m)
    \/ StatusFails(m)

Next ==
    \/ Environment /\ UNCHANGED groupVars
    \/ DeleteGroup
    \/ CreateGroup
    \/ \E m \in Managers : \/ SyncGroup(m)
                           \/ \E p \in PVC : SyncClaim(m, p)
                           \/ Requeue(m)
                           \/ Reconcile(m)
                           \/ Restart(m)

Spec == Init /\ [][Next]_vars

(***************************************************************************)
(* Informers deliver, delays end and the worker runs (WF); reads and       *)
(* writes may fail, and the process may die, any number of times, but not  *)
(* every time (SF).                                                        *)
(***************************************************************************)
Fairness ==
    \A m \in Managers :
        /\ WF_vars(SyncGroup(m))
        /\ WF_vars(Requeue(m))
        /\ WF_vars(GetGroup(m))
        /\ SF_vars(ListMembers(m))
        /\ SF_vars(UpdateStatus(m))
        /\ WF_vars(StatusFails(m))
        /\ \A p \in PVC : /\ WF_vars(SyncClaim(m, p))
                          /\ SF_vars(CoordinatePVC(m, p))
                          /\ WF_vars(CoordinationFails(m, p))

FairSpec == Spec /\ Fairness

-----------------------------------------------------------------------------
(***************************************************************************)
(* Properties                                                              *)
(***************************************************************************)

\* The type invariant.
TypeOK ==
    /\ ClusterTypeOK
    /\ group \in Group
    /\ groupCache \in [Managers -> Group]
    /\ claimCache \in [Managers -> [PVC -> Object]]
    /\ queued \in [Managers -> BOOLEAN]
    /\ delayed \in [Managers -> BOOLEAN]
    /\ place \in [Managers -> {"idle", "listing", "coordinating"}]
    /\ copy \in [Managers -> Group]
    /\ members \in [Managers -> [PVC -> Object \cup {NoPVC}]]

\* "No volume ever gets smaller": only a user lowers a request, although the reconciler
\* works on copies, another manager or a user may have raised the claim meanwhile, and
\* the server may let a pending request be lowered.
RequestsNeverShrink ==
    [][\A p \in PVC :
          \/ api'[p].req >= api[p].req
          \/ UserResize(p) /\ UNCHANGED groupVars]_vars

\* A claim is raised only while it is, as stored, an active member: a claim whose owner
\* disabled it or moved it to another group is not touched by a reconciliation that
\* listed it earlier.
OnlyMembersRaised ==
    [][\A m \in Managers, p \in PVC :
          members'[m][p] # members[m][p] /\ api'[p].req # api[p].req => IsActive(api[p])]_vars

\* A group is never forgotten: a manager whose informer has it is reconciling it, will
\* after a delay, or has it in its queue, whatever failed and however reconciliations
\* ended: every result carries an error or a RequeueAfter.
NeverForgotten ==
    \A m \in Managers :
        groupCache[m].exists => place[m] # "idle" \/ queued[m] \/ delayed[m]

Members == {p \in PVC : IsActive(api[p])}

\* A member the server will not resize, or no group at all, excuses the reconciler.
Blocked == ~group.exists \/ \E p \in Members : ~api[p].bound

\* The largest-size policy converges: once users leave the claims alone, all members
\* come to ask for the same size and stay there.
MembersConverge ==
    []<>Blocked \/ <>[](\A p, q \in Members : api[p].req = api[q].req)

\* The status catches up: member count and current size are right in the end, though
\* each is computed from copies and a conflict throws the update away.
StatusConverges ==
    \/ []<>Blocked
    \/ <>[](/\ group.members = Cardinality(Members)
            /\ Members # {} => group.size = calculateLargestSize({api[p] : p \in Members}))

=============================================================================
