------------------------------- MODULE Operator -------------------------------
(***************************************************************************)
(* A whole manager: the periodic loop of PVCController and the reconciler  *)
(* of GroupController in one process, over the same informer cache and the *)
(* same claims, which users edit and the storage layer resizes.            *)
(***************************************************************************)
EXTENDS PVCController

CONSTANTS GroupName, GroupVersions

ASSUME OperatorAssumption ==
    /\ IsFiniteSet(PVC)
    /\ GroupVersions \in Nat

VARIABLES group, groupCache, queued, delayed, place, copy, members

G == INSTANCE GroupController WITH claimCache <- cache

loopVars == <<phase, snap, usage, pc, job, dryRun>>
groupVars == <<group, groupCache, queued, delayed, place, copy, members>>

OperatorInit == Init /\ G!Init

\* The process dies with both controllers; what is in the API server stays.
RestartBoth(m) ==
    /\ Restart(m)
    /\ G!Restart(m)

PeriodicLoop(m) ==
    /\ Loop(m) \/ \E p \in PVC : Goroutine(m, p)
    /\ UNCHANGED groupVars

\* One delivery of a claim serves both controllers.
GroupReconciler(m) ==
    /\ \/ G!SyncGroup(m)
       \/ \E p \in PVC : G!SyncClaim(m, p)
       \/ G!Requeue(m)
       \/ G!Reconcile(m)
    /\ UNCHANGED loopVars

Everybody ==
    \/ Environment /\ UNCHANGED <<controllerVars, groupVars>>
    \/ (G!DeleteGroup \/ G!CreateGroup) /\ UNCHANGED loopVars

OperatorNext ==
    \/ Everybody
    \/ \E m \in Managers : PeriodicLoop(m) \/ GroupReconciler(m) \/ RestartBoth(m)

OperatorSpec == OperatorInit /\ [][OperatorNext]_<<vars, groupVars>>

-----------------------------------------------------------------------------
(***************************************************************************)
(* Properties                                                              *)
(***************************************************************************)

\* The sizes members ask for, as stored, as cached, and as a reconciliation under way
\* has added them up.
AskedSomewhere ==
    {o.req : o \in {x \in {api[p] : p \in PVC} \cup {cache[m][p] : m \in Managers, p \in PVC} :
                       G!IsActive(x)}}
    \cup {copy[m].size : m \in {n \in Managers : G!Behind(n) # {}}}

Promise == INSTANCE AtomicOperator WITH asked <- AskedSomewhere

\* Both controllers together, racing for the same claims, do nothing but atomic
\* expansions of claims as stored and raises of members as stored to a size a member
\* asked for.
WorksAtomically == Promise!OperatorSpec

\* Some configuration resolves for the claim as stored (with enabled=false one does, too),
\* or the group has it as an active member.
OptedIn(p) == Resolved(p, api[p]) # {NotManaged} \/ G!IsActive(api[p])

\* Claims opt in, and may opt out at any time: no step of the operator writes a claim
\* that has, as stored, no part in either controller, though a cycle or a
\* reconciliation under way listed it when it had.
WritesOnlyOptedIn ==
    [][\A p \in PVC : api'[p] # api[p] /\ ~Environment => OptedIn(p)]_<<vars, groupVars>>

-----------------------------------------------------------------------------
\* What the program says and does not do, refuted by a run of its own.  "Starting in
\* DRY RUN mode - no PVC modifications will be made": with every manager in dry run only
\* users and the storage layer change a claim.  (The group controller of the process is
\* built without the flag.)
DryRunModifiesNothing ==
    [][dryRun = Managers /\ api' # api => Environment]_<<vars, groupVars>>

=============================================================================
