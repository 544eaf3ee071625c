---------------------------- MODULE PVCController ----------------------------
(***************************************************************************)
(* PersistentVolumeClaimReconciler: every manager (operator process) runs  *)
(* a loop that lists the claims from its informer cache, fetches the       *)
(* kubelet's volume metrics, and starts one goroutine per managed claim;   *)
(* a semaphore lets MaxParallel of them run at a time.  A goroutine works  *)
(* on the copy the list returned and writes it back with Update.           *)
(*                                                                         *)
(* More than one manager runs without --leader-elect (its default) or      *)
(* while a deposed leader finishes.  They share one clock.                 *)
(***************************************************************************)
EXTENDS AtomicExpander, FiniteSets

CONSTANTS
    Managers,     \* the operator processes
    DryRuns,      \* which sets of managers may be started with --dry-run
    MaxParallel,  \* --max-parallel, after the default of 4
    Usages,       \* the usage records the kubelets may report
    NoPVC,        \* no claim: not listed in this cycle
    NoJob         \* no expansion under way

ASSUME ControllerAssumption ==
    /\ DryRuns \subseteq SUBSET Managers
    /\ MaxParallel \in Nat \ {0}
    /\ NoPVC \notin Object

VARIABLES
    cache,    \* manager -> claim -> the informer's copy
    phase,    \* manager -> where its loop is
    snap,     \* manager -> claim -> the copy this cycle works on
    usage,    \* manager -> claim -> this cycle's volume metrics, or Absent
    pc,       \* manager -> claim -> where the claim's goroutine is
    job,      \* manager -> claim -> the expansion it decided on
    dryRun    \* the managers started with --dry-run

controllerVars == <<cache, phase, snap, usage, pc, job, dryRun>>
vars == <<api, now, cache, phase, snap, usage, pc, job, dryRun>>

\* queued: waiting for the semaphore; the last three are how reconcilePVC returned,
\* and expanded is the return that counts a success and emits the event Expanded.
Running == {"reconciling", "stamping", "updating"}
Returned == {"skipped", "failed", "expanded"}
Places == {"none", "queued"} \cup Running \cup Returned

Nothing(v) == [p \in PVC |-> v]

Init ==
    /\ ClusterInit
    /\ cache = [m \in Managers |-> api]
    /\ phase = [m \in Managers |-> "idle"]
    /\ snap = [m \in Managers |-> Nothing(NoPVC)]
    /\ usage = [m \in Managers |-> Nothing(Absent)]
    /\ pc = [m \in Managers |-> Nothing("none")]
    /\ job = [m \in Managers |-> Nothing(NoJob)]
    /\ dryRun \in DryRuns

-----------------------------------------------------------------------------
(***************************************************************************)
(* reconcileAll                                                            *)
(***************************************************************************)

\* Fault: the list hands out the informer's objects, so that a delivery changes the
\* copy a goroutine works on.
SyncCacheAliased(m, p) ==
    /\ cache[m][p] # api[p]
    /\ cache' = [cache EXCEPT ![m][p] = api[p]]
    /\ snap' = [snap EXCEPT ![m][p] = IF @ = NoPVC THEN @ ELSE api[p]]
    /\ UNCHANGED <<api, now, phase, usage, pc, job, dryRun>>

\* The informer delivers the claim's latest version.
SyncCache(m, p) ==
    /\ cache[m][p] # api[p]
    /\ cache' = [cache EXCEPT ![m][p] = api[p]]
    /\ UNCHANGED <<api, now, phase, snap, usage, pc, job, dryRun>>

\* A cycle lists the claims and keeps those whose configuration resolves.  A failed
\* list leaves the loop idle until the next tick.
ListPVCs(m) ==
    /\ phase[m] = "idle"
    /\ \E managed \in SUBSET PVC :
          /\ \A p \in managed : Resolved(p, cache[m][p]) # {NotManaged}
          /\ \A p \in PVC \ managed : NotManaged \in Resolved(p, cache[m][p])
          /\ snap' = [snap EXCEPT ![m] =
                         [p \in PVC |-> IF p \in managed THEN cache[m][p] ELSE NoPVC]]
    /\ phase' = [phase EXCEPT ![m] = "listed"]
    /\ UNCHANGED <<api, now, cache, usage, pc, job, dryRun>>

\* One node that cannot be reached or parsed ends the whole cycle.
FetchFails(m) ==
    /\ phase[m] = "listed"
    /\ phase' = [phase EXCEPT ![m] = "idle"]
    /\ snap' = [snap EXCEPT ![m] = Nothing(NoPVC)]
    /\ UNCHANGED <<api, now, cache, usage, pc, job, dryRun>>

\* All nodes answered; one goroutine per managed claim starts.
FetchMetrics(m) ==
    /\ phase[m] = "listed"
    /\ phase' = [phase EXCEPT ![m] = "running"]
    /\ \E u \in [PVC -> Usages \cup {Absent}] :
          usage' = [usage EXCEPT ![m] =
                       [p \in PVC |-> IF snap[m][p] = NoPVC THEN Absent ELSE u[p]]]
    /\ pc' = [pc EXCEPT ![m] =
                 [p \in PVC |-> IF snap[m][p] = NoPVC THEN "none" ELSE "queued"]]
    /\ UNCHANGED <<api, now, cache, snap, job, dryRun>>

\* wg.Wait returns: every goroutine has.
EndCycle(m) ==
    /\ phase[m] = "running"
    /\ \A p \in PVC : pc[m][p] \in {"none"} \cup Returned
    /\ phase' = [phase EXCEPT ![m] = "idle"]
    /\ pc' = [pc EXCEPT ![m] = Nothing("none")]
    /\ UNCHANGED <<api, now, cache, snap, usage, job, dryRun>>

\* The process dies, at any step, and its successor starts from a fresh cache: everything in
\* memory is gone, whatever was written stays.
Restart(m) ==
    /\ cache' = [cache EXCEPT ![m] = api]
    /\ phase' = [phase EXCEPT ![m] = "idle"]
    /\ snap' = [snap EXCEPT ![m] = Nothing(NoPVC)]
    /\ usage' = [usage EXCEPT ![m] = Nothing(Absent)]
    /\ pc' = [pc EXCEPT ![m] = Nothing("none")]
    /\ job' = [job EXCEPT ![m] = Nothing(NoJob)]
    /\ UNCHANGED <<api, now, dryRun>>

-----------------------------------------------------------------------------
(***************************************************************************)
(* reconcilePVC, one goroutine per claim                                   *)
(***************************************************************************)

\* Fault: a return with an error keeps its slot.
HoldersLeaked(m) == {p \in PVC : pc[m][p] \in Running \cup {"failed"}}

\* The goroutines that hold a slot of the semaphore.
Holders(m) == {p \in PVC : pc[m][p] \in Running}

Acquire(m, p) ==
    /\ pc[m][p] = "queued"
    /\ Cardinality(Holders(m)) < MaxParallel
    /\ pc' = [pc EXCEPT ![m][p] = "reconciling"]
    /\ UNCHANGED <<api, now, cache, phase, snap, usage, job, dryRun>>

\* No percentage is at least NaN.
AtLeast(percent, threshold) == threshold # NaN /\ percent >= threshold

ThresholdReached(c, u) ==
    \/ AtLeast(u.storage, c.set.threshold)
    \/ u.inodes # Absent /\ AtLeast(u.inodes, c.set.inodesThreshold)

\* Fault: the conditions of the claim are not looked at.
NeverResizing(o) == FALSE

IsPvcResizing(o) == o.resizing

IsPVCEligible(p, o) == Filesystem[p] /\ o.bound

\* The checks of reconcilePVC before ExpandPVC, on the copy of the cycle; c.enabled is
\* not one of them.
ReachesExpandPVC(m, p, c) ==
    /\ c # NotManaged
    /\ IsPVCEligible(p, snap[m][p])
    /\ Expandable[p]
    /\ ~IsPvcResizing(snap[m][p])
    /\ ~IsInCooldown(c, now)
    /\ usage[m][p] # Absent
    /\ ThresholdReached(c, usage[m][p])

\* reconcilePVC returns: the goroutine gives up its slot and its data.
Return(m, p, how) ==
    /\ pc' = [pc EXCEPT ![m][p] = how]
    /\ snap' = [snap EXCEPT ![m][p] = NoPVC]
    /\ usage' = [usage EXCEPT ![m][p] = Absent]
    /\ job' = [job EXCEPT ![m][p] = NoJob]

\* Some check of reconcilePVC fails.
Skip(m, p) ==
    /\ pc[m][p] = "reconciling"
    /\ \E c \in Resolved(p, snap[m][p]) : ~ReachesExpandPVC(m, p, c)
    /\ Return(m, p, "skipped")
    /\ UNCHANGED <<api, now, cache, phase, dryRun>>

\* The storage class of an eligible claim cannot be read: as if not expandable.
StorageClassUnavailable(m, p) ==
    /\ pc[m][p] = "reconciling"
    /\ Resolved(p, snap[m][p]) # {NotManaged}
    /\ IsPVCEligible(p, snap[m][p])
    /\ Return(m, p, "skipped")
    /\ UNCHANGED <<api, now, cache, phase, dryRun>>

\* Fault: the new size is computed from the request instead of the capacity.
NewSizeFromRequest(c, o) == CalculateNewSize(c, o.req)

\* The size ExpandPVC compares with the limit and requests.
NewSize(c, o) == CalculateNewSize(c, o.cap)

WithinLimit(c, o) == NewSize(c, o) # Invalid /\ ~ExceedsMaxSize(c, NewSize(c, o))

\* ExpandPVC returns an error: the increase does not parse, or the limit is reached.
Refuse(m, p) ==
    /\ pc[m][p] = "reconciling"
    /\ \E c \in Resolved(p, snap[m][p]) :
          ReachesExpandPVC(m, p, c) /\ ~WithinLimit(c, snap[m][p])
    /\ Return(m, p, "failed")
    /\ UNCHANGED <<api, now, cache, phase, dryRun>>

\* Fault: the flag does not reach the reconciler.
FlagIgnored(m) == FALSE

IsDryRun(m) == m \in dryRun

\* In a dry run ExpandPVC returns nil here, and reconcilePVC goes on as after a write.
PretendExpansion(m, p) ==
    /\ IsDryRun(m)
    /\ pc[m][p] = "reconciling"
    /\ \E c \in Resolved(p, snap[m][p]) :
          ReachesExpandPVC(m, p, c) /\ WithinLimit(c, snap[m][p])
    /\ Return(m, p, "expanded")
    /\ UNCHANGED <<api, now, cache, phase, dryRun>>

\* Fault: the new size is set on the claim that was listed, and its copy is written.
ExpansionOfOriginal(c, o) == [config |-> c, newSize |-> o.req, stamp |-> 0]

\* What the copy that is written will carry.
Expansion(c, o) == [config |-> c, newSize |-> NewSize(c, o), stamp |-> 0]

PlanExpansion(m, p) ==
    /\ ~IsDryRun(m)
    /\ pc[m][p] = "reconciling"
    /\ \E c \in Resolved(p, snap[m][p]) :
          /\ ReachesExpandPVC(m, p, c)
          /\ WithinLimit(c, snap[m][p])
          /\ job' = [job EXCEPT ![m][p] = Expansion(c, snap[m][p])]
    /\ pc' = [pc EXCEPT ![m][p] = "stamping"]
    /\ UNCHANGED <<api, now, cache, phase, snap, usage, dryRun>>

\* UpdateLastExpansion reads the clock again.
UpdateLastExpansion(m, p) ==
    /\ pc[m][p] = "stamping"
    /\ job' = [job EXCEPT ![m][p].stamp = RFC3339(now)]
    /\ pc' = [pc EXCEPT ![m][p] = "updating"]
    /\ UNCHANGED <<api, now, cache, phase, snap, usage, dryRun>>

\* Fault: an Update without resourceVersion.
CommitBlindly(m, p) ==
    /\ pc[m][p] = "updating"
    /\ job[m][p].newSize >= api[p].req
    /\ \E w \in Written(snap[m][p], job[m][p].newSize, job[m][p].stamp) : api' = [api EXCEPT ![p] = w]

\* The API server takes the write.
Commit(m, p) ==
    /\ pc[m][p] = "updating"
    /\ Accepts(p, snap[m][p], job[m][p].newSize)
    /\ \E w \in Written(snap[m][p], job[m][p].newSize, job[m][p].stamp) : api' = [api EXCEPT ![p] = w]

UpdateSucceeds(m, p) ==
    /\ Commit(m, p)
    /\ Return(m, p, "expanded")
    /\ UNCHANGED <<now, cache, phase, dryRun>>

\* The write is taken but the answer is lost: reported as a failure.
UpdateAnswerLost(m, p) ==
    /\ Commit(m, p)
    /\ Return(m, p, "failed")
    /\ UNCHANGED <<now, cache, phase, dryRun>>

\* A conflict, an invalid request, or a server out of reach.
UpdateFails(m, p) ==
    /\ pc[m][p] = "updating"
    /\ Return(m, p, "failed")
    /\ UNCHANGED <<api, now, cache, phase, dryRun>>

-----------------------------------------------------------------------------
Decide(m, p) ==
    \/ Skip(m, p)
    \/ StorageClassUnavailable(m, p)
    \/ Refuse(m, p)
    \/ PretendExpansion(m, p)
    \/ PlanExpansion(m, p)

UpdatePVC(m, p) ==
    \/ UpdateSucceeds(m, p)
    \/ UpdateAnswerLost(m, p)
    \/ UpdateFails(m, p)

Goroutine(m, p) ==
    \/ Acquire(m, p)
    \/ Decide(m, p)
    \/ UpdateLastExpansion(m, p)
    \/ UpdatePVC(m, p)

Loop(m) ==
    \/ ListPVCs(m)
    \/ FetchFails(m)
    \/ FetchMetrics(m)
    \/ EndCycle(m)

Next ==
    \/ Environment /\ UNCHANGED controllerVars
    \/ \E m \in Managers : \/ Loop(m)
                           \/ Restart(m)
                           \/ \E p \in PVC : SyncCache(m, p) \/ Goroutine(m, p)

Spec == Init /\ [][Next]_vars

(***************************************************************************)
(* The loop and its goroutines are scheduled, informers deliver, time      *)
(* passes and resizes finish (WF).  Requests to the kubelets and the API   *)
(* server may fail any number of times, but not forever, and the process   *)
(* may die any number of times, but not at the same step forever (SF).     *)
(* No user, failure or restart is ever required to happen.                 *)
(***************************************************************************)
Fairness ==
    /\ WF_vars(Tick /\ UNCHANGED controllerVars)
    /\ \A p \in PVC : WF_vars(ResizeFinishes(p) /\ UNCHANGED controllerVars)
    /\ \A m \in Managers :
          /\ WF_vars(ListPVCs(m))
          /\ SF_vars(FetchMetrics(m))
          /\ WF_vars(EndCycle(m))
          /\ \A p \in PVC :
                /\ WF_vars(SyncCache(m, p))
                /\ SF_vars(Acquire(m, p))
                /\ WF_vars(Decide(m, p)) /\ SF_vars(PlanExpansion(m, p))
                /\ SF_vars(UpdateLastExpansion(m, p))
                /\ WF_vars(UpdatePVC(m, p)) /\ SF_vars(UpdateSucceeds(m, p))

FairSpec == Spec /\ Fairness

-----------------------------------------------------------------------------
(***************************************************************************)
(* Properties                                                              *)
(***************************************************************************)

\* The type invariant.
TypeOK ==
    /\ ClusterTypeOK
    /\ cache \in [Managers -> [PVC -> Object]]
    /\ phase \in [Managers -> {"idle", "listed", "running"}]
    /\ snap \in [Managers -> [PVC -> Object \cup {NoPVC}]]
    /\ usage \in [Managers -> [PVC -> Usages \cup {Absent}]]
    /\ pc \in [Managers -> [PVC -> Places]]
    /\ dryRun \subseteq Managers

\* A goroutine between its decision and its Update holds the copy it decided on and a
\* job computed from that copy.  If the server still stores that very version, the
\* decision is one the stored object allows now, however long the goroutine waited
\* and whatever the other manager, the users and the storage layer did meanwhile:
\* the resourceVersion sent by Update guards everything reconcilePVC and ExpandPVC
\* checked before it.
DecisionHolds ==
    \A m \in Managers, p \in PVC :
        pc[m][p] \in {"stamping", "updating"} /\ snap[m][p].rv = api[p].rv =>
            /\ job[m][p].config \in Resolved(p, api[p])
            /\ Allows(p, api[p], job[m][p].config, now)
            /\ job[m][p].newSize = CalculateNewSize(job[m][p].config, api[p].cap)

\* The settings a claim may be expanded with.
Configurations ==
    (UNION {Resolved(p, [ann |-> a, last |-> Absent]) : p \in PVC, a \in Annotations})
        \ {NotManaged}

\* A pending request that no user made is one step from the capacity, however many
\* cycles and managers wrote it: ExpandPVC computes from status.capacity, so
\* expansions requested before the storage layer catches up do not add up.
RequestIsOneStep ==
    \A p \in PVC :
        \/ api[p].req \in UserSizes \cup {api[p].cap}
        \/ \E c \in Configurations : api[p].req = CalculateNewSize(c, api[p].cap)

\* Each write of the operator is as if it had read the claim, decided and written in
\* one step: the periodic loop implements the atomic expander.
ExpandsAtomically == AtomicSpec

\* Two expansions of a claim managed by its annotations are stamped at least the
\* cooldown in force apart, less the fraction of a second RFC 3339 drops, across
\* managers and restarts: last-expansion is on the claim and Update is conditional.
CooldownRespected ==
    [][\A p \in PVC :
          /\ api'[p].last # api[p].last
          /\ api[p].last # Absent
          /\ ParsePVCAnnotations(api[p].ann, api[p].last, Global) # NotManaged
          => api'[p].last - api[p].last
                > ParsePVCAnnotations(api[p].ann, api[p].last, Global).set.cooldown
                    - TicksPerSecond]_vars

\* What users wrote on a claim stays until they change it: an Update carries the
\* annotations of an older copy, and admission fills in only what is missing.
SettingsSurvive ==
    [][\A p \in PVC : ~Annotate(p) =>
          /\ api'[p].ann.enabled = api[p].ann.enabled /\ api'[p].ann.group = api[p].ann.group
          /\ \A f \in Field : api[p].ann.set[f] # Absent => api'[p].ann.set[f] = api[p].ann.set[f]
      ]_vars

\* No step of the goroutines of a loop started with --dry-run reaches a claim, not even
\* beside a manager that writes the same claims.  (Of the loop only: the group
\* controller of the process is not told of the flag; see Operator.)
DryLoopWritesNothing ==
    [][\A m \in dryRun : pc'[m] # pc[m] => UNCHANGED api]_vars

\* The semaphore and the wait group never hold a cycle up: every cycle that started its
\* goroutines ends, even if writes conflict or fail.
CycleCompletes ==
    \A m \in Managers : (phase[m] = "running") ~> (phase[m] = "idle")

\* A claim is looked at with a usage over its threshold.
Pressed(p) ==
    \E m \in Managers \ dryRun :
        /\ pc[m][p] = "reconciling"
        /\ usage[m][p] # Absent
        /\ \A c \in Resolved(p, api[p]) : c # NotManaged /\ ThresholdReached(c, usage[m][p])

\* Its cooldown is over, and its next step is within its limit.
MayGrow(p) ==
    \A c \in Resolved(p, api[p]) :
        c # NotManaged /\ ~IsInCooldown(c, now) /\ WithinLimit(c, api[p])

\* A claim that is looked at over its threshold again and again is asked to grow each
\* time its cooldown ends, until the next step would pass its max-size: conflicts,
\* failed cycles, restarts, a stale cache and a resize under way only delay it, and a
\* cooldown begins with no stamp that brought nothing.
GrowsUnderPressure ==
    \A p \in PVC : ([]<>Pressed(p)) => (MayGrow(p) ~> api[p].req > api[p].cap)

-----------------------------------------------------------------------------
(***************************************************************************)
(* What the documentation says and the code does not do: refuted by a run  *)
(* of its own.                                                             *)
(***************************************************************************)

\* "Cooldown is the minimum time between expansions" for claims managed by a policy
\* too.  (buildConfigFromPolicy never reads last-expansion.)
PolicyCooldownRespected ==
    [][\A p \in PVC :
          api'[p].last # api[p].last /\ api[p].last # Absent =>
              \E c \in Resolved(p, api[p]) :
                  /\ c # NotManaged
                  /\ api'[p].last - api[p].last > c.set.cooldown - TicksPerSecond]_vars

=============================================================================
