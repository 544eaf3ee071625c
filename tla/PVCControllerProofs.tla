------------------------- MODULE PVCControllerProofs -------------------------
(***************************************************************************)
(* The periodic loop implements the atomic expander, for any number of     *)
(* managers, claims, configurations and restarts.  The argument: a copy    *)
(* with the server's version is the server's object (versions only grow);  *)
(* a goroutine's job stays justified by its copy; so an Update that the    *)
(* server accepts acts on the object the job was computed from.            *)
(***************************************************************************)
EXTENDS PVCController, ClusterProofs

CopiesAreVersions ==
    \A m \in Managers, p \in PVC :
        /\ IsVersionOf(cache[m][p], api[p])
        /\ snap[m][p] # NoPVC => IsVersionOf(snap[m][p], api[p])

\* Goroutines run only within their cycle, and one that has not returned works on a copy.
CopiesHeld ==
    \A m \in Managers, p \in PVC :
        /\ phase[m] # "running" => pc[m][p] = "none"
        /\ pc[m][p] \in {"queued"} \cup Running => snap[m][p] # NoPVC

\* A job has its three parts.
IsJob(j) == j = [config |-> j.config, newSize |-> j.newSize, stamp |-> j.stamp]

\* The job of one goroutine follows from its copy, now as when it was decided...
JobJustified(m, p) ==
    pc[m][p] \in {"stamping", "updating"} =>
        /\ IsJob(job[m][p])
        /\ job[m][p].config \in Resolved(p, snap[m][p])
        /\ Allows(p, snap[m][p], job[m][p].config, now)
        /\ job[m][p].newSize = CalculateNewSize(job[m][p].config, snap[m][p].cap)
        /\ pc[m][p] = "updating" => StampFits(job[m][p].config, job[m][p].stamp, now)

\* ...and so do all.
JobsJustified ==
    /\ job = [m \in Managers |-> [p \in PVC |-> job[m][p]]]
    /\ \A m \in Managers, p \in PVC : JobJustified(m, p)

\* A goroutine of a manager started with --dry-run never gets past its decision.
DryRunsStopShort ==
    \A m \in dryRun, p \in PVC : pc[m][p] \notin {"stamping", "updating"}

\* A step of the loop or of a goroutine, and a step of anybody else: users, clock and
\* storage layer here, another controller of the same process in a larger system.
LoopStep ==
    \E m \in Managers : \/ Loop(m)
                       \/ Restart(m)
                       \/ \E p \in PVC : SyncCache(m, p) \/ Goroutine(m, p)

OtherStep == VersionsGrow /\ UNCHANGED controllerVars

Step == LoopStep \/ OtherStep

\* The inductive invariant.
IInv == TypeOK /\ CopiesAreVersions /\ CopiesHeld /\ JobsJustified /\ DryRunsStopShort

-----------------------------------------------------------------------------
(***************************************************************************)
(* Lemmas about time                                                       *)
(***************************************************************************)

\* A decision or a stamp that was right stays right as time passes.
LEMMA AllowsLater ==
    ASSUME NEW p \in PVC, NEW o, o.ann \in Annotations, o.last \in Nat \cup {Absent},
           NEW c \in Resolved(p, o), NEW t \in Nat, NEW u \in Nat, t <= u, Allows(p, o, c, t)
    PROVE  Allows(p, o, c, u)
<1>1. Complete(c.set) /\ c.last \in Nat \cup {Absent}
    BY ResolvedConfig DEF Allows
<1>2. c.set.cooldown \in Int
    BY <1>1 DEF Complete, Numbers
<1> QED BY <1>1, <1>2 DEF Allows, IsInCooldown

LEMMA StampFitsLater ==
    ASSUME NEW c, NEW stamp, NEW t \in Nat, NEW u \in Nat, t <= u, StampFits(c, stamp, t)
    PROVE  StampFits(c, stamp, u)
BY DEF StampFits

\* A time that passed the cooldown may be stamped.
LEMMA StampFitsNow ==
    ASSUME NEW p \in PVC, NEW o, o.ann \in Annotations, o.last \in Nat \cup {Absent},
           NEW c \in Resolved(p, o), NEW t \in Nat, Allows(p, o, c, t)
    PROVE  StampFits(c, RFC3339(t), t)
<1>1. Complete(c.set) /\ c.last \in Nat \cup {Absent}
    BY ResolvedConfig DEF Allows
<1>2. c.set.cooldown \in Int
    BY <1>1 DEF Complete, Numbers
<1>3. TicksPerSecond \in Nat
    BY ConfigAssumption DEF ConfigAssumption
<1>4. RFC3339(t) \in Nat /\ t - TicksPerSecond < RFC3339(t) /\ RFC3339(t) <= t
    BY RFC3339Second
<1>5. c.last # Absent => t - c.last >= c.set.cooldown
    BY <1>1, <1>2 DEF Allows, IsInCooldown
<1> QED BY <1>1, <1>2, <1>3, <1>4, <1>5 DEF StampFits

-----------------------------------------------------------------------------
(***************************************************************************)
(* Every step of the specification                                         *)
(***************************************************************************)

\* A job about to be written was computed from the stored object if the server
\* accepts its version.
LEMMA JobOnStoredObject ==
    ASSUME IInv, NEW m \in Managers, NEW p \in PVC, pc[m][p] \in {"stamping", "updating"},
           snap[m][p].rv = api[p].rv
    PROVE  /\ snap[m][p] = api[p]
           /\ job[m][p].config \in Resolved(p, api[p])
           /\ Allows(p, api[p], job[m][p].config, now)
           /\ job[m][p].newSize = CalculateNewSize(job[m][p].config, api[p].cap)
           /\ job[m][p].newSize \in Int
           /\ pc[m][p] = "updating" => StampFits(job[m][p].config, job[m][p].stamp, now)
<1>1. snap[m][p] # NoPVC
    BY DEF IInv, CopiesHeld, Running
<1>2. snap[m][p] = api[p]
    BY <1>1 DEF IInv, CopiesAreVersions, IsVersionOf
<1>3. /\ job[m][p].config \in Resolved(p, api[p])
      /\ Allows(p, api[p], job[m][p].config, now)
      /\ job[m][p].newSize = CalculateNewSize(job[m][p].config, api[p].cap)
      /\ pc[m][p] = "updating" => StampFits(job[m][p].config, job[m][p].stamp, now)
    <2>1. JobJustified(m, p)
        BY DEF IInv, JobsJustified
    <2> QED BY <1>2, <2>1 DEF JobJustified
<1>4. api[p] \in Object
    BY DEF IInv, TypeOK, ClusterTypeOK
<1>5. Complete(job[m][p].config.set)
    BY <1>3, <1>4, ResolvedConfig DEF Object, Allows
<1>6. job[m][p].newSize \in Int
    BY <1>3, <1>4, <1>5, NewSizeIsInt DEF Object, Allows
<1> QED BY <1>2, <1>3, <1>6

\* An Update the server accepts is a step of the atomic expander...
LEMMA CommitIsAtomic ==
    ASSUME IInv, NEW m \in Managers, NEW p \in PVC, Commit(m, p), now' = now
    PROVE  ExpandNow(p)
<1>1. /\ snap[m][p] = api[p]
      /\ job[m][p].config \in Resolved(p, api[p])
      /\ Allows(p, api[p], job[m][p].config, now)
      /\ job[m][p].newSize = CalculateNewSize(job[m][p].config, api[p].cap)
      /\ StampFits(job[m][p].config, job[m][p].stamp, now)
    BY JobOnStoredObject DEF Commit, Accepts
<1>2. job[m][p].stamp \in 0..now
    BY <1>1 DEF StampFits, IInv, TypeOK, ClusterTypeOK
<1> QED BY <1>1, <1>2 DEF Commit, ExpandNow

\* ...and gives the claim a new version if it changes it.
LEMMA CommitGrows ==
    ASSUME IInv, NEW m \in Managers, NEW p \in PVC, Commit(m, p), now' = now
    PROVE  VersionsGrow
<1>1. /\ snap[m][p] = api[p]
      /\ job[m][p].newSize \in Int
      /\ job[m][p].stamp \in Nat
    BY JobOnStoredObject DEF Commit, Accepts, StampFits
<1>2. api \in [PVC -> Object] /\ now \in Nat
    BY DEF IInv, TypeOK, ClusterTypeOK
<1>5. job[m][p].newSize \in Nat
    BY <1>1, <1>2 DEF Commit, Accepts, Object
<1>3. PICK w \in Written(api[p], job[m][p].newSize, job[m][p].stamp) : api' = [api EXCEPT ![p] = w]
    BY <1>1 DEF Commit
<1>4. w \in Object /\ (w = api[p] \/ w.rv > api[p].rv)
    BY <1>1, <1>2, <1>5, WrittenGrows
<1> QED BY <1>2, <1>3, <1>4 DEF VersionsGrow

\* An Update the server accepts is all that reaches the server.
LEMMA LoopExpands ==
    ASSUME IInv, LoopStep
    PROVE  VersionsGrow /\ (UNCHANGED clusterVars \/ \E p \in PVC : ExpandNow(p))
<1> USE DEF IInv, TypeOK, ClusterTypeOK
<1>1. ASSUME UNCHANGED clusterVars PROVE VersionsGrow
    BY <1>1 DEF VersionsGrow, clusterVars
<1>2. ASSUME NEW m \in Managers, Loop(m) \/ Restart(m) PROVE UNCHANGED clusterVars
    BY <1>2 DEF Loop, Restart, ListPVCs, FetchFails, FetchMetrics, EndCycle, clusterVars
<1>3. ASSUME NEW m \in Managers, NEW p \in PVC, SyncCache(m, p) \/ Goroutine(m, p)
      PROVE  UNCHANGED clusterVars \/ (VersionsGrow /\ ExpandNow(p))
    <2>1. CASE UpdateSucceeds(m, p) \/ UpdateAnswerLost(m, p)
        BY <2>1, CommitGrows, CommitIsAtomic DEF UpdateSucceeds, UpdateAnswerLost
    <2>2. CASE ~(UpdateSucceeds(m, p) \/ UpdateAnswerLost(m, p))
        BY <1>3, <2>2
        DEF SyncCache, Goroutine, Acquire, Decide, Skip, StorageClassUnavailable, Refuse,
            PretendExpansion, PlanExpansion, UpdateLastExpansion, UpdatePVC, UpdateFails, clusterVars
    <2> QED BY <2>1, <2>2
<1> QED BY <1>1, <1>2, <1>3 DEF LoopStep

\* Every step of the specification is one of the two kinds.
LEMMA NextIsStep ==
    ASSUME IInv, [Next]_vars
    PROVE  Step
<1>1. ClusterTypeOK
    BY DEF IInv, TypeOK
<1>2. CASE Environment /\ UNCHANGED controllerVars
    BY <1>1, <1>2, EnvironmentGrows DEF Step, OtherStep
<1>3. CASE UNCHANGED vars
    BY <1>1, <1>3 DEF Step, OtherStep, VersionsGrow, ClusterTypeOK, vars, controllerVars
<1> QED BY <1>2, <1>3 DEF Next, Step, LoopStep

\* The versions of claims grow with every step.
LEMMA StepGrows ==
    ASSUME IInv, Step
    PROVE  VersionsGrow
BY LoopExpands DEF Step, OtherStep

-----------------------------------------------------------------------------
(***************************************************************************)
(* The inductive invariant                                                 *)
(***************************************************************************)

LEMMA InitIInv ==
    ASSUME Init
    PROVE  IInv
<1>1. ClusterTypeOK
    BY ClusterAssumption DEF Init, ClusterInit, ClusterTypeOK, ClusterAssumption
<1>2. TypeOK
    BY <1>1, ControllerAssumption
    DEF Init, ClusterTypeOK, TypeOK, Nothing, Places, ControllerAssumption
<1>3. CopiesAreVersions
    BY <1>1 DEF Init, ClusterTypeOK, CopiesAreVersions, IsVersionOf, Nothing, Object
<1>4. CopiesHeld /\ JobsJustified
    BY DEF Init, Nothing, CopiesHeld, JobsJustified, JobJustified, Running
<1>5. DryRunsStopShort
    BY <1>2 DEF Init, TypeOK, Nothing, DryRunsStopShort
<1> QED BY <1>2, <1>3, <1>4, <1>5 DEF IInv

\* Every step keeps the types.
LEMMA TypeStep ==
    ASSUME IInv, Step
    PROVE  TypeOK'
<1> USE DEF TypeOK
<1>1. TypeOK /\ VersionsGrow /\ ClusterTypeOK'
    BY StepGrows DEF IInv, VersionsGrow, ClusterTypeOK
<1>2. CASE UNCHANGED controllerVars
    BY <1>1, <1>2 DEF controllerVars
<1>3. ASSUME NEW m \in Managers, Loop(m) PROVE TypeOK'
    <2>1. CASE ListPVCs(m)
        BY <1>1, <2>1 DEF ListPVCs
    <2>2. CASE FetchFails(m)
        BY <1>1, <2>2 DEF FetchFails, Nothing
    <2>3. CASE FetchMetrics(m)
        BY <1>1, <2>3 DEF FetchMetrics, Places
    <2>4. CASE EndCycle(m)
        BY <1>1, <2>4 DEF EndCycle, Nothing, Places
    <2> QED BY <1>3, <2>1, <2>2, <2>3, <2>4 DEF Loop
<1>4. ASSUME NEW m \in Managers, Restart(m) PROVE TypeOK'
    BY <1>1, <1>4, ControllerAssumption DEF Restart, Nothing, Places, ControllerAssumption, clusterVars, ClusterTypeOK
<1>5. ASSUME NEW m \in Managers, NEW p \in PVC, SyncCache(m, p) PROVE TypeOK'
    BY <1>1, <1>5 DEF SyncCache, ClusterTypeOK
<1>6. ASSUME NEW m \in Managers, NEW p \in PVC, Goroutine(m, p) PROVE TypeOK'
    <2>1. CASE Acquire(m, p)
        BY <1>1, <2>1 DEF Acquire, Places, Running
    <2>2. CASE PlanExpansion(m, p)
        BY <1>1, <2>2 DEF PlanExpansion, Places, Running
    <2>3. CASE UpdateLastExpansion(m, p)
        BY <1>1, <2>3 DEF UpdateLastExpansion, Places, Running
    <2>4. ASSUME NEW how \in Returned, Return(m, p, how), UNCHANGED <<cache, phase, dryRun>>
          PROVE  TypeOK'
        BY <1>1, <2>4 DEF Return, Places
    <2>5. CASE Skip(m, p) \/ StorageClassUnavailable(m, p)
        BY <2>4, <2>5 DEF Skip, StorageClassUnavailable, Returned
    <2>6. CASE Refuse(m, p) \/ UpdateAnswerLost(m, p) \/ UpdateFails(m, p)
        BY <2>4, <2>6 DEF Refuse, UpdateAnswerLost, UpdateFails, Returned
    <2>7. CASE PretendExpansion(m, p) \/ UpdateSucceeds(m, p)
        BY <2>4, <2>7 DEF PretendExpansion, UpdateSucceeds, Returned
    <2> QED BY <1>6, <2>1, <2>2, <2>3, <2>5, <2>6, <2>7 DEF Goroutine, Decide, UpdatePVC
<1> QED BY <1>2, <1>3, <1>4, <1>5, <1>6 DEF Step, OtherStep, LoopStep

LEMMA CopiesStep ==
    ASSUME IInv, Step
    PROVE  CopiesAreVersions'
<1>1. TypeOK /\ api \in [PVC -> Object] /\ VersionsGrow
    BY StepGrows DEF IInv, TypeOK, ClusterTypeOK
<1> SUFFICES ASSUME NEW m \in Managers, NEW p \in PVC
             PROVE  /\ IsVersionOf(cache[m][p], api[p])'
                    /\ (snap[m][p] # NoPVC => IsVersionOf(snap[m][p], api[p]))'
    BY DEF CopiesAreVersions
<1>2. IsVersionOf(cache[m][p], api'[p])
    BY <1>1, StillVersion DEF IInv, CopiesAreVersions, TypeOK
<1>3. snap[m][p] # NoPVC => IsVersionOf(snap[m][p], api'[p])
    BY <1>1, StillVersion DEF IInv, CopiesAreVersions, TypeOK
<1>4. \/ cache'[m][p] = cache[m][p]
      \/ cache'[m][p] = api'[p]
    <2>1. \A n \in Managers : Loop(n) => cache' = cache
        BY DEF Loop, ListPVCs, FetchFails, FetchMetrics, EndCycle
    <2>2. \A n \in Managers, q \in PVC : Goroutine(n, q) => cache' = cache
        BY DEF Goroutine, Acquire, Decide, Skip, StorageClassUnavailable, Refuse, PretendExpansion,
               PlanExpansion, UpdateLastExpansion, UpdatePVC, UpdateSucceeds, UpdateAnswerLost, UpdateFails
    <2>3. \A n \in Managers : Restart(n) => cache'[m][p] \in {cache[m][p], api'[p]}
        BY <1>1 DEF TypeOK, Restart, clusterVars
    <2>4. \A n \in Managers, q \in PVC : SyncCache(n, q) => cache'[m][p] \in {cache[m][p], api'[p]}
        BY <1>1 DEF TypeOK, SyncCache
    <2> QED BY <2>1, <2>2, <2>3, <2>4 DEF Step, OtherStep, LoopStep, controllerVars
<1>5. snap'[m][p] \in {snap[m][p], cache[m][p], NoPVC}
    <2>1. \A n \in Managers : Loop(n) => snap'[m][p] \in {snap[m][p], cache[m][p], NoPVC}
        BY <1>1 DEF TypeOK, Loop, ListPVCs, FetchFails, FetchMetrics, EndCycle, Nothing
    <2>2. \A n \in Managers, q \in PVC : Goroutine(n, q) => snap'[m][p] \in {snap[m][p], NoPVC}
        BY <1>1
        DEF TypeOK, Goroutine, Acquire, Decide, Skip, StorageClassUnavailable, Refuse, PretendExpansion,
            PlanExpansion, UpdateLastExpansion, UpdatePVC, UpdateSucceeds, UpdateAnswerLost, UpdateFails, Return
    <2>3. \A n \in Managers : Restart(n) => snap'[m][p] \in {snap[m][p], NoPVC}
        BY <1>1 DEF TypeOK, Restart, Nothing
    <2>4. \A n \in Managers, q \in PVC : SyncCache(n, q) => snap' = snap
        BY DEF SyncCache
    <2> QED BY <2>1, <2>2, <2>3, <2>4 DEF Step, OtherStep, LoopStep, controllerVars
<1>6. IsVersionOf(api'[p], api'[p])
    BY <1>1 DEF VersionsGrow, IsVersionOf, Object
<1> QED BY <1>2, <1>3, <1>4, <1>5, <1>6

\* A goroutine starts on a copy and keeps it until it returns.
LEMMA HeldStep ==
    ASSUME IInv, Step
    PROVE  CopiesHeld'
<1>1. TypeOK /\ CopiesHeld
    BY DEF IInv
<1> USE <1>1 DEF TypeOK, CopiesHeld
<1>2. CASE UNCHANGED controllerVars
    BY <1>2 DEF controllerVars
<1>3. ASSUME NEW m \in Managers, Loop(m) PROVE CopiesHeld'
    <2>1. CASE ListPVCs(m)
        BY <2>1 DEF ListPVCs, Running
    <2>2. CASE FetchFails(m)
        BY <2>2 DEF FetchFails, Running
    <2>3. CASE FetchMetrics(m)
        BY <2>3 DEF FetchMetrics, Running
    <2>4. CASE EndCycle(m)
        BY <2>4 DEF EndCycle, Nothing, Running
    <2> QED BY <1>3, <2>1, <2>2, <2>3, <2>4 DEF Loop
<1>4. ASSUME NEW m \in Managers, Restart(m) PROVE CopiesHeld'
    BY <1>4 DEF Restart, Nothing, Running
<1>5. ASSUME NEW m \in Managers, NEW p \in PVC, SyncCache(m, p) PROVE CopiesHeld'
    BY <1>5 DEF SyncCache
<1>6. ASSUME NEW m \in Managers, NEW p \in PVC, Goroutine(m, p) PROVE CopiesHeld'
    <2>1. CASE Acquire(m, p)
        BY <2>1 DEF Acquire, Running
    <2>2. CASE PlanExpansion(m, p)
        BY <2>2 DEF PlanExpansion, Running
    <2>3. CASE UpdateLastExpansion(m, p)
        BY <2>3 DEF UpdateLastExpansion, Running
    <2>4. ASSUME NEW how \in Returned, Return(m, p, how), UNCHANGED phase, pc[m][p] # "none"
          PROVE  CopiesHeld'
        BY <2>4 DEF Return, Running, Returned
    <2>5. CASE Skip(m, p) \/ StorageClassUnavailable(m, p)
        BY <2>4, <2>5 DEF Skip, StorageClassUnavailable, Returned
    <2>6. CASE Refuse(m, p) \/ UpdateAnswerLost(m, p) \/ UpdateFails(m, p)
        BY <2>4, <2>6 DEF Refuse, UpdateAnswerLost, UpdateFails, Commit, Returned
    <2>7. CASE PretendExpansion(m, p) \/ UpdateSucceeds(m, p)
        BY <2>4, <2>7 DEF PretendExpansion, UpdateSucceeds, Commit, Returned
    <2> QED BY <1>6, <2>1, <2>2, <2>3, <2>5, <2>6, <2>7 DEF Goroutine, Decide, UpdatePVC
<1> QED BY <1>2, <1>3, <1>4, <1>5, <1>6 DEF Step, OtherStep, LoopStep

\* A goroutine that did nothing keeps a justified job, though time may have passed.
LEMMA JobKept ==
    ASSUME IInv, VersionsGrow, NEW m \in Managers, NEW p \in PVC,
           pc'[m][p] = pc[m][p], snap'[m][p] = snap[m][p], job'[m][p] = job[m][p]
    PROVE  JobJustified(m, p)'
<1> SUFFICES ASSUME pc[m][p] \in {"stamping", "updating"}
             PROVE  JobJustified(m, p)'
    BY DEF JobJustified
<1>1. /\ snap[m][p] \in Object
      /\ now \in Nat /\ now' \in Nat /\ now <= now'
    BY DEF IInv, TypeOK, ClusterTypeOK, CopiesHeld, Running, VersionsGrow
<1>2. JobJustified(m, p)
    BY DEF IInv, JobsJustified
<1>3. Allows(p, snap[m][p], job[m][p].config, now')
    BY <1>1, <1>2, AllowsLater DEF JobJustified, Object
<1>4. pc[m][p] = "updating" => StampFits(job[m][p].config, job[m][p].stamp, now')
    BY <1>1, <1>2, StampFitsLater DEF JobJustified
<1>5. job'[m][p] = job[m][p] /\ snap'[m][p] = snap[m][p] /\ pc'[m][p] = pc[m][p]
    OBVIOUS
<1> QED BY <1>2, <1>3, <1>4, <1>5 DEF JobJustified, Resolved, Allows

\* Deciding and stamping justify the job.
LEMMA JobMade ==
    ASSUME IInv, NEW m \in Managers, NEW p \in PVC, PlanExpansion(m, p) \/ UpdateLastExpansion(m, p)
    PROVE  JobJustified(m, p)'
<1>1. /\ TypeOK
      /\ snap[m][p] \in Object
      /\ now \in Nat
      /\ job = [n \in Managers |-> [q \in PVC |-> job[n][q]]]
    BY DEF IInv, TypeOK, ClusterTypeOK, CopiesHeld, Running, JobsJustified, PlanExpansion, UpdateLastExpansion
<1>2. CASE PlanExpansion(m, p)
    <2>1. PICK c \in Resolved(p, snap[m][p]) :
            /\ ReachesExpandPVC(m, p, c)
            /\ WithinLimit(c, snap[m][p])
            /\ job' = [job EXCEPT ![m][p] = [config  |-> c,
                                             newSize |-> CalculateNewSize(c, snap[m][p].cap),
                                             stamp   |-> 0]]
        BY <1>2 DEF PlanExpansion, Expansion, NewSize
    <2>2. Allows(p, snap[m][p], c, now)
        BY <2>1 DEF ReachesExpandPVC, IsPVCEligible, IsPvcResizing, WithinLimit, NewSize, Allows
    <2>3. /\ pc'[m][p] = "stamping"
          /\ snap' = snap /\ now' = now
          /\ job'[m][p] = [config  |-> c, newSize |-> CalculateNewSize(c, snap[m][p].cap), stamp |-> 0]
        BY <1>1, <1>2, <2>1 DEF PlanExpansion, TypeOK
    <2>4. /\ IsJob(job'[m][p])
          /\ job'[m][p].config = c
          /\ job'[m][p].newSize = CalculateNewSize(c, snap[m][p].cap)
        BY <2>3 DEF IsJob
    <2> QED BY <2>2, <2>3, <2>4 DEF JobJustified, Resolved, Allows
<1>3. CASE UpdateLastExpansion(m, p)
    <2>1. JobJustified(m, p) /\ pc[m][p] = "stamping"
        BY <1>3 DEF IInv, JobsJustified, JobJustified, UpdateLastExpansion
    <2>2. /\ pc'[m][p] = "updating"
          /\ snap' = snap /\ now' = now
          /\ job'[m][p] = [job[m][p] EXCEPT !.stamp = RFC3339(now)]
        BY <1>1, <1>3 DEF UpdateLastExpansion, TypeOK
    <2>3. StampFits(job[m][p].config, RFC3339(now), now)
        BY <1>1, <2>1, StampFitsNow DEF JobJustified, Object
    <2>4. /\ IsJob(job'[m][p])
          /\ job'[m][p].config = job[m][p].config
          /\ job'[m][p].newSize = job[m][p].newSize
          /\ job'[m][p].stamp = RFC3339(now)
        BY <2>1, <2>2 DEF IsJob, JobJustified
    <2>5. JobJustified(m, p) /\ pc'[m][p] = "updating" /\ snap'[m][p] = snap[m][p] /\ now' = now
        BY <2>1, <2>2
    <2> QED BY <2>1, <2>3, <2>4, <2>5 DEF JobJustified, Resolved, Allows, StampFits
<1> QED BY <1>2, <1>3

\* A step of the specification makes a goroutine's job, keeps it, or needs none.
LEMMA JobFate ==
    ASSUME IInv, Step, NEW m \in Managers, NEW p \in PVC
    PROVE  \/ PlanExpansion(m, p) \/ UpdateLastExpansion(m, p)
           \/ pc'[m][p] \notin {"stamping", "updating"}
           \/ pc'[m][p] = pc[m][p] /\ snap'[m][p] = snap[m][p] /\ job'[m][p] = job[m][p]
<1>1. /\ TypeOK /\ CopiesHeld
      /\ job = [n \in Managers |-> [q \in PVC |-> job[n][q]]]
    BY DEF IInv, JobsJustified
<1> USE <1>1 DEF TypeOK
<1>2. CASE UNCHANGED controllerVars
    BY <1>2 DEF controllerVars
<1>3. ASSUME NEW n \in Managers, Loop(n)
      PROVE  \/ pc'[m][p] \notin {"stamping", "updating"}
             \/ pc'[m][p] = pc[m][p] /\ snap'[m][p] = snap[m][p] /\ job'[m][p] = job[m][p]
    <2>1. CASE ListPVCs(n)
        BY <2>1 DEF ListPVCs, CopiesHeld
    <2>2. CASE FetchFails(n)
        BY <2>2 DEF FetchFails, CopiesHeld
    <2>3. CASE FetchMetrics(n)
        BY <2>3 DEF FetchMetrics
    <2>4. CASE EndCycle(n)
        BY <2>4 DEF EndCycle, Nothing
    <2> QED BY <1>3, <2>1, <2>2, <2>3, <2>4 DEF Loop
<1>4. ASSUME NEW n \in Managers, Restart(n)
      PROVE  \/ pc'[m][p] \notin {"stamping", "updating"}
             \/ pc'[m][p] = pc[m][p] /\ snap'[m][p] = snap[m][p] /\ job'[m][p] = job[m][p]
    BY <1>4 DEF Restart, Nothing
<1>5. ASSUME NEW n \in Managers, NEW q \in PVC, Goroutine(n, q), ~(n = m /\ q = p)
      PROVE  pc'[m][p] = pc[m][p] /\ snap'[m][p] = snap[m][p] /\ job'[m][p] = job[m][p]
    <2>1. CASE Acquire(n, q)
        BY <1>5, <2>1 DEF Acquire
    <2>2. CASE PlanExpansion(n, q)
        BY <1>5, <2>2 DEF PlanExpansion
    <2>3. CASE UpdateLastExpansion(n, q)
        BY <1>5, <2>3 DEF UpdateLastExpansion
    <2>4. ASSUME NEW how, Return(n, q, how)
          PROVE  pc'[m][p] = pc[m][p] /\ snap'[m][p] = snap[m][p] /\ job'[m][p] = job[m][p]
        BY <1>5, <2>4 DEF Return
    <2> QED
        BY <1>5, <2>1, <2>2, <2>3, <2>4
        DEF Goroutine, Decide, Skip, StorageClassUnavailable, Refuse, PretendExpansion, UpdatePVC,
            UpdateSucceeds, UpdateAnswerLost, UpdateFails
<1>6. CASE Goroutine(m, p)
    <2>1. CASE Acquire(m, p)
        BY <2>1 DEF Acquire
    <2>2. CASE UpdateLastExpansion(m, p) \/ PlanExpansion(m, p)
        BY <2>2
    <2>3. CASE \E how \in Returned : Return(m, p, how)
        BY <2>3 DEF Return, Returned
    <2> QED
        BY <1>6, <2>1, <2>2, <2>3
        DEF Goroutine, Decide, Skip, StorageClassUnavailable, Refuse, PretendExpansion, UpdatePVC,
            UpdateSucceeds, UpdateAnswerLost, UpdateFails, Returned
<1>7. ASSUME NEW n \in Managers, NEW q \in PVC, SyncCache(n, q)
      PROVE  pc'[m][p] = pc[m][p] /\ snap'[m][p] = snap[m][p] /\ job'[m][p] = job[m][p]
    BY <1>7 DEF SyncCache
<1> QED BY <1>2, <1>3, <1>4, <1>5, <1>6, <1>7 DEF Step, OtherStep, LoopStep

\* job stays a function on managers and claims.
LEMMA JobShape ==
    ASSUME job = [m \in Managers |-> [p \in PVC |-> job[m][p]]], Step
    PROVE  job' = [m \in Managers |-> [p \in PVC |-> job'[m][p]]]
<1>1. CASE job' = job
    BY <1>1
<1>2. ASSUME NEW m \in Managers, Restart(m)
      PROVE  job' = [n \in Managers |-> [p \in PVC |-> job'[n][p]]]
    BY <1>2 DEF Restart, Nothing
<1>3. ASSUME NEW m \in Managers, NEW p \in PVC, NEW v, job' = [job EXCEPT ![m][p] = v]
      PROVE  job' = [n \in Managers |-> [q \in PVC |-> job'[n][q]]]
    BY <1>3
<1>4. ASSUME NEW m \in Managers, NEW p \in PVC, Goroutine(m, p)
      PROVE  job' = job \/ \E v : job' = [job EXCEPT ![m][p] = v]
    <2>1. CASE Acquire(m, p)
        BY <2>1 DEF Acquire
    <2>2. CASE PlanExpansion(m, p)
        BY <2>2 DEF PlanExpansion
    <2>3. CASE UpdateLastExpansion(m, p)
        BY <2>3 DEF UpdateLastExpansion
    <2>4. ASSUME NEW how, Return(m, p, how)
          PROVE  \E v : job' = [job EXCEPT ![m][p] = v]
        BY <2>4 DEF Return
    <2> QED
        BY <1>4, <2>1, <2>2, <2>3, <2>4
        DEF Goroutine, Decide, Skip, StorageClassUnavailable, Refuse, PretendExpansion, UpdatePVC,
            UpdateSucceeds, UpdateAnswerLost, UpdateFails
<1>5. ASSUME NEW m \in Managers, Loop(m) \/ \E p \in PVC : SyncCache(m, p)
      PROVE  job' = job
    BY <1>5 DEF Loop, ListPVCs, FetchFails, FetchMetrics, EndCycle, SyncCache
<1>6. CASE OtherStep
    BY <1>6, <1>1 DEF OtherStep, controllerVars
<1> QED BY <1>1, <1>2, <1>3, <1>4, <1>5, <1>6 DEF Step, LoopStep

LEMMA JobsStep ==
    ASSUME IInv, Step
    PROVE  JobsJustified'
<1>1. VersionsGrow
    BY StepGrows
<1>2. ASSUME NEW m \in Managers, NEW p \in PVC PROVE JobJustified(m, p)'
    <2>1. CASE PlanExpansion(m, p) \/ UpdateLastExpansion(m, p)
        BY <2>1, JobMade
    <2>2. CASE pc'[m][p] \notin {"stamping", "updating"}
        BY <2>2 DEF JobJustified
    <2>3. CASE pc'[m][p] = pc[m][p] /\ snap'[m][p] = snap[m][p] /\ job'[m][p] = job[m][p]
        BY <1>1, <2>3, JobKept
    <2> QED BY <2>1, <2>2, <2>3, JobFate
<1> QED BY <1>2, JobShape DEF IInv, JobsJustified

\* Which managers only pretend is decided when they start.
LEMMA DryRunFixed ==
    ASSUME Step
    PROVE  dryRun' = dryRun
BY DEF Step, OtherStep, LoopStep, controllerVars, Loop, ListPVCs, FetchFails, FetchMetrics, EndCycle, Restart,
       SyncCache, Goroutine, Acquire, Decide, Skip, StorageClassUnavailable, Refuse, PretendExpansion,
       PlanExpansion, UpdateLastExpansion, UpdatePVC, UpdateSucceeds, UpdateAnswerLost, UpdateFails

LEMMA DryRunStep ==
    ASSUME IInv, Step
    PROVE  DryRunsStopShort'
<1> SUFFICES ASSUME NEW m \in dryRun, NEW p \in PVC
             PROVE  pc'[m][p] \notin {"stamping", "updating"}
    BY DryRunFixed DEF DryRunsStopShort
<1>1. m \in Managers /\ pc[m][p] \notin {"stamping", "updating"}
    BY DEF IInv, TypeOK, DryRunsStopShort
<1>2. ~PlanExpansion(m, p) /\ ~UpdateLastExpansion(m, p)
    BY <1>1 DEF PlanExpansion, IsDryRun, UpdateLastExpansion
<1> QED BY <1>1, <1>2, JobFate

\* IInv is preserved by the loop, and by anybody who gives a changed claim a new version.
LEMMA StepKeepsIInv ==
    ASSUME IInv, Step
    PROVE  IInv'
BY TypeStep, CopiesStep, HeldStep, JobsStep, DryRunStep DEF IInv

-----------------------------------------------------------------------------
(***************************************************************************)
(* The theorems                                                            *)
(***************************************************************************)

\* IInv holds in every state: typing, currency of copies, justified jobs.
THEOREM Invariance == Spec => []IInv
<1>1. Init => IInv
    BY InitIInv
<1>2. IInv /\ [Next]_vars => IInv'
    BY NextIsStep, StepKeepsIInv
<1> QED BY <1>1, <1>2, PTL DEF Spec

\* The controller's type invariant.
THEOREM TypeCorrectness == Spec => []TypeOK
BY Invariance, PTL DEF IInv

\* A decision whose copy is still current is one the stored object allows: nothing
\* reconcilePVC checked before Update can have become false unnoticed.
THEOREM DecisionsHold == Spec => []DecisionHolds
<1>1. IInv => DecisionHolds
    BY JobOnStoredObject DEF DecisionHolds
<1> QED BY <1>1, Invariance, PTL

\* Every step of the loop is a step of the atomic expander or leaves the cluster alone.
LEMMA StepIsAtomic ==
    ASSUME IInv, [Next]_vars
    PROVE  [AtomicNext]_clusterVars
<1>1. CASE LoopStep
    BY <1>1, LoopExpands DEF AtomicNext
<1>2. CASE UNCHANGED vars
    BY <1>2 DEF vars, clusterVars
<1> QED BY <1>1, <1>2 DEF Next, LoopStep, AtomicNext

\* The periodic loop implements the atomic expander: concurrent managers, stale caches,
\* lost answers and restarts never yield an expansion that an operator reading,
\* deciding and writing in one step could not have made.
THEOREM Refinement == Spec => ExpandsAtomically
<1>1. Init => ClusterInit
    BY DEF Init
<1>2. IInv /\ [Next]_vars => [AtomicNext]_clusterVars
    BY StepIsAtomic
<1> QED BY <1>1, <1>2, Invariance, PTL DEF Spec, ExpandsAtomically, AtomicSpec

\* Nobody but the operator writes last-expansion, and it stamps by the rules.
LEMMA StampsAreExpansions ==
    ASSUME ClusterTypeOK, [AtomicNext]_clusterVars, NEW p \in PVC, api'[p].last # api[p].last
    PROVE  \E c \in Resolved(p, api[p]) : c # NotManaged /\ StampFits(c, api'[p].last, now)
<1> USE DEF ClusterTypeOK
<1>1. ~Environment
    <2>1. ~Tick
        BY DEF Tick
    <2>2. ASSUME NEW q \in PVC, Annotate(q) PROVE FALSE
        <3>1. PICK a \in Annotations : api' = [api EXCEPT ![q].ann = a, ![q].rv = @ + 1]
            BY <2>2 DEF Annotate
        <3> QED BY <3>1 DEF Object
    <2>3. ASSUME NEW q \in PVC, UserResize(q) PROVE FALSE
        <3>1. PICK size \in UserSizes :
                \E w \in Written(api[q], size, api[q].last) : api' = [api EXCEPT ![q] = w]
            BY <2>3 DEF UserResize
        <3>2. \A w \in Written(api[q], size, api[q].last) : w.last = api[q].last
            BY DEF Written, Object
        <3> QED BY <3>1, <3>2
    <2>4. \A q \in PVC : ~PhaseChange(q)
        BY DEF PhaseChange, Object
    <2>5. \A q \in PVC : ~ResizeStarts(q) /\ ~ResizeFinishes(q)
        BY DEF ResizeStarts, ResizeFinishes, Object
    <2> QED BY <2>1, <2>2, <2>3, <2>4, <2>5 DEF Environment
<1>2. PICK q \in PVC : ExpandNow(q)
    BY <1>1 DEF AtomicNext, clusterVars
<1>3. PICK c \in Resolved(q, api[q]), stamp \in 0..now :
        /\ Allows(q, api[q], c, now)
        /\ StampFits(c, stamp, now)
        /\ \E w \in Written(api[q], CalculateNewSize(c, api[q].cap), stamp) :
              api' = [api EXCEPT ![q] = w]
    BY <1>2 DEF ExpandNow
<1>4. PICK w \in Written(api[q], CalculateNewSize(c, api[q].cap), stamp) :
        api' = [api EXCEPT ![q] = w]
    BY <1>3
<1>5. q = p
    BY <1>4
<1>6. w.last \in {api[q].last, stamp}
    BY DEF Written, Object
<1> QED BY <1>3, <1>4, <1>5, <1>6 DEF Allows

\* The stamps of claim p are a cooldown apart in a step, if its annotations manage it.
StampSpaced(p) ==
    /\ api'[p].last # api[p].last
    /\ api[p].last # Absent
    /\ ParsePVCAnnotations(api[p].ann, api[p].last, Global) # NotManaged
    => api'[p].last - api[p].last
          > ParsePVCAnnotations(api[p].ann, api[p].last, Global).set.cooldown - TicksPerSecond

LEMMA AtomicStampSpaced ==
    ASSUME ClusterTypeOK, [AtomicNext]_clusterVars, NEW p \in PVC
    PROVE  StampSpaced(p)
<1> SUFFICES ASSUME api'[p].last # api[p].last, api[p].last # Absent,
                    ParsePVCAnnotations(api[p].ann, api[p].last, Global) # NotManaged
             PROVE  api'[p].last - api[p].last
                      > ParsePVCAnnotations(api[p].ann, api[p].last, Global).set.cooldown
                          - TicksPerSecond
    BY DEF StampSpaced
<1> DEFINE c == ParsePVCAnnotations(api[p].ann, api[p].last, Global)
<1>1. api[p] \in Object
    BY DEF ClusterTypeOK
<1>2. Resolved(p, api[p]) = {c}
    BY DEF Resolved, ResolvePVCConfig, ParsePVCAnnotations
<1>3. StampFits(c, api'[p].last, now)
    BY <1>2, StampsAreExpansions
<1>4. c.last = api[p].last
    BY DEF ParsePVCAnnotations
<1>5. c.set.cooldown \in Int
    BY <1>1, <1>2, ResolvedConfig DEF Object, Complete, Numbers
<1> QED BY <1>1, <1>3, <1>4, <1>5, ConfigAssumption DEF StampFits, Object, ConfigAssumption

\* Stamps of a claim managed by annotations are a cooldown apart, less the fraction of
\* a second RFC 3339 drops, whichever manager or process incarnation wrote them.
THEOREM CooldownTheorem == Spec => CooldownRespected
<1>1. IInv /\ [Next]_vars => [\A p \in PVC : StampSpaced(p)]_vars
    BY StepIsAtomic, AtomicStampSpaced DEF IInv, TypeOK
<1> QED BY <1>1, Invariance, PTL DEF Spec, CooldownRespected, StampSpaced

\* What users wrote on a claim survives every write of the operator, although an Update
\* carries the annotations of the copy it was made from: the copy is the stored claim.
THEOREM SettingsTheorem == Spec => SettingsSurvive
<1>1. ASSUME IInv, [Next]_vars, NEW p \in PVC, ~Annotate(p)
      PROVE  KeepsSettings(api[p].ann, api'[p].ann)
    <2>1. ClusterTypeOK /\ [AtomicNext]_clusterVars
        BY <1>1, StepIsAtomic DEF IInv, TypeOK
    <2>2. CASE UNCHANGED clusterVars
        BY <2>2 DEF clusterVars, KeepsSettings
    <2>3. CASE Environment
        BY <1>1, <2>1, <2>3, EnvironmentKeepsSettings
    <2>4. ASSUME NEW q \in PVC, ExpandNow(q) PROVE KeepsSettings(api[p].ann, api'[p].ann)
        BY <2>1, <2>4, WriteKeepsSettings DEF ExpandNow
    <2> QED BY <2>1, <2>2, <2>3, <2>4 DEF AtomicNext
<1>2. IInv /\ [Next]_vars => [\A p \in PVC : ~Annotate(p) => KeepsSettings(api[p].ann, api'[p].ann)]_vars
    BY <1>1
<1> QED BY <1>2, Invariance, PTL DEF Spec, SettingsSurvive, KeepsSettings

\* No step of the loop of a manager in dry run writes.
LEMMA DryRunReachesNoClaim ==
    ASSUME IInv, LoopStep, NEW m \in Managers, m \in dryRun, pc'[m] # pc[m]
    PROVE  UNCHANGED api
<1>1. TypeOK
    BY DEF IInv
<1>2. ASSUME NEW n \in Managers, NEW p \in PVC, UpdateSucceeds(n, p) \/ UpdateAnswerLost(n, p)
      PROVE  FALSE
    <2>1. pc[n][p] = "updating" /\ \E how \in Returned : pc' = [pc EXCEPT ![n][p] = how]
        BY <1>2 DEF UpdateSucceeds, UpdateAnswerLost, Commit, Return, Returned
    <2>2. n = m
        BY <1>1, <2>1 DEF TypeOK
    <2> QED BY <2>1, <2>2 DEF IInv, DryRunsStopShort
<1>3. ASSUME NEW n \in Managers, Loop(n) \/ Restart(n) PROVE UNCHANGED api
    BY <1>3 DEF Loop, ListPVCs, FetchFails, FetchMetrics, EndCycle, Restart
<1>4. ASSUME NEW n \in Managers, NEW p \in PVC, SyncCache(n, p) \/ Goroutine(n, p)
      PROVE  UNCHANGED api
    BY <1>2, <1>4
    DEF SyncCache, Goroutine, Acquire, Decide, Skip, StorageClassUnavailable, Refuse,
        PretendExpansion, PlanExpansion, UpdateLastExpansion, UpdatePVC, UpdateFails
<1> QED BY <1>3, <1>4 DEF LoopStep

\* The loop of a manager started with --dry-run never writes a claim, whatever managers
\* run beside it.
THEOREM DryRunTheorem == Spec => DryLoopWritesNothing
<1>1. ASSUME IInv, [Next]_vars, NEW m \in Managers, m \in dryRun, pc'[m] # pc[m]
      PROVE  UNCHANGED api
    <2>1. CASE LoopStep
        BY <1>1, <2>1, DryRunReachesNoClaim
    <2>2. CASE ~LoopStep
        BY <1>1, <2>2 DEF Next, LoopStep, controllerVars, vars
    <2> QED BY <2>1, <2>2
<1>2. IInv /\ [Next]_vars => [\A m \in dryRun : pc'[m] # pc[m] => UNCHANGED api]_vars
    <2>1. IInv => dryRun \subseteq Managers
        BY DEF IInv, TypeOK
    <2> QED BY <1>1, <2>1
<1> QED BY <1>2, Invariance, PTL DEF Spec, DryLoopWritesNothing

-----------------------------------------------------------------------------
(***************************************************************************)
(* Requests stay one step from the capacity.  (Beside the group controller *)
(* they do not: it raises without looking at the capacity.)                *)
(***************************************************************************)

\* What resolves from annotations resolves to the same settings whenever the claim was
\* last expanded.
LEMMA SettingsOfAnnotations ==
    ASSUME NEW p \in PVC, NEW o, o.ann \in Annotations, o.last \in Nat \cup {Absent},
           NEW c \in Resolved(p, o), c # NotManaged
    PROVE  \E d \in Configurations : d.set = c.set
<1> DEFINE once == [ann |-> o.ann, last |-> Absent]
           parsed == ParsePVCAnnotations(o.ann, o.last, Global)
           first == ParsePVCAnnotations(o.ann, Absent, Global)
<1>1. SUFFICES \E d \in Resolved(p, once) : d # NotManaged /\ d.set = c.set
    <2> DEFINE R(q, a) == Resolved(q, [ann |-> a, last |-> Absent])
               all == {R(q, a) : q \in PVC, a \in Annotations}
    <2>1. Resolved(p, once) = R(p, o.ann)
        OBVIOUS
    <2>2. R(p, o.ann) \in all
        <3> HIDE DEF R
        <3> QED OBVIOUS
    <2>3. Configurations = (UNION all) \ {NotManaged}
        BY DEF Configurations
    <2> HIDE DEF R, all, once
    <2> QED BY <2>1, <2>2, <2>3
<1>2. once.ann = o.ann /\ once.last = Absent
    OBVIOUS
<1>3. PICK listOK \in BOOLEAN : c \in ResolvePVCConfig(p, o.ann, o.last, Policies, Global, listOK)
    BY DEF Resolved
<1>4. \A d \in ResolvePVCConfig(p, o.ann, Absent, Policies, Global, listOK) : d \in Resolved(p, once)
    BY <1>2 DEF Resolved
<1>5. CASE ToLower(o.ann.enabled) = "false"
    BY <1>3, <1>4, <1>5 DEF ResolvePVCConfig
\* Annotations parse, or not, whatever last-expansion is.
<1>6. /\ parsed # NotManaged => first # NotManaged /\ first.set = parsed.set
      /\ parsed = NotManaged => first = NotManaged
    <2> DEFINE typo == ToLower(o.ann.enabled) # "true" \/ \E f \in Field : Malformed(f, o.ann.set[f])
               set == [f \in Field |-> OrDefault(o.ann.set[f], Global[f])]
    <2>1. Absent # Invalid /\ o.last # Invalid /\ NotManaged \notin Configuration
        BY ConfigAssumption DEF ConfigAssumption
    <2>2. CASE typo
        BY <2>2 DEF ParsePVCAnnotations
    <2>3. CASE ~typo
        <3>1. /\ parsed = [enabled |-> TRUE, set |-> set, last |-> o.last]
              /\ first = [enabled |-> TRUE, set |-> set, last |-> Absent]
            BY <2>1, <2>3 DEF ParsePVCAnnotations
        <3>2. set \in [Field -> Int \cup Increase \cup {NaN, Invalid}]
            <4>1. /\ WellFormed(o.ann.set) /\ Complete(Global)
                  /\ \A f \in Field : /\ set[f] = OrDefault(o.ann.set[f], Global[f])
                                      /\ ~Malformed(f, o.ann.set[f])
                BY <2>3, ClusterAssumption DEF ClusterAssumption
            <4> HIDE DEF set
            <4>2. ASSUME NEW f \in Percentages PROVE set[f] \in Int \cup {NaN}
                BY <4>1 DEF WellFormed, Complete, OrDefault, Malformed, parsePercentage, Percentages, Field
            <4>3. ASSUME NEW f \in Numbers PROVE set[f] \in Int
                BY <4>1 DEF WellFormed, Complete, OrDefault, Malformed, Numbers, Field
            <4>4. set["increase"] \in Increase \cup {Invalid}
                BY <4>1 DEF WellFormed, Complete, OrDefault, Field
            <4>5. Field = Percentages \cup Numbers \cup {"increase"}
                BY DEF Field, Percentages, Numbers
            <4>6. \A f \in Field : set[f] \in Int \cup Increase \cup {NaN, Invalid}
                BY <4>2, <4>3, <4>4, <4>5
            <4> QED BY <4>6 DEF set
        <3> HIDE DEF set
        <3>3. parsed \in Configuration /\ first \in Configuration
            BY <3>1, <3>2 DEF Configuration
        <3>4. parsed # NotManaged /\ first # NotManaged
            BY <2>1, <3>3
        <3> HIDE DEF parsed, first
        <3> QED BY <3>1, <3>4
    <2> QED BY <2>2, <2>3
<1> HIDE DEF once
<1>7. CASE ToLower(o.ann.enabled) # "false" /\ parsed # NotManaged
    <2>1. c = parsed
        BY <1>3, <1>7 DEF ResolvePVCConfig
    <2>2. first \in ResolvePVCConfig(p, o.ann, Absent, Policies, Global, listOK)
        BY <1>6, <1>7 DEF ResolvePVCConfig
    <2> HIDE DEF first, parsed
    <2> QED BY <1>4, <1>6, <1>7, <2>1, <2>2
<1>8. CASE ToLower(o.ann.enabled) # "false" /\ parsed = NotManaged
    <2>1. c \in ResolvePVCConfig(p, o.ann, Absent, Policies, Global, listOK)
        BY <1>3, <1>6, <1>8 DEF ResolvePVCConfig
    <2> QED BY <1>4, <2>1
<1> QED BY <1>5, <1>7, <1>8

OneStep(p) ==
    \/ api[p].req \in UserSizes \cup {api[p].cap}
    \/ \E c \in Configurations : api[p].req = CalculateNewSize(c, api[p].cap)

\* An expansion asks for one step from the capacity as stored.
LEMMA ExpandIsOneStep ==
    ASSUME ClusterTypeOK, NEW p \in PVC, NEW q \in PVC, ExpandNow(q), OneStep(p)
    PROVE  OneStep(p)'
<1>1. api \in [PVC -> Object] /\ api[p] \in Object /\ api[q] \in Object
    BY DEF ClusterTypeOK
<1>2. PICK c \in Resolved(q, api[q]), stamp \in 0..now :
        /\ Allows(q, api[q], c, now)
        /\ \E w \in Written(api[q], CalculateNewSize(c, api[q].cap), stamp) :
              api' = [api EXCEPT ![q] = w]
    BY DEF ExpandNow
<1>3. PICK w \in Written(api[q], CalculateNewSize(c, api[q].cap), stamp) : api' = [api EXCEPT ![q] = w]
    BY <1>2
<1>4. w.req = CalculateNewSize(c, api[q].cap) /\ w.cap = api[q].cap
    <2>1. w.req = CalculateNewSize(c, api[q].cap)
        BY <1>1, <1>3, WrittenRequest
    <2> DEFINE req == CalculateNewSize(c, api[q].cap)
    <2>2. w \in Written(api[q], req, stamp)
        BY <1>3
    <2> HIDE DEF req
    <2>3. w.cap = api[q].cap
        BY <1>1, <2>2 DEF Written, Object
    <2> QED BY <2>1, <2>3
<1>5. PICK d \in Configurations : d.set = c.set
    BY <1>1, <1>2, SettingsOfAnnotations DEF Object, Allows
<1>6. CalculateNewSize(d, api[q].cap) = CalculateNewSize(c, api[q].cap)
    BY <1>5 DEF CalculateNewSize, IncreaseBytes
<1>7. CASE p = q
    BY <1>1, <1>3, <1>4, <1>6, <1>7 DEF OneStep
<1>8. CASE p # q
    BY <1>1, <1>3, <1>8 DEF OneStep
<1> QED BY <1>7, <1>8

\* Users ask for sizes of their own; the storage layer makes the capacity what was asked.
LEMMA EnvironmentIsOneStep ==
    ASSUME ClusterTypeOK, Environment, NEW p \in PVC, OneStep(p)
    PROVE  OneStep(p)'
<1>1. api \in [PVC -> Object] /\ \A q \in PVC : api[q] \in Object
    BY DEF ClusterTypeOK
<1>2. ASSUME api'[p].req = api[p].req, api'[p].cap = api[p].cap
      PROVE  OneStep(p)'
    BY <1>2 DEF OneStep
<1>3. ASSUME NEW q \in PVC, UserResize(q) PROVE OneStep(p)'
    <2>1. PICK size \in UserSizes :
            \E w \in Written(api[q], size, api[q].last) : api' = [api EXCEPT ![q] = w]
        BY <1>3 DEF UserResize
    <2>2. PICK w \in Written(api[q], size, api[q].last) : api' = [api EXCEPT ![q] = w]
        BY <2>1
    <2>3. w.req = size
        BY <1>1, WrittenRequest
    <2>4. CASE p = q
        BY <1>1, <2>2, <2>3, <2>4 DEF OneStep
    <2>5. CASE p # q
        BY <1>1, <1>2, <2>2, <2>5
    <2> QED BY <2>4, <2>5
<1>4. ASSUME NEW q \in PVC, Annotate(q) \/ PhaseChange(q) \/ ResizeStarts(q)
      PROVE  api'[p].req = api[p].req /\ api'[p].cap = api[p].cap
    <2>1. CASE Annotate(q)
        BY <1>1, <2>1 DEF Annotate, Object
    <2>2. CASE PhaseChange(q)
        BY <1>1, <2>2 DEF PhaseChange, Object
    <2>3. CASE ResizeStarts(q)
        BY <1>1, <2>3 DEF ResizeStarts, Object
    <2> QED BY <1>4, <2>1, <2>2, <2>3
<1>5. ASSUME NEW q \in PVC, ResizeFinishes(q) PROVE OneStep(p)'
    <2>1. CASE p = q
        <3>1. api'[p].req = api[p].req /\ api'[p].cap = api[p].req
            BY <1>1, <1>5, <2>1 DEF ResizeFinishes, Object
        <3> QED BY <3>1 DEF OneStep
    <2>2. CASE p # q
        BY <1>1, <1>2, <1>5, <2>2 DEF ResizeFinishes
    <2> QED BY <2>1, <2>2
<1>6. Tick => api' = api
    BY DEF Tick
<1> QED BY <1>2, <1>3, <1>4, <1>5, <1>6 DEF Environment

\* However many cycles and managers wrote it, a pending request that no user made is
\* one step of some configuration from the capacity, if requests are so at the start.
THEOREM OneStepTheorem ==
    ASSUME \A o \in Objects, p \in PVC : o[p].req \in UserSizes \cup {o[p].cap}
    PROVE  Spec => []RequestIsOneStep
<1>1. Init => RequestIsOneStep
    BY DEF Init, ClusterInit, RequestIsOneStep
<1>2. IInv /\ RequestIsOneStep /\ [Next]_vars => RequestIsOneStep'
    <2> SUFFICES ASSUME IInv, \A p \in PVC : OneStep(p), [Next]_vars, NEW p \in PVC
                 PROVE  OneStep(p)'
        BY DEF RequestIsOneStep, OneStep
    <2>1. ClusterTypeOK /\ [AtomicNext]_clusterVars
        BY StepIsAtomic DEF IInv, TypeOK
    <2>2. CASE UNCHANGED clusterVars
        BY <2>2 DEF clusterVars, OneStep
    <2> QED BY <2>1, <2>2, ExpandIsOneStep, EnvironmentIsOneStep DEF AtomicNext
<1> QED BY <1>1, <1>2, Invariance, PTL DEF Spec

=============================================================================
