---------------------------- MODULE OperatorProofs ----------------------------
(***************************************************************************)
(* The two controllers of a manager, racing for the same claims, do        *)
(* nothing but atomic expansions and raises of claims as stored, for any   *)
(* number of managers and claims.  The argument composes those of the two  *)
(* controllers: to each, a step of the other is one of somebody who gives  *)
(* changed claims a new version.                                           *)
(***************************************************************************)
EXTENDS Operator, PVCControllerProofs

GP == INSTANCE GroupControllerProofs WITH claimCache <- cache

\* The inductive invariant: those of both controllers.
OperatorInv == IInv /\ GP!IInv

-----------------------------------------------------------------------------
(***************************************************************************)
(* The definitions of the instances are those of this module               *)
(***************************************************************************)

\* What GroupController assumes of its constants.
LEMMA GroupAssumptions ==
    /\ GP!GroupAssumption!:
    /\ GP!ClusterAssumption!:
    /\ GP!ConfigAssumption!:
<1> USE DEF Object, GP!Object, Field, GP!Field, Increase, GP!Increase
<1>1. GP!ConfigAssumption!:
    BY ConfigAssumption DEF ConfigAssumption, MinInt64, GP!MinInt64, Configuration, GP!Configuration
<1>2. GP!GroupAssumption!:
    BY OperatorAssumption, ControllerAssumption
    DEF OperatorAssumption, ControllerAssumption, IsFiniteSet, GP!IsFiniteSet
<1>3. \A a, t : Default(a, t) = GP!Default(a, t)
    BY DEF Default, GP!Default, Overlaid, GP!Overlaid, getTemplateAnnotations, GP!getTemplateAnnotations
<1>4. GP!ClusterAssumption!:
    BY <1>3, ClusterAssumption
    DEF ClusterAssumption, WellFormed, GP!WellFormed, Complete, GP!Complete,
        Percentages, GP!Percentages, Numbers, GP!Numbers
<1> QED BY <1>1, <1>2, <1>4

LEMMA SameGrowth ==
    /\ VersionsGrow <=> GP!VersionsGrow
    /\ clusterVars = GP!clusterVars
    /\ ClusterTypeOK <=> GP!ClusterTypeOK
BY DEF VersionsGrow, GP!VersionsGrow, clusterVars, GP!clusterVars, ClusterTypeOK, GP!ClusterTypeOK,
       Object, GP!Object

LEMMA SameSync ==
    ASSUME NEW m \in Managers
    PROVE  /\ G!SyncGroup(m) => GP!SyncGroup(m)
           /\ G!Requeue(m) => GP!Requeue(m)
           /\ G!Restart(m) => GP!Restart(m)
           /\ \A p \in PVC : G!SyncClaim(m, p) => GP!SyncClaim(m, p)
BY DEF G!SyncGroup, GP!SyncGroup, G!Requeue, GP!Requeue, G!Restart, GP!Restart, G!NoCopy, GP!NoCopy,
       G!NewGroup, GP!NewGroup, G!SyncClaim, GP!SyncClaim, G!findPVCGroupForPVC, GP!findPVCGroupForPVC

LEMMA SameReconcile ==
    ASSUME NEW m \in Managers, G!Reconcile(m)
    PROVE  GP!Reconcile(m)
<1> USE DEF G!Return, GP!Return, G!NoCopy, GP!NoCopy, G!NewGroup, GP!NewGroup, G!Behind, GP!Behind
<1>1. G!GetGroup(m) => GP!GetGroup(m)
    BY DEF G!GetGroup, GP!GetGroup
<1>2. G!ReadFails(m) => GP!ReadFails(m)
    BY DEF G!ReadFails, GP!ReadFails
<1>3. G!UpdateStatus(m) => GP!UpdateStatus(m)
    BY DEF G!UpdateStatus, GP!UpdateStatus
<1>4. G!StatusFails(m) => GP!StatusFails(m)
    BY DEF G!StatusFails, GP!StatusFails
<1>5. \A p \in PVC : G!Raise(m, p) => GP!Raise(m, p)
    BY DEF G!Raise, GP!Raise, G!Accepts, GP!Accepts, G!Written, GP!Written, G!Admission, GP!Admission,
           G!Default, GP!Default, G!Overlaid, GP!Overlaid, G!getTemplateAnnotations, GP!getTemplateAnnotations,
           G!Field, GP!Field
<1>6. \A p \in PVC : G!CoordinatePVC(m, p) => GP!CoordinatePVC(m, p)
    BY <1>5 DEF G!CoordinatePVC, GP!CoordinatePVC
<1>7. \A p \in PVC : G!CoordinationFails(m, p) => GP!CoordinationFails(m, p)
    BY <1>5 DEF G!CoordinationFails, GP!CoordinationFails
<1>8. G!ListMembers(m) => GP!ListMembers(m)
    BY DEF G!ListMembers, GP!ListMembers, G!IsActive, GP!IsActive, G!MemberCount, GP!MemberCount,
           G!calculateLargestSize, GP!calculateLargestSize, G!Max, GP!Max, G!RFC3339, GP!RFC3339,
           G!Cardinality, GP!Cardinality
<1> QED BY <1>1, <1>2, <1>3, <1>4, <1>6, <1>7, <1>8 DEF G!Reconcile, GP!Reconcile

\* The atomic expander of the promise is the one the loop implements.
LEMMA SameSize ==
    \A c, size : CalculateNewSize(c, size) = Promise!CalculateNewSize(c, size)
<1>1. \A x : Int64(x) = Promise!Int64(x) /\ FloatToInt64(x) = Promise!FloatToInt64(x)
    BY DEF Int64, Promise!Int64, FloatToInt64, Promise!FloatToInt64, MinInt64, Promise!MinInt64
<1>2. \A x, y : GoDiv(x, y) = Promise!GoDiv(x, y)
    BY DEF GoDiv, Promise!GoDiv
<1>3. \A x : RoundUpToGiB(x) = Promise!RoundUpToGiB(x)
    BY <1>1, <1>2 DEF RoundUpToGiB, Promise!RoundUpToGiB
<1>4. \A c, size : IncreaseBytes(c, size) = Promise!IncreaseBytes(c, size)
    <2> TAKE c, size
    <2>1. GoDiv(size * c.set.increase.amount, 100) = Promise!GoDiv(size * c.set.increase.amount, 100)
        BY <1>2
    <2>2. FloatToInt64(GoDiv(size * c.set.increase.amount, 100))
              = Promise!FloatToInt64(Promise!GoDiv(size * c.set.increase.amount, 100))
        BY <1>1, <2>1
    <2> QED BY <2>2 DEF IncreaseBytes, Promise!IncreaseBytes
<1>5. SUFFICES ASSUME NEW c, NEW size
               PROVE  CalculateNewSize(c, size) = Promise!CalculateNewSize(c, size)
    OBVIOUS
<1>6. Int64(size + IncreaseBytes(c, size)) = Promise!Int64(size + Promise!IncreaseBytes(c, size))
    BY <1>1, <1>4
<1> QED BY <1>3, <1>6 DEF CalculateNewSize, Promise!CalculateNewSize

\* What the server takes and stores is the same to all.
LEMMA SameServer ==
    /\ \A p \in PVC : \A o, req : Accepts(p, o, req) <=> Promise!Accepts(p, o, req)
    /\ \A o, req, stamp : Written(o, req, stamp) = Promise!Written(o, req, stamp)
<1>1. \A p \in PVC : \A o, req : Accepts(p, o, req) <=> Promise!Accepts(p, o, req)
    BY DEF Accepts, Promise!Accepts
<1>2. \A a, t : Default(a, t) = Promise!Default(a, t)
    BY DEF Default, Promise!Default, Overlaid, Promise!Overlaid, Field, Promise!Field,
           getTemplateAnnotations, Promise!getTemplateAnnotations
<1>3. \A a : Admission(a) = Promise!Admission(a)
    BY <1>2 DEF Admission, Promise!Admission
<1> QED BY <1>1, <1>3 DEF Written, Promise!Written

LEMMA SamePromise ==
    /\ ClusterInit => Promise!ClusterInit
    /\ Environment => Promise!Environment
    /\ \A p \in PVC : ExpandNow(p) => Promise!ExpandNow(p)
<1> USE DEF Field, Promise!Field
<1>1. ClusterInit => Promise!ClusterInit
    BY DEF ClusterInit, Promise!ClusterInit
<1>2. Environment => Promise!Environment
    BY SameServer
    DEF Environment, Promise!Environment, Tick, Promise!Tick, Annotate, Promise!Annotate,
        UserResize, Promise!UserResize, PhaseChange, Promise!PhaseChange,
        ResizeStarts, Promise!ResizeStarts, ResizeFinishes, Promise!ResizeFinishes
<1>4. \A p, o : Resolved(p, o) = Promise!Resolved(p, o)
    BY DEF Resolved, Promise!Resolved, ResolvePVCConfig, Promise!ResolvePVCConfig,
           DisabledConfig, Promise!DisabledConfig, ToLower, Promise!ToLower,
           ParsePVCAnnotations, Promise!ParsePVCAnnotations, Malformed, Promise!Malformed,
           Percentages, Promise!Percentages, Numbers, Promise!Numbers, parsePercentage, Promise!parsePercentage,
           OrDefault, Promise!OrDefault, buildConfigFromPolicy, Promise!buildConfigFromPolicy,
           TemplateValue, Promise!TemplateValue
<1>5. \A p \in PVC : \A o, c, t : Allows(p, o, c, t) <=> Promise!Allows(p, o, c, t)
    BY SameSize DEF Allows, Promise!Allows, IsInCooldown, Promise!IsInCooldown, ExceedsMaxSize, Promise!ExceedsMaxSize
<1>6. \A c, s, t : StampFits(c, s, t) <=> Promise!StampFits(c, s, t)
    BY DEF StampFits, Promise!StampFits
<1>7. \A p \in PVC : ExpandNow(p) => Promise!ExpandNow(p)
    <2> SUFFICES ASSUME NEW p \in PVC, ExpandNow(p) PROVE Promise!ExpandNow(p)
        OBVIOUS
    <2>1. PICK c \in Resolved(p, api[p]), stamp \in 0..now :
            /\ Allows(p, api[p], c, now)
            /\ StampFits(c, stamp, now)
            /\ Accepts(p, api[p], CalculateNewSize(c, api[p].cap))
            /\ \E w \in Written(api[p], CalculateNewSize(c, api[p].cap), stamp) :
                  api' = [api EXCEPT ![p] = w]
            /\ now' = now
        BY DEF ExpandNow
    <2>2. /\ c \in Promise!Resolved(p, api[p])
          /\ Promise!Allows(p, api[p], c, now)
          /\ Promise!StampFits(c, stamp, now)
          /\ Promise!Accepts(p, api[p], Promise!CalculateNewSize(c, api[p].cap))
          /\ Written(api[p], CalculateNewSize(c, api[p].cap), stamp)
                = Promise!Written(api[p], Promise!CalculateNewSize(c, api[p].cap), stamp)
        BY <1>4, <1>5, <1>6, <2>1, SameSize, SameServer
    <2> QED BY <2>1, <2>2 DEF Promise!ExpandNow
<1> QED BY <1>1, <1>2, <1>7

-----------------------------------------------------------------------------
(***************************************************************************)
(* Every step, as each controller sees it                                  *)
(***************************************************************************)

\* To the group controller, the loop is somebody else, unless the loop's copies of the
\* claims change: then the step is one of both.
LEMMA LoopSteps ==
    ASSUME OperatorInv, NEW m \in Managers, PeriodicLoop(m)
    PROVE  LoopStep /\ GP!OtherStep
<1>1. LoopStep
    BY DEF PeriodicLoop, LoopStep
<1>2. VersionsGrow
    BY <1>1, LoopExpands DEF OperatorInv
<1>3. UNCHANGED cache
    BY DEF PeriodicLoop, Loop, ListPVCs, FetchFails, FetchMetrics, EndCycle,
           Goroutine, Acquire, Decide, Skip, StorageClassUnavailable, Refuse, PretendExpansion,
           PlanExpansion, UpdateLastExpansion, UpdatePVC, UpdateSucceeds, UpdateAnswerLost, UpdateFails
<1>4. GP!VersionsGrow
    BY <1>2, SameGrowth
<1> QED BY <1>1, <1>3, <1>4 DEF PeriodicLoop, GP!OtherStep, GP!groupVars, groupVars

LEMMA ReconcilerSteps ==
    ASSUME OperatorInv, NEW m \in Managers, GroupReconciler(m)
    PROVE  GP!GroupStep /\ Step
<1>1. GP!GroupStep
    BY SameSync, SameReconcile DEF GroupReconciler, GP!GroupStep
<1>2. VersionsGrow
    BY <1>1, SameGrowth, GroupAssumptions, GP!GroupRaises DEF OperatorInv
<1>3. CASE \E p \in PVC : G!SyncClaim(m, p)
    BY <1>1, <1>3 DEF GroupReconciler, G!SyncClaim, loopVars, Step, LoopStep, SyncCache
<1>4. CASE ~\E p \in PVC : G!SyncClaim(m, p)
    <2>1. UNCHANGED cache
        BY <1>4 DEF GroupReconciler, G!SyncGroup, G!Requeue, G!Reconcile, G!GetGroup, G!ListMembers,
                    G!ReadFails, G!CoordinatePVC, G!CoordinationFails, G!UpdateStatus, G!StatusFails
    <2> QED BY <1>1, <1>2, <2>1 DEF GroupReconciler, loopVars, controllerVars, Step, OtherStep
<1> QED BY <1>3, <1>4

\* Every step of the operator is one of each controller, or of its surroundings.
LEMMA OperatorSteps ==
    ASSUME OperatorInv, [OperatorNext]_<<vars, groupVars>>
    PROVE  Step /\ GP!Step
<1>1. ClusterTypeOK
    BY DEF OperatorInv, IInv, TypeOK
<1>2. ASSUME VersionsGrow, UNCHANGED <<controllerVars, groupVars>>
      PROVE  Step /\ GP!Step
    BY <1>2, SameGrowth
    DEF Step, OtherStep, GP!Step, GP!OtherStep, groupVars, GP!groupVars, controllerVars
<1>3. UNCHANGED clusterVars => VersionsGrow
    BY <1>1 DEF clusterVars, ClusterTypeOK, VersionsGrow
<1>4. CASE Environment /\ UNCHANGED <<controllerVars, groupVars>>
    BY <1>1, <1>2, <1>4, EnvironmentGrows
<1>5. CASE (G!DeleteGroup \/ G!CreateGroup) /\ UNCHANGED loopVars
    <2>1. GP!GroupStep
        BY <1>5 DEF G!DeleteGroup, G!CreateGroup, GP!DeleteGroup, GP!CreateGroup,
                    G!NewGroup, GP!NewGroup, GP!GroupStep
    <2>2. UNCHANGED clusterVars /\ UNCHANGED controllerVars
        BY <1>5 DEF G!DeleteGroup, G!CreateGroup, loopVars, controllerVars, clusterVars
    <2> QED BY <1>3, <2>1, <2>2 DEF GP!Step, Step, OtherStep
<1>6. ASSUME NEW m \in Managers, PeriodicLoop(m) PROVE Step /\ GP!Step
    BY <1>6, LoopSteps DEF Step, GP!Step
<1>7. ASSUME NEW m \in Managers, GroupReconciler(m) PROVE Step /\ GP!Step
    BY <1>7, ReconcilerSteps DEF GP!Step
<1>8. ASSUME NEW m \in Managers, RestartBoth(m) PROVE Step /\ GP!Step
    BY <1>8, SameSync DEF RestartBoth, Step, LoopStep, GP!Step, GP!GroupStep
<1>9. CASE UNCHANGED <<vars, groupVars>>
    <2>1. UNCHANGED clusterVars /\ UNCHANGED <<controllerVars, groupVars>>
        BY <1>9 DEF vars, clusterVars, controllerVars
    <2> QED BY <1>2, <1>3, <2>1
<1> QED BY <1>4, <1>5, <1>6, <1>7, <1>8, <1>9 DEF OperatorNext, Everybody

LEMMA InitOperatorInv == OperatorInit => OperatorInv
<1> SUFFICES ASSUME OperatorInit PROVE OperatorInv
    OBVIOUS
<1>1. GP!Init
    BY DEF OperatorInit, G!Init, GP!Init, G!ClusterInit, GP!ClusterInit, G!NewGroup, GP!NewGroup,
           G!NoCopy, GP!NoCopy
<1> QED BY <1>1, InitIInv, GroupAssumptions, GP!InitIInv DEF OperatorInit, OperatorInv

LEMMA OperatorInvKept ==
    ASSUME OperatorInv, [OperatorNext]_<<vars, groupVars>>
    PROVE  OperatorInv'
BY OperatorSteps, StepKeepsIInv, GroupAssumptions, GP!StepKeepsIInv DEF OperatorInv, GP!Step

\* The invariants of the two controllers hold together, for any number of managers that
\* run both, any restarts and any users.
THEOREM OperatorInvariance == OperatorSpec => []OperatorInv
<1>1. OperatorInv /\ [OperatorNext]_<<vars, groupVars>> => OperatorInv'
    BY OperatorInvKept
<1> QED BY <1>1, InitOperatorInv, PTL DEF OperatorSpec

-----------------------------------------------------------------------------
(***************************************************************************)
(* The promise                                                             *)
(***************************************************************************)

\* A size that a reconciliation remembers was asked for by a member it knew of.
LEMMA AskedGrows ==
    ASSUME OperatorInv, [OperatorNext]_<<vars, groupVars>>
    PROVE  AskedSomewhere' \subseteq AskedSomewhere \cup Promise!MembersAsk'
<1>1. Step /\ GP!Step
    BY OperatorSteps
<1>2. \A m \in Managers : G!Behind(m) = GP!Behind(m)
    BY DEF G!Behind, GP!Behind
<1>3. \A m \in Managers : G!Behind(m)' = GP!Behind(m)'
    BY DEF G!Behind, GP!Behind
<1>4. \A o : (G!IsActive(o) <=> GP!IsActive(o)) /\ (G!IsActive(o) <=> Promise!IsActive(o))
    BY DEF G!IsActive, GP!IsActive, Promise!IsActive
<1> SUFFICES ASSUME NEW size \in AskedSomewhere'
             PROVE  size \in AskedSomewhere \cup Promise!MembersAsk'
    OBVIOUS
<1>5. \/ \E p \in PVC : G!IsActive(api'[p]) /\ size = api'[p].req
      \/ \E m \in Managers, p \in PVC : G!IsActive(cache'[m][p]) /\ size = cache'[m][p].req
      \/ \E m \in Managers : G!Behind(m)' # {} /\ size = copy'[m].size
    BY DEF AskedSomewhere, G!IsActive
<1>6. \A m \in Managers, p \in PVC : G!IsActive(cache[m][p]) => cache[m][p].req \in AskedSomewhere
    BY DEF AskedSomewhere
<1>7. \A p \in PVC : G!IsActive(api[p]) => api[p].req \in AskedSomewhere
    BY DEF AskedSomewhere
<1>8. \A m \in Managers : G!Behind(m) # {} => copy[m].size \in AskedSomewhere
    BY DEF AskedSomewhere
<1>9. CASE \E p \in PVC : G!IsActive(api'[p]) /\ size = api'[p].req
    BY <1>4, <1>9 DEF Promise!MembersAsk
<1>10. CASE \E m \in Managers, p \in PVC : G!IsActive(cache'[m][p]) /\ size = cache'[m][p].req
    <2>1. PICK m \in Managers, p \in PVC : G!IsActive(cache'[m][p]) /\ size = cache'[m][p].req
        BY <1>10
    <2>2. cache'[m][p] \in {cache[m][p], api[p]}
        BY <1>1, GroupAssumptions, GP!CopiesFrom DEF OperatorInv, GP!Step
    <2> QED BY <1>6, <1>7, <2>1, <2>2
<1>11. CASE \E m \in Managers : G!Behind(m)' # {} /\ size = copy'[m].size
    <2>1. PICK m \in Managers : GP!Behind(m)' # {} /\ size = copy'[m].size
        BY <1>3, <1>11
    <2>2. \/ GP!Behind(m) # {} /\ copy'[m].size = copy[m].size
          \/ \E p \in PVC : GP!IsActive(cache[m][p]) /\ cache[m][p].req = copy'[m].size
        BY <1>1, <2>1, GroupAssumptions, GP!SizeFrom DEF OperatorInv, GP!Step
    <2> QED BY <1>2, <1>4, <1>6, <1>8, <2>1, <2>2
<1> QED BY <1>5, <1>9, <1>10, <1>11

\* An Update of the reconciler that the server takes raises a member, as stored, to a
\* size that was asked for.
LEMMA RaisedIsPromised ==
    ASSUME OperatorInv, NEW m \in Managers, NEW p \in PVC, GP!Raised(m, p)
    PROVE  Promise!Coordinate(p)
<1>1. /\ members[m][p] = api[p] /\ GP!IsActive(api[p])
      /\ copy[m].size > api[p].req
      /\ GP!Accepts(p, api[p], copy[m].size)
      /\ \E w \in GP!Written(api[p], copy[m].size, api[p].last) : api' = [api EXCEPT ![p] = w]
      /\ now' = now
    BY DEF GP!Raised
<1>2. members[m][p] # NoPVC
    BY <1>1, ControllerAssumption DEF OperatorInv, IInv, TypeOK, ClusterTypeOK, ControllerAssumption
<1>3. copy[m].size \in AskedSomewhere
    BY <1>2 DEF AskedSomewhere, G!Behind
<1>4. Promise!IsActive(api[p]) /\ Promise!Accepts(p, api[p], copy[m].size)
    BY <1>1 DEF GP!IsActive, Promise!IsActive, GP!Accepts, Promise!Accepts
<1>5. \A o, req, stamp : GP!Written(o, req, stamp) = Promise!Written(o, req, stamp)
    <2>1. \A a, t : GP!Default(a, t) = Promise!Default(a, t)
        BY DEF GP!Default, Promise!Default, GP!Overlaid, Promise!Overlaid, GP!Field, Promise!Field,
               GP!getTemplateAnnotations, Promise!getTemplateAnnotations
    <2>2. \A a : GP!Admission(a) = Promise!Admission(a)
        BY <2>1 DEF GP!Admission, Promise!Admission
    <2> QED BY <2>2 DEF GP!Written, Promise!Written
<1> QED BY <1>1, <1>3, <1>4, <1>5 DEF Promise!Coordinate

\* The same raise in terms of this module.
LEMMA RaisedStored ==
    ASSUME NEW m \in Managers, NEW p \in PVC, GP!Raised(m, p)
    PROVE  /\ G!IsActive(api[p])
           /\ \E w \in Written(api[p], copy[m].size, api[p].last) : api' = [api EXCEPT ![p] = w]
<1>1. \A a, t : GP!Default(a, t) = Default(a, t)
    BY DEF GP!Default, Default, GP!Overlaid, Overlaid, GP!Field, Field,
           GP!getTemplateAnnotations, getTemplateAnnotations
<1>2. \A a : GP!Admission(a) = Admission(a)
    BY <1>1 DEF GP!Admission, Admission
<1>3. \A o, req, stamp : GP!Written(o, req, stamp) = Written(o, req, stamp)
    BY <1>2 DEF GP!Written, Written
<1>4. /\ GP!IsActive(api[p])
      /\ \E w \in GP!Written(api[p], copy[m].size, api[p].last) : api' = [api EXCEPT ![p] = w]
    BY DEF GP!Raised
<1> QED BY <1>3, <1>4 DEF G!IsActive, GP!IsActive

\* All that reaches the claims: atomic expansions, raises, and users, clock and storage.
LEMMA ReachesClaims ==
    ASSUME OperatorInv, [OperatorNext]_<<vars, groupVars>>
    PROVE  \/ UNCHANGED clusterVars
           \/ \E p \in PVC : ExpandNow(p)
           \/ Environment
           \/ \E m \in Managers, p \in PVC : GP!Raised(m, p)
<1>1. CASE Everybody
    BY <1>1 DEF Everybody, G!DeleteGroup, G!CreateGroup, clusterVars
<1>2. ASSUME NEW m \in Managers, PeriodicLoop(m)
      PROVE  UNCHANGED clusterVars \/ \E p \in PVC : ExpandNow(p)
    BY <1>2, LoopSteps, LoopExpands DEF OperatorInv
<1>3. ASSUME NEW m \in Managers, GroupReconciler(m)
      PROVE  UNCHANGED clusterVars \/ \E n \in Managers, p \in PVC : GP!Raised(n, p)
    <2>1. GP!GroupStep
        BY <1>3, ReconcilerSteps
    <2>2. UNCHANGED GP!clusterVars \/ \E n \in Managers, p \in PVC : GP!Raised(n, p)
        BY <2>1, GroupAssumptions, GP!GroupRaises DEF OperatorInv
    <2> QED BY <2>2 DEF clusterVars, GP!clusterVars
<1>4. ASSUME NEW m \in Managers, RestartBoth(m) PROVE UNCHANGED clusterVars
    BY <1>4 DEF RestartBoth, Restart, clusterVars
<1>5. UNCHANGED <<vars, groupVars>> => UNCHANGED clusterVars
    BY DEF vars, clusterVars
<1> QED BY <1>1, <1>2, <1>3, <1>4, <1>5 DEF OperatorNext

\* Every step of the operator is a step of the promise.
LEMMA OperatorStepIsPromised ==
    ASSUME OperatorInv, [OperatorNext]_<<vars, groupVars>>
    PROVE  Promise!OperatorNext
<1>1. AskedSomewhere' \subseteq AskedSomewhere \cup Promise!MembersAsk'
    BY AskedGrows
<1>2. \/ UNCHANGED Promise!clusterVars
      \/ \E p \in PVC : Promise!Coordinate(p)
      \/ Promise!AtomicNext
    BY ReachesClaims, SamePromise, RaisedIsPromised DEF Promise!AtomicNext, clusterVars, Promise!clusterVars
<1> QED BY <1>1, <1>2 DEF Promise!OperatorNext

\* "The operator works atomically": both controllers together refine AtomicOperator.
\* Nothing that a stale cache, a conflict, a restart or the other controller does lets
\* an expansion or a raise act on a claim other than the stored one.
THEOREM OperatorRefinement == OperatorSpec => WorksAtomically
<1>1. OperatorInit => Promise!OperatorInit
    <2> SUFFICES ASSUME OperatorInit PROVE Promise!OperatorInit
        OBVIOUS
    <2>1. Promise!ClusterInit
        BY SamePromise DEF OperatorInit, Init
    <2>2. /\ \A m \in Managers, p \in PVC : cache[m][p] = api[p]
          /\ \A m \in Managers : G!Behind(m) = {}
        BY DEF OperatorInit, Init, G!Init, G!Behind
    <2>3. AskedSomewhere \subseteq Promise!MembersAsk
        BY <2>2 DEF AskedSomewhere, G!IsActive, Promise!MembersAsk, Promise!IsActive
    <2> QED BY <2>1, <2>3 DEF Promise!OperatorInit
<1>2. OperatorInv /\ [OperatorNext]_<<vars, groupVars>>
          => [Promise!OperatorNext]_<<api, now, AskedSomewhere>>
    BY OperatorStepIsPromised
<1> QED BY <1>1, <1>2, OperatorInvariance, PTL DEF OperatorSpec, WorksAtomically, Promise!OperatorSpec

\* The decisions of the loop stay guarded by the version they were made on with the
\* group controller beside it, which writes the same claims.
THEOREM OperatorDecisionsHold == OperatorSpec => []DecisionHolds
<1>1. OperatorInv => DecisionHolds
    BY JobOnStoredObject DEF OperatorInv, DecisionHolds
<1> QED BY <1>1, OperatorInvariance, PTL

\* Raises by the group controller write last-expansion back as they found it, so that
\* the cooldown holds for both controllers together.
THEOREM OperatorCooldown == OperatorSpec => CooldownRespected
<1>1. ASSUME OperatorInv, [OperatorNext]_<<vars, groupVars>>
      PROVE  [\A p \in PVC : StampSpaced(p)]_vars
    <2>1. ClusterTypeOK
        BY <1>1 DEF OperatorInv, IInv, TypeOK
    <2>2. ASSUME NEW m \in Managers, NEW q \in PVC, GP!Raised(m, q), NEW p \in PVC
          PROVE  api'[p].last = api[p].last
        <3>1. PICK w \in Written(api[q], copy[m].size, api[q].last) : api' = [api EXCEPT ![q] = w]
            BY <2>2, RaisedStored
        <3>2. w.last = api[q].last
            BY <2>1, <3>1 DEF Written, ClusterTypeOK, Object
        <3> QED BY <2>1, <3>1, <3>2 DEF ClusterTypeOK
    <2>3. [AtomicNext]_clusterVars => \A p \in PVC : StampSpaced(p)
        BY <2>1, AtomicStampSpaced
    <2>4. [AtomicNext]_clusterVars \/ \A p \in PVC : api'[p].last = api[p].last
        BY <1>1, <2>2, ReachesClaims DEF AtomicNext
    <2> QED BY <2>3, <2>4 DEF StampSpaced
<1> QED BY <1>1, OperatorInvariance, PTL DEF OperatorSpec, CooldownRespected, StampSpaced

\* Neither controller's writes take a setting from a claim, although both carry the
\* annotations of the copies they were made from.
THEOREM OperatorSettings == OperatorSpec => SettingsSurvive
<1>1. ASSUME OperatorInv, [OperatorNext]_<<vars, groupVars>>, NEW p \in PVC, ~Annotate(p)
      PROVE  KeepsSettings(api[p].ann, api'[p].ann)
    <2>1. ClusterTypeOK
        BY <1>1 DEF OperatorInv, IInv, TypeOK
    <2>2. CASE UNCHANGED clusterVars
        BY <2>2 DEF clusterVars, KeepsSettings
    <2>3. CASE Environment
        BY <1>1, <2>1, <2>3, EnvironmentKeepsSettings
    <2>4. ASSUME NEW q \in PVC, ExpandNow(q) PROVE KeepsSettings(api[p].ann, api'[p].ann)
        BY <2>1, <2>4, WriteKeepsSettings DEF ExpandNow
    <2>5. ASSUME NEW m \in Managers, NEW q \in PVC, GP!Raised(m, q)
          PROVE  KeepsSettings(api[p].ann, api'[p].ann)
        BY <2>1, <2>5, RaisedStored, WriteKeepsSettings
    <2> QED BY <1>1, <2>2, <2>3, <2>4, <2>5, ReachesClaims
<1>2. OperatorInv /\ [OperatorNext]_<<vars, groupVars>>
          => [\A p \in PVC : ~Annotate(p) => KeepsSettings(api[p].ann, api'[p].ann)]_vars
    BY <1>1
<1> QED BY <1>2, OperatorInvariance, PTL DEF OperatorSpec, SettingsSurvive, KeepsSettings

\* Whoever opts out is left alone from that write on: an expansion resolves a
\* configuration for the claim as stored, and a raise is one of an active member as stored.
THEOREM OperatorOptIn == OperatorSpec => WritesOnlyOptedIn
<1>1. ASSUME OperatorInv, [OperatorNext]_<<vars, groupVars>>,
             NEW p \in PVC, api'[p] # api[p], ~Environment
      PROVE  OptedIn(p)
    <2>1. ASSUME NEW q \in PVC, ExpandNow(q) PROVE OptedIn(p)
        <3>1. PICK c \in Resolved(q, api[q]) : c # NotManaged /\ \E w : api' = [api EXCEPT ![q] = w]
            BY <2>1 DEF ExpandNow, Allows
        <3>2. p = q
            BY <1>1, <3>1 DEF OperatorInv, IInv, TypeOK, ClusterTypeOK
        <3> QED BY <3>1, <3>2 DEF OptedIn
    <2>2. ASSUME NEW m \in Managers, NEW q \in PVC, GP!Raised(m, q) PROVE OptedIn(p)
        <3>1. G!IsActive(api[q]) /\ \E w : api' = [api EXCEPT ![q] = w]
            BY <2>2, RaisedStored
        <3>2. p = q
            BY <1>1, <3>1 DEF OperatorInv, IInv, TypeOK, ClusterTypeOK
        <3> QED BY <3>1, <3>2 DEF OptedIn
    <2> QED BY <1>1, <2>1, <2>2, ReachesClaims DEF clusterVars
<1>2. OperatorInv /\ [OperatorNext]_<<vars, groupVars>>
          => [\A p \in PVC : api'[p] # api[p] /\ ~Environment => OptedIn(p)]_<<vars, groupVars>>
    BY <1>1
<1> QED BY <1>2, OperatorInvariance, PTL DEF OperatorSpec, WritesOnlyOptedIn

\* The loop of a manager in dry run writes nothing with the group controller beside it.
\* (The group controller of that manager has no dry run, and writes.)
THEOREM OperatorDryRun == OperatorSpec => DryLoopWritesNothing
<1>1. ASSUME OperatorInv, [OperatorNext]_<<vars, groupVars>>,
             NEW m \in Managers, m \in dryRun, pc'[m] # pc[m]
      PROVE  UNCHANGED api
    <2>1. CASE LoopStep
        BY <1>1, <2>1, DryRunReachesNoClaim DEF OperatorInv
    <2>2. ASSUME NEW n \in Managers, PeriodicLoop(n) \/ RestartBoth(n) PROVE LoopStep
        BY <2>2 DEF PeriodicLoop, RestartBoth, LoopStep
    <2>3. ASSUME Everybody \/ \E n \in Managers : GroupReconciler(n) PROVE UNCHANGED pc
        BY <2>3 DEF Everybody, GroupReconciler, loopVars, controllerVars
    <2> QED BY <1>1, <2>1, <2>2, <2>3 DEF OperatorNext, vars
<1>2. OperatorInv /\ [OperatorNext]_<<vars, groupVars>>
          => [\A m \in dryRun : pc'[m] # pc[m] => UNCHANGED api]_vars
    <2>1. OperatorInv => dryRun \subseteq Managers
        BY DEF OperatorInv, IInv, TypeOK
    <2> QED BY <1>1, <2>1
<1> QED BY <1>2, OperatorInvariance, PTL DEF OperatorSpec, DryLoopWritesNothing

\* A reconciliation raises active members as stored, and no others, while the loop
\* expands the same claims.
THEOREM OperatorMembersOnly == OperatorSpec => G!OnlyMembersRaised
<1>1. OperatorInv /\ [OperatorNext]_<<vars, groupVars>>
          => [\A m \in Managers, p \in PVC :
                 members'[m][p] # members[m][p] /\ api'[p].req # api[p].req
                 => G!IsActive(api[p])]_(G!vars)
    <2> SUFFICES ASSUME OperatorInv, [OperatorNext]_<<vars, groupVars>>,
                        NEW m \in Managers, NEW p \in PVC,
                        members'[m][p] # members[m][p], api'[p].req # api[p].req
                 PROVE  G!IsActive(api[p])
        OBVIOUS
    <2>1. GP!IsActive(api[p])
        BY OperatorSteps, GroupAssumptions, GP!MembersOnlyStep DEF OperatorInv
    <2> QED BY <2>1 DEF G!IsActive, GP!IsActive
<1> QED BY <1>1, OperatorInvariance, PTL DEF OperatorSpec, G!OnlyMembersRaised

\* Nor is a group forgotten by a manager that runs both controllers: the loop leaves the
\* reconciler's queue and delays alone.
THEOREM OperatorComesBack == OperatorSpec => []G!NeverForgotten
<1>1. G!NeverForgotten <=> GP!NeverForgotten
    BY DEF G!NeverForgotten, GP!NeverForgotten
<1>2. OperatorInit => G!NeverForgotten
    BY DEF OperatorInit, G!Init, G!NeverForgotten
<1>3. OperatorInv /\ G!NeverForgotten /\ [OperatorNext]_<<vars, groupVars>> => G!NeverForgotten'
    <2> SUFFICES ASSUME OperatorInv, GP!NeverForgotten, [OperatorNext]_<<vars, groupVars>>
                 PROVE  GP!NeverForgotten'
        BY <1>1 DEF G!NeverForgotten, GP!NeverForgotten
    <2> QED BY OperatorSteps, GroupAssumptions, GP!NeverForgottenStep DEF OperatorInv
<1> QED BY <1>2, <1>3, OperatorInvariance, PTL DEF OperatorSpec

=============================================================================
