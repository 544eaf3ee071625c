# A TLA+ verification project for pvc-chonker

pvc-chonker is a Kubernetes operator that grows PersistentVolumeClaims (claims for short)
that run out of space or inodes. This directory models its controllers and checks and proves what makes
them right. Definitions keep the names of the Go code; `PROJECT.json` maps each of them to
its lines.

## 1. The system

| part | state it keeps | operations | talks to |
| --- | --- | --- | --- |
| **Settings and resolution** `pkg/annotations` | none | parse annotations, pick a policy, new size, limit, cooldown, stamp | reads claims, PVCPolicies, flags |
| **PVC controller** `internal/controller/persistentvolumeclaim_controller.go` | one loop per process; per cycle a list of claims and one goroutine each under a semaphore | list, fetch metrics, decide, stamp, Update | informer cache, kubelets, API server, storage class cache |
| **PVCGroup controller** `.../pvcgroup_controller.go` | workqueue, informer cache; the group's status | list members, raise the small ones, write status, requeue | informer cache, API server |
| **PVCPolicy controller** `.../pvcpolicy_controller.go` | workqueue, informer cache; a policy's status | map claim events to policies, count matching claims, write status, requeue | informer cache, API server |
| **PVCGroup webhook** `internal/webhook` | none | copy the template into a claim's annotations at admission | API server |
| **Kubelet metrics collector** `pkg/kubelet` | a cache per collection | one goroutine per node, store four metric families, percentages | kubelets, called by the PVC controller |
| **Storage class cache** `pkg/cache` | class -> expandable, class -> file system | Get, Set, GetFsType, SetFsType, Clear | the PVC controller's goroutines |
| `cmd/main.go`, `pkg/metrics`, `pkg/utils`, `internal/providers`, `api/v1alpha1` | flags, counters, types | wiring, formatting | - |

The parts share no memory except the two caches. They interact through the claim stored by
the API server: its requested size, its annotations (settings by the user and the webhook,
`last-expansion` by the PVC controller), and its `resourceVersion`, which makes an Update
from an old copy fail.

What is hard about it:

* every decision is made on copies, minutes old when kubelets are slow, while users, the
  storage layer, the other controller and other operator processes write the same claim;
* leader election is off by default, so two managers may run the same loop;
* writes fail, or succeed and lose their answer; the process may die between any two steps;
* goroutines of one cycle contend for a semaphore and race in the storage class cache,
  those of one collection in the metrics cache;
* the webhook changes writes on their way in, the operator's own included; watches map events
  to queue entries through code that may lose them;
* time: a cooldown stamped in whole seconds, checked before and stamped after a delay;
* sizes: percentages, GiB rounding and limits in 64-bit integers that wrap.

`PROJECT.json` lists these hazards line by line with the properties that cover them.

What makes each part right:

* settings: the first source that manages a claim decides; sizes land on the right GiB
  boundary, and one is requested exactly when the limit leaves room for it;
* PVC controller: every write is a decision the *stored* claim allows at that moment,
  cooldown and one-step growth hold across managers and restarts, the loop of a dry run
  writes nothing, cycles end, a claim that stays under pressure is asked to grow each time its
  cooldown and its limit allow it;
* PVCGroup controller: never shrinks a claim (its users may), touches only members, members converge, the
  status tells the truth in the end;
* PVCGroup webhook: fills in, never overrides; applying it again changes nothing;
* PVCPolicy controller: the count belongs to the selector it stands beside, and is right in
  the end even when events are lost;
* both controllers of a process together: every write is still an atomic one on the stored
  claim;
* storage class cache: no answer is older than the cycle, the warning about fixed inodes
  is given when due and only then;
* collector: each claim gets its own node's numbers or the collection fails, and a failure
  ends it without waiting for the other nodes.

## 2. Modules

```
PVCConfig            pure operators of pkg/annotations
  |- Sizing          one volume grown over and over          MCSizing, SizingProofs
  `- GroupWebhook    admission as operators
       `- Cluster    claims, API server, users, clock (external)     ClusterProofs
            |- AtomicExpander      what the PVC controller promises
            |    |- AtomicOperator      what both controllers promise together
            |    `- PVCController  the loop and its goroutines     MCPVCController, PVCControllerProofs
            |         `- Operator  loop and group reconciler       MCOperator, OperatorProofs
            |                      (INSTANCE GroupController, AtomicOperator)
            `- GroupController     the group reconciler            MCGroupController, GroupControllerProofs
PolicyController     the policy reconciler                   PolicyControllerProofs
StorageClasses       the storage class cache                 MCStorageClasses, StorageClassesProofs
KubeletMetrics       the collector                           MCKubeletMetrics, KubeletMetricsProofs
```

PVCControllerProofs and GroupControllerProofs extend ClusterProofs; OperatorProofs extends
the first and instantiates the second.

**PVCConfig**. A setting's text is abstracted to what parsing yields: an integer, `Absent`
or `Invalid`. `ResolvePVCConfig` returns a *set* of configurations, because the informer
lists policies in no fixed order and the list call may fail. Arithmetic keeps the code's
order of operations: truncating division, a sum that wraps (`Int64`), and a conversion from
float (`FloatToInt64`) that gives the least int64 below the range and, above it, what the
platform likes (`FloatOverflow`; amd64 and arm64, for which releases are built, differ). The
text `NaN%` parses and passes the range test: `NaN` is a threshold nothing reaches
(`AtLeast`), and as an increase it is one of the amounts its conversion gives, the least
int64 or 0. `RFC3339` drops the fraction of a second.

**Sizing** repeats `CalculateNewSize` and `ExceedsMaxSize` on one volume with a GiB of 4
bytes and an 8-bit integer, so that both the boundary and the wrap-around are
in reach.

**GroupWebhook** has the two entry points, `Default` (registered) and `Handle` (called by
tests), as functions of a claim's annotations and a template. In Cluster every write passes
`Admission`: nothing is added (no webhook, out of reach, no such group), or one of
`Templates` is, since the webhook's cache may hold any version of any group. A refused write
is a write that fails.

**Cluster** is external: the stored claims with a version, a clock, users who edit
annotations and sizes, claims that are lost or bound, a storage layer that resizes. `Accepts`
is the API server's update check (version, no shrinking, unbound claims not resized), and
`RecoverResize` allows lowering a pending request as Kubernetes does from 1.32 on, to users
as to the operator.
`Policies` holds every version of the namespace's policies, and `Resolved` every
configuration that one of them yields: editing a policy needs no step.

**PVCController**. `phase` is where `reconcileAll` is (`idle`, `listed`, `running`), `snap`
the copies it listed, `pc` where each goroutine of `reconcilePVC`/`ExpandPVC` is:

| pc | code |
| --- | --- |
| `queued` | waiting for the semaphore (line 137) |
| `reconciling` | holds a slot; `Decide` is lines 157-342 on the copy |
| `stamping` | decided, `UpdateLastExpansion` not yet called (343) |
| `updating` | the Update is on its way (345) |
| `skipped`, `failed`, `expanded` | how it returned; `expanded` counts a success (240) |

The checks from 157 to 342 are one step: they read the goroutine's own copy, the
configuration and one clock, and write nothing but counters and the storage class cache,
which is modelled apart. The stamp and the Update are steps of their own, because the clock and the stored
claim move in between. `NewSize` is the one size ExpandPVC computes: the limit is checked on it
(`WithinLimit`) and it is what the copy carries (`Expansion`). `Commit` is shared by an Update that answers and one whose answer is
lost. `Restart` forgets everything in memory and may happen at any step.

**AtomicExpander** is the abstract specification: an expansion reads, decides and writes
the stored claim in one step.

**GroupController**. `groupCache`, `claimCache` are the informers, `queued` and `delayed`
the workqueue, `members` the copies Reconcile still has to raise. `CoordinatePVC` is one
iteration of the loop in `coordinatePVCSizes` that writes; the first failure ends the
reconciliation before the status. Iteration order is left open, as the informer's list has
none. `Restart` may happen at any step.

**Operator** runs PVCController and GroupController side by side in each manager: one
informer cache for both (`claimCache <- cache`), one death of the process for both.
**AtomicOperator** is the abstract specification of the two: atomic expansions, and raises
of a claim that is a member *as stored* to a size in `asked`, the sizes members have asked
for and nobody has forgotten yet. The refinement maps `asked` to the sizes of members as
stored, as cached and as a reconciliation under way added them up (`AskedSomewhere`).

**PolicyController**. `SyncClaim` and `SyncClaimLost` are a delivery of a claim and
`findPVCPoliciesForPVC`, called with the old object and the new; `retrying` and `periodic`
the two ways back into the queue. `missed` is a history variable: policies concerned by an
event that was lost and not counted since. Labels are one value per claim and a
selector the set of values it matches.

**StorageClasses** has one step for each critical section of the cache; `seen` is a history variable: the class's
versions since the cycle began. **KubeletMetrics** has one step per node and metric family, and
the single-volume parser as an operator to compare with.

Names that start with "Fault" in a comment are mutated forms of a definition: no action
of a specification uses them. They record, for each property, a plausible mistake that the
property catches (`mutants` in PROJECT.json).

## 3. Runs

| run | module, configuration | properties |
| --- | --- | --- |
| `sizing` | MCSizing, 8-bit integers, 120 configurations | TypeOK, LandsOnBoundary, LimitIsExact |
| `one_manager` | MCPVCController: 1 claim managed by annotations, by a policy or annotated `false`, restarts, users who may lower a pending request, a group's template | TypeOK, RequestIsOneStep, ExpandsAtomically, CooldownRespected, SettingsSurvive |
| `two_managers` | MCPVCController: 2 managers, at most one of them in dry run, 1 claim, symmetry | DecisionHolds, ExpandsAtomically, CooldownRespected, DryLoopWritesNothing |
| `growth` | MCPVCController: fair, 2 claims, 1 slot, restarts | CycleCompletes, GrowsUnderPressure |
| `group` | MCGroupController: fair, 2 claims, the group created or deleted, restarts | TypeOK, NeverForgotten, RequestsNeverShrink, OnlyMembersRaised, MembersConverge, StatusConverges |
| `operator` | MCOperator: 2 members, one the loop manages until its user removes the annotations and one it does not, restarts, the group created or deleted | WorksAtomically, WritesOnlyOptedIn |
| `policies` | PolicyController: fair, 1 policy, 2 claims, 2 edits, restarts | TypeOK, SettledIsRight, CountFitsSelector, CountsConverge |
| `classes` | MCStorageClasses: 3 claims, 2 slots, 2 changes of the class | TypeOK, AllowedThisCycle, FixedInodesWarned |
| `metrics_local` | MCKubeletMetrics: fair, 2 nodes, 2 claims on one node each or alike on both | TypeOK, UsageIsTheNodes, ParsersAgree, CollectionEnds |

Runs that TLC refutes, each a statement of the documentation the code does not keep:

| run | property | what happens |
| --- | --- | --- |
| `policy_cooldown` | PolicyCooldownRespected | claims managed by a policy have no cooldown |
| `dry_run` | DryRunModifiesNothing | the group controller of a process in dry run (`cmd/main.go:216`) raises a member; the flag goes to the loop only (`:118`, `:194`) |
| `classes_false_warning` | WarningIsTrue | an xfs claim is warned about as ext4 when two goroutines race |

Other places where the code and its documentation part, seen in the models and not given a
run of their own:

* `enabled: "false"` resolves to a configuration and no error, and the claim is expanded with
  the settings of the flags (`persistentvolumeclaim_controller.go:157` never looks at
  `Enabled`; `docs/ADVANCED_FEATURES.md:19`: "completely disable expansion"); `one_manager`
  has such a claim, and the abstract expander expands it too;
* a dry run counts an expansion and emits `Expanded` for each write it did not make
  (`ExpandPVC` line 336 returns as line 351 does; `docs/METRICS.md:8` calls the count
  successful expansions): `PretendExpansion` and `UpdateSucceeds` return alike;
* an increase of 0% or 0 bytes passes every check, and the claim is written at its own size;
* annotations without `enabled: "true"`, or with one typing error, are dropped as a whole in
  favour of a policy, and a claim that is annotated takes what it leaves out from the flags
  and never from its policy (`README.md:163-167` and `:201`: only specified fields override);
* the group controller raises a member past its max-size (`pvcgroup_controller.go:143`; `docs/guides/annotations.md:68`:
  "Never exceed 1000Gi");
* where the server lets a pending request be lowered, the loop lowers what the group has
  raised, since it computes from the capacity (`persistentvolumeclaim_controller.go:342`);
  the group raises it again;
* `Handle` skips disabled claims (`pvcgroup_webhook.go:48`), `Default`, which is registered,
  does not; a template's `enabled` (`api/v1alpha1/pvcgroup_types.go:19`) is read by neither;
* the webhook reads the group annotation and never writes it (`docs/guides/annotations.md:100`
  says it is set by the webhook);
* a template is copied once: later changes do not reach claims that have it;
* the mutex of a deleted group is removed before it is unlocked, not "after unlock"
  (`pvcgroup_controller.go:59`; deferred calls run last in, first out); no harm is done, as
  the queue hands a group to one worker at a time;
* the single-volume parser reads the first digit of a number with an exponent
  (`pkg/kubelet/metrics.go:46`), the way kubelets write numbers from a million up; only tests
  call it;
* a claim mounted on two nodes gets the capacity of one and the free bytes of the other,
  a percentage neither measured.

**Bounds.** `EditVersions` (users edit a claim only below that version), `MaxTime`,
`GroupVersions` and `MaxChanges` (edits of policies and claims, changes of classes) are the
only bounds; each is a guard of the one action that would otherwise count for ever. Processes
may die at any step and any number of times in every run of a controller. Sizes are bounded by
max-size and claims start at 2 GiB. With 4 and steps of 1 or 2 a claim is expanded
twice: enough for a write on top of a pending one, for a cooldown between two and for the
limit. `one_manager`, which has `RequestIsOneStep`, has 7 and steps of 2 and 3: any two steps
together are more than one, and fit below the limit, so that steps that added up would
show. One edit per claim suffices to
make any copy stale at any place, and a second manager does so repeatedly. Claims interact
in PVCController only through the semaphore, so one claim is enough except in `growth`,
where `growing` names the claim below its limit and the other one fails in every cycle. In
`one_manager` two ticks make a second, so that truncation shows; `two_managers` has one tick
per second and a cooldown of two.
No user resizes a claim in `two_managers`: those writes are in `one_manager`, and the second manager's are what
makes copies stale there. A manager is in dry run or not from the start (`dryRun`), and beside
a manager in dry run another one writes.
Groups need two members, one to be raised and one to be raised to; the group exists at the start or
not, and is created or deleted once (`GroupVersions`). `Templates` has one template in
`one_manager`, where a claim may have none, all or another value of its setting, and is empty
elsewhere. In `operator` the versions start so that users edit only the claim the loop
manages; the other, with a typing error in its annotations, is raised by the group only, and
the story loop expands, storage resizes, group raises the other fits. `MaxTime` is 0 there: the
clock decides cooldowns only, which are `one_manager`'s. One policy suffices in `policies`,
as policies meet only in the queue of one worker. The race in the storage
class cache needs two goroutines; the third one of `classes` finds what the first two left.

**Fairness.** WF for what the Go scheduler, the ticker, informers, the workqueue and the
clock do in any case: goroutines take their next step, the loop lists again, events are
delivered, delays end, resizes finish. SF for a request to a kubelet or the API server to
succeed when it is tried over and over (`FetchMetrics`, `UpdateSucceeds`, `ListMembers`,
`CoordinatePVC`, `UpdateStatus`): it may fail any number of times, not always. SF for `Acquire`: channel sends in Go are
served in order. SF for `PlanExpansion`: a claim that stays over its threshold, listed again
each cycle, is not always dropped by a policy list or storage class read that fails.
SF for `GetPolicy`: the worker takes every queued policy in turn.
No user, failure or restart is required to happen. In `growth`, `group` and `policies` the
process may die any number of times; the SF of a step (that of `UpdateLastExpansion` has no
other reason) means that it does not die at that step every time. `GrowsUnderPressure`
speaks of claims found over their threshold again and again, looked at by a loop that writes;
its conclusion is owed whenever the cooldown is over and the next step within the limit, and
in `growth` the growing claim owes it twice.
`CollectionEnds` assumes nothing of a request that waits except that it returns once its
context is cancelled, which the first failure does (`Cancelled`); a node that hangs while no
request fails holds the loop for ever, since the code sets no timeout on the API server's
node proxy.

## 4. Proofs

Eight modules, one per component, prove every safety property that a passing run checks,
for any numbers of claims, managers, nodes, classes, policies and any bounds:

| module | theorems |
| --- | --- |
| ClusterProofs | `SettingsKept`, `FirstTemplateStays`, `AdmissionIsStable`, `EntryPointsDiffer` |
| PVCControllerProofs | `TypeCorrectness`, `DecisionsHold`, `Refinement`, `CooldownTheorem`, `SettingsTheorem`, `DryRunTheorem`, `OneStepTheorem` |
| GroupControllerProofs | `TypeCorrectness`, `NeverShrink`, `MembersOnly`, `ComesBackTheorem` |
| OperatorProofs | `OperatorInvariance`, `OperatorRefinement`, `OperatorDecisionsHold`, `OperatorCooldown`, `OperatorSettings`, `OperatorOptIn`, `OperatorDryRun`, `OperatorMembersOnly`, `OperatorComesBack` |
| PolicyControllerProofs | `TypeCorrectness`, `SettledTheorem`, `SelectorTheorem` |
| StorageClassesProofs | `TypeCorrectness`, `AllowedTheorem`, `WarningTheorem` |
| SizingProofs | `TypeCorrectness`, `BoundaryTheorem`, `LimitTheorem` |
| KubeletMetricsProofs | `TypeCorrectness`, `UsageTheorem`, `ParsersTheorem` |

In each controller's module, in those of the cache and the collector too, `IInv` is the
inductive invariant and `Invariance` says that it holds always. `TypeOK` is
inductive by itself only in Sizing, PolicyController and KubeletMetrics.

**Assumptions.** Each module names what it assumes of its constants; TLC evaluates the same
formula on every run. They say that constants have their types: settings as written are
integers, `Absent` or `Invalid` (percentages may be `NaN`) and an annotation is a record of its three parts
(`ClusterAssumption`), special values differ from the data they stand beside
(`ConfigAssumption`, `MetricsAssumption`, `ClassAssumption`, `PolicyAssumption`), the sets of claims that
are counted or searched for a largest size are finite (`GroupAssumption`,
`OperatorAssumption`, `PolicyAssumption`), amounts of bytes fit an int64, as their Go types make sure,
and a GiB does and divides 2^63 (`SizingAssumption`). `OneStepTheorem` assumes besides that requests at the
start are a user's or the capacity; a claim with a pending request of unknown origin refutes the property
at once.

**Admission and versions** (ClusterProofs). What a claim has stays, what a template filled
in is not changed by a later one, applying a template twice is applying it once, and the two
entry points differ exactly on disabled members that lack something; all follow from
`Overlay`, which says what one setting becomes. For the other proofs: whatever writes a claim
raises its version unless it changes nothing (`VersionsGrow`), so a copy that was a version
of the claim still is (`StillVersion`), one with the stored version *is* the stored claim.

**PVCController.** `DecisionHolds` is not inductive: it says nothing of copies older than the
stored claim, and a conclusion about the stored claim is lost when that changes. `IInv` says
instead

* `CopiesAreVersions`: a copy has a version no newer than the stored one, and with the
  same version it is the stored claim;
* `CopiesHeld`: a goroutine that has not returned has its copy, and runs only inside a cycle;
* `JobsJustified`: a job has its three parts and was computed from the goroutine's own copy, which `Allows` it and
  keeps allowing it as time passes (`AllowsLater`), and its stamp is a time after the
  cooldown (`StampFits`);
* `DryRunsStopShort`: in dry run no goroutine reaches the stamp or the Update.

An Update is accepted only if the copy's version is the stored one; by
`CopiesAreVersions` the copy is the stored claim, and by `JobsJustified` the write is an
`ExpandNow` of the abstract specification (`CommitIsAtomic`). All other steps leave the
claims alone or are steps of the environment, the same in both. What remains needs no
more than the abstract specification: a stamp changes only in
`ExpandNow`, whose guard is `StampFits` (cooldown); all its steps but a user's keep settings
(`AdmissionKeepsSettings`); a request it writes is one step from the stored capacity, and
the environment changes a request only to a user's or, with the resize done, the capacity
with it.

**GroupController.** Its `IInv` has `CopiesAreVersions` for the informer's claims and for
those Reconcile still has to raise, and `MembersBehind`: the latter were active members
below the size computed, which is a number because the largest of a finite set of requests
is one of them (`MaxIsLargest`, by well-foundedness of strict inclusion). An accepted Update
then raises an active member. The invariant is proved to be kept by the group
controller's own steps *and* by any step of others that lets versions grow (`OtherStep`). `NeverForgotten` is the part of
convergence that is safety: a reconciliation always leaves a delay behind, an error's or
a RequeueAfter's, so that fairness has something to act on; it is inductive beside `IInv`.

**Operator.** That is what makes the two controllers composable: a step of the loop is an
`OtherStep` of the group controller, a step of the group controller is one of the loop's, and the informer's cache
is one variable of both. So both invariants hold together. The refinement needs one fact
more, that a size added up and not yet written is one that somebody asked for
(`AskedSomewhere`); then every step of the operator is a step of AtomicOperator or changes
no claim, under the refinement mapping of `asked`. The instances' definitions are shown equal to the
module's own first (`SameGrowth`, `SameServer`, `SamePromise`).

What reaches the claims is then an `ExpandNow`, a raise of an active member as stored, or a
step of the environment (`ReachesClaims`), and three properties follow from that alone:
stamps stay spaced, settings survive, and a claim that has opted out, as stored, is not
written (`WritesOnlyOptedIn`; opted out as the code understands it: `enabled: "false"` still
resolves). Those about one controller's state are lifted
from that controller's lemma on a step (`DryRunReachesNoClaim`, `MembersOnlyStep`,
`NeverForgottenStep`), since every step of the operator is one of them or an `OtherStep`.
`OperatorDryRun` speaks of the loop: the group controller has no dry run, as run `dry_run`
shows. Two properties of one
controller do not hold for both: requests shrink where the server lets the loop lower what
the group raised, and the group's raises are not one step from the capacity.

**PolicyController.** `SettledIsRight` speaks of the end only. `IInv` follows a count from
the read to the write: the cache and the copy are versions of the policy (`CacheFollows`,
`CopyFollows`); work on a policy that is not queued again is fresh, its object is the cache's, and once counted
its count is right for the claims as cached unless an event was lost (`WorkIsFresh`); and
a policy that waits for nothing has the right count for the claims as cached
(`CountIsFresh`). The two facts that carry it: a claim event leaves the counts alone of
policies it does not concern (`EventsConcern`), and a write that changes the policy makes the cache
stale, so that its delivery queues the policy again.

**StorageClasses.** The two halves of a cache entry may come from two versions of a class,
but each is a version of this cycle (`CacheIsSeen`), since what a goroutine carries from its
read to its writes is (`ReadIsSeen`) and a cycle begins with an empty cache when nobody
runs.

**Sizing.** Each of the two sums of `CalculateNewSize` wraps, if it does, to a negative
number (`Int64Sum`); rounding a negative number never gives a positive one (`RoundUp`); so
a result above the capacity, the only one that is requested and changes it, comes from sums
that did not wrap (`NewSize`). The other way round, when some boundary holds the step, neither sum
wraps: a boundary is a GiB below the next, and the first one past int64 is 2^63
(`Gap`), so that rounding has room; and no boundary is between the sum and the result
(`FitsBelow`). Both ways make the limit exact. A percentage below the range is converted to
the least int64, which is below any min-scale-up as well; one above it was not asked
for (`Asked`).

**KubeletMetrics.** A family of an entry is a number that some goroutine past that family
found, or 0 when none did (`EntriesAreReported`). At the end of a collection that succeeds every
goroutine is past every family, so that the entry is its node's. `Parsers` compares the two
parsers by arithmetic on four numbers.

Nested updates whose `@` refers to an inner record are written out, and `SUBSET` and `UNION`
have parentheses beside `\cup` and `\`, where provers and model checker read them
differently otherwise.

Only model-checked: all liveness (`GrowsUnderPressure`, `CycleCompletes`, `MembersConverge`,
`StatusConverges`, `CountsConverge`, `CollectionEnds`), because TLAPS does not reason about
fairness with ENABLED.

## 5. Not modelled

* `cmd/main.go` beyond which controllers a process runs, `pkg/metrics`, `pkg/utils`, API types, generated code, end-to-end tests:
  wiring, counters, formatting and schema. What start-up decides is in constants.
* Inside the models: a selector is the set of claims or of labels it matches; events, logs and Prometheus values
  are left out; which version of a policy or template is in force is left open; the policy
  controller runs apart from the others, because it writes nothing they read; liveness of the two
  controllers together is not checked (each has its own, in `growth` and `group`); usage is arbitrary in each
  cycle (it does not depend on the size).

## 6. Plan

Done, in this order: PVCConfig and Sizing, Cluster, AtomicExpander and PVCController,
GroupController, StorageClasses, KubeletMetrics, GroupWebhook, AtomicOperator and Operator,
PolicyController, and the proofs of all their safety properties. Next:

1. Liveness of both controllers together, which is out of TLC's reach at the size of `operator`.
2. Leader election. The models let all managers run at once, as they do by default
   (`cmd/main.go:55`); with `--leader-elect` a deposed leader's last writes race the next one's.
