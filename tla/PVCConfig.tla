------------------------------ MODULE PVCConfig ------------------------------
(***************************************************************************)
(* The pure part of package annotations: how the operator turns a claim's  *)
(* annotations, the namespace's policies and the global flags into one     *)
(* configuration, and what it computes from that configuration.            *)
(*                                                                         *)
(* A setting's text is abstracted to what parsing yields: an integer       *)
(* (percent, bytes, ticks), Absent when the key is missing, Invalid when   *)
(* it does not parse.  An increase is a record [kind, amount].             *)
(***************************************************************************)
EXTENDS Integers

CONSTANTS
    Absent,         \* a missing annotation, template field or condition
    Invalid,        \* text that does not parse
    NaN,            \* the percentage "NaN%", which parses and passes the range test
    NotManaged,     \* the error results of ResolvePVCConfig
    GiB,            \* bytes in a GiB: the rounding boundary
    MaxInt64,       \* the largest value of the code's int64
    FloatOverflow,  \* int64(f) of a float above the range, which Go leaves to the platform
    TicksPerSecond  \* clock ticks in one second, the grain of RFC 3339 stamps

MinInt64 == -MaxInt64 - 1

\* The settings a configuration carries besides Enabled and LastExpansion.
Field == {"threshold", "inodesThreshold", "increase", "maxSize", "cooldown", "minScaleUp"}

Increase == [kind : {"percent", "absolute"}, amount : Int]

Percentages == {"threshold", "inodesThreshold"}
Numbers == {"maxSize", "cooldown", "minScaleUp"}

\* Settings as written (annotations, templates), and as a configuration needs them.
WellFormed(set) ==
    /\ set.increase \in Increase \cup {Absent, Invalid}
    /\ \A f \in Percentages : set[f] \in Int \cup {NaN, Absent, Invalid}
    /\ \A f \in Numbers : set[f] \in Int \cup {Absent, Invalid}

Complete(set) ==
    /\ set.increase \in Increase \cup {Invalid}
    /\ \A f \in Percentages : set[f] \in Int \cup {NaN}
    /\ \A f \in Numbers : set[f] \in Int

\* A configuration of one claim; last is nil for a claim that was never expanded.
Configuration == [enabled : BOOLEAN, set : [Field -> Int \cup Increase \cup {NaN, Invalid}],
                  last : Nat \cup {Absent}]

ASSUME ConfigAssumption ==
    /\ GiB \in Nat \ {0}
    /\ MaxInt64 \in Nat
    /\ FloatOverflow \in {MinInt64, MaxInt64}
    /\ TicksPerSecond \in Nat \ {0}
    /\ Absent # Invalid
    /\ Invalid \notin Nat
    /\ NaN \notin Int \cup {Absent, Invalid}
    /\ NotManaged \notin Configuration

-----------------------------------------------------------------------------
(***************************************************************************)
(* Resolution: annotations, then the first matching policy, then nothing.  *)
(* Annotations are [enabled, group, set] with set a function on Field; a   *)
(* policy is [selects, enabled, set], selects the claims its selector      *)
(* matches; a configuration is [enabled, set, last], last LastExpansion.   *)
(***************************************************************************)

\* strings.ToLower on the values of the enabled annotation; any other text is neither.
ToLower(v) == IF v = "True" THEN "true" ELSE IF v = "False" THEN "false" ELSE v

\* A percentage must parse, and must be neither below 0 nor above 100: NaN is neither.
parsePercentage(v) == IF v # Invalid /\ (v = NaN \/ v \in 0..100) THEN v ELSE Invalid

\* An annotation that makes ParsePVCAnnotations fail.  The increase is kept
\* as text and judged only when a new size is computed.
Malformed(f, v) ==
    /\ v # Absent
    /\ \/ f \in Percentages /\ parsePercentage(v) = Invalid
       \/ f \in Numbers /\ v = Invalid

OrDefault(v, default) == IF v = Absent THEN default ELSE v

\* ParsePVCAnnotations: annotations over the global configuration, never the policy.
ParsePVCAnnotations(ann, last, global) ==
    IF \/ ToLower(ann.enabled) # "true"
       \/ \E f \in Field : Malformed(f, ann.set[f])
       \/ last = Invalid
    THEN NotManaged
    ELSE [enabled |-> TRUE,
          set     |-> [f \in Field |-> OrDefault(ann.set[f], global[f])],
          last    |-> last]

\* getThresholdValue: a template percentage that does not parse falls back silently.
TemplateValue(f, v, default) ==
    IF f \in Percentages /\ v # Absent /\ parsePercentage(v) = Invalid
    THEN default
    ELSE OrDefault(v, default)

\* buildConfigFromPolicy: LastExpansion is left nil.
buildConfigFromPolicy(policy, global) ==
    [enabled |-> OrDefault(policy.enabled, TRUE),
     set     |-> [f \in Field |-> TemplateValue(f, policy.set[f], global[f])],
     last    |-> Absent]

\* The configuration of a claim annotated enabled=false: global values, no LastExpansion.
DisabledConfig(global) == [enabled |-> FALSE, set |-> global, last |-> Absent]

(***************************************************************************)
(* ResolvePVCConfig returns the first policy of the list that matches, and *)
(* fails on an invalid selector met before it.  The informer cache lists   *)
(* in no particular order, so the results are a set: one per matching      *)
(* policy, and an error when the list holds an invalid selector, when no   *)
(* policy matches, or when the list itself fails (listOK = FALSE).         *)
(***************************************************************************)
ResolvePVCConfig(pvc, ann, last, policies, global, listOK) ==
    IF ToLower(ann.enabled) = "false" THEN {DisabledConfig(global)}
    ELSE IF ParsePVCAnnotations(ann, last, global) # NotManaged
    THEN {ParsePVCAnnotations(ann, last, global)}
    ELSE LET broken   == {q \in policies : q.selects = Invalid}
             matching == {q \in policies \ broken : pvc \in q.selects}
             failing  == ~listOK \/ broken # {} \/ matching = {}
         IN  (IF failing THEN {NotManaged} ELSE {})
             \cup (IF listOK THEN {buildConfigFromPolicy(q, global) : q \in matching} ELSE {})

\* NewGlobalConfig: zero or negative flags fall back to the built-in defaults.
NewGlobalConfig(flags, builtin) ==
    [f \in Field |->
        CASE f \in {"threshold", "inodesThreshold", "cooldown"} ->
                 IF flags[f] # NaN /\ flags[f] <= 0 THEN builtin[f] ELSE flags[f]
          [] f = "increase"   -> IF flags[f] \in {Absent, Invalid} THEN builtin[f] ELSE flags[f]
          [] f = "minScaleUp" -> IF flags[f] = 0 THEN builtin[f] ELSE flags[f]
          [] f = "maxSize"    -> flags[f]]

-----------------------------------------------------------------------------
(***************************************************************************)
(* What the operator computes from a configuration c.                      *)
(***************************************************************************)

\* Go's division truncates towards zero.
GoDiv(a, b) == IF a >= 0 THEN a \div b ELSE -((-a) \div b)

\* The sum of two int64 wraps at most once.
Int64(x) ==
    IF x > MaxInt64 THEN x - 2 * (MaxInt64 + 1)
    ELSE IF x < MinInt64 THEN x + 2 * (MaxInt64 + 1) ELSE x

\* Below the range amd64 and arm64, for which the program is built, agree; above it amd64
\* gives the least number and arm64 the largest.
FloatToInt64(x) == IF x < MinInt64 THEN MinInt64 ELSE IF x > MaxInt64 THEN FloatOverflow ELSE x

\* The bytes to add: the increase, or the minimum when the increase is smaller.
IncreaseBytes(c, currentSize) ==
    LET increase == IF c.set.increase.kind = "percent"
                    THEN FloatToInt64(GoDiv(currentSize * c.set.increase.amount, 100))
                    ELSE c.set.increase.amount
    IN  IF increase < c.set.minScaleUp THEN c.set.minScaleUp ELSE increase

\* Faults: the sum is rounded in a wider type; one GiB is added to what is full.
RoundUpWide(bytes) == GoDiv(bytes + GiB - 1, GiB) * GiB
RoundUpPast(bytes) == (GoDiv(bytes, GiB) + 1) * GiB

RoundUpToGiB(bytes) == GoDiv(Int64(bytes + GiB - 1), GiB) * GiB

CalculateNewSize(c, currentSize) ==
    IF c.set.increase = Invalid THEN Invalid
    ELSE RoundUpToGiB(Int64(currentSize + IncreaseBytes(c, currentSize)))

\* Fault: a size that is the limit itself is refused.
ExceedsMaxSizeAt(c, newSize) == c.set.maxSize # 0 /\ newSize >= c.set.maxSize

\* A max-size of zero means no limit.
ExceedsMaxSize(c, newSize) == c.set.maxSize # 0 /\ newSize > c.set.maxSize

\* Fault: the last expansion is not looked at.
NeverInCooldown(c, time) == FALSE

IsInCooldown(c, time) == c.last # Absent /\ time - c.last < c.set.cooldown

\* Fault: the stamp is the second before.
RFC3339Early(time) == time - (time % TicksPerSecond) - TicksPerSecond

\* A time written in RFC 3339 loses its fraction of a second (last-expansion, and the
\* times in a status).
RFC3339(time) == time - (time % TicksPerSecond)

=============================================================================
