----------------------------- MODULE ClusterProofs -----------------------------
(***************************************************************************)
(* What every controller may rely on, for any claims, settings and         *)
(* templates: admission keeps a claim's settings, configurations are       *)
(* complete, a changed claim has a new version, and a copy whose version   *)
(* is the stored one is the stored claim.                                  *)
(***************************************************************************)
EXTENDS Cluster, TLAPS

(***************************************************************************)
(* What admission does to a claim's settings.  Every write of a claim      *)
(* passes admission, so that these facts hold along any sequence of writes *)
(* by users and by the operator.                                           *)
(***************************************************************************)

\* Annotations and templates with settings of any kind.
AnnotationsOf(V) == [enabled : V, group : V, set : [Field -> V]]
TemplatesOf(V) == [Field -> V]

\* What admission fills in: a setting that is there stays, one that is not comes from
\* the template.
LEMMA Overlay ==
    ASSUME NEW V, NEW ann \in AnnotationsOf(V), NEW t \in TemplatesOf(V), ann.group # Absent
    PROVE  /\ Default(ann, t) \in AnnotationsOf(V)
           /\ Default(ann, t).enabled = ann.enabled
           /\ Default(ann, t).group = ann.group
           /\ \A f \in Field :
                 Default(ann, t).set[f] = IF ann.set[f] = Absent THEN t[f] ELSE ann.set[f]
<1>1. ann.set \in [Field -> V]
  BY DEF AnnotationsOf
<1> DEFINE extra == getTemplateAnnotations(t, ann.set)
<1>2. \A f \in Field : Overlaid(ann.set, extra)[f] = IF ann.set[f] = Absent THEN t[f] ELSE ann.set[f]
  <2> TAKE f \in Field
  <2>1. DOMAIN extra = {g \in Field : t[g] # Absent /\ ann.set[g] = Absent}
    BY DEF getTemplateAnnotations
  <2>2. CASE f \in DOMAIN extra
    <3>1. extra[f] = t[f]
      BY <2>1, <2>2 DEF getTemplateAnnotations
    <3> QED BY <2>1, <2>2, <3>1 DEF Overlaid
  <2>3. CASE f \notin DOMAIN extra
    BY <2>1, <2>3 DEF Overlaid
  <2> QED BY <2>2, <2>3
<1>3. Overlaid(ann.set, extra) \in [Field -> V]
  BY <1>1, <1>2 DEF Overlaid, TemplatesOf
<1>4. Default(ann, t) = [ann EXCEPT !.set = Overlaid(ann.set, extra)]
  BY DEF Default
<1> HIDE DEF extra
<1> QED BY <1>2, <1>3, <1>4 DEF AnnotationsOf

\* "Only returns annotations that don't already exist": whatever the claim has stays.
THEOREM SettingsKept ==
    ASSUME NEW V, NEW ann \in AnnotationsOf(V), NEW t \in TemplatesOf(V)
    PROVE  \A f \in Field : ann.set[f] # Absent => Default(ann, t).set[f] = ann.set[f]
<1>1. CASE ann.group = Absent
  BY <1>1 DEF Default
<1>2. CASE ann.group # Absent
  BY <1>2, Overlay
<1> QED BY <1>1, <1>2

\* The first template that reaches a claim is frozen: what a later one says of a setting
\* does not matter, be it the group's own after an edit or that of another group.
THEOREM FirstTemplateStays ==
    ASSUME NEW V, NEW ann \in AnnotationsOf(V), NEW t \in TemplatesOf(V), NEW u \in TemplatesOf(V)
    PROVE  \A f \in Field :
              t[f] # Absent => Default(Default(ann, t), u).set[f] = Default(ann, t).set[f]
<1>1. CASE ann.group = Absent
  BY <1>1 DEF Default
<1>2. CASE ann.group # Absent
  <2>1. /\ Default(ann, t) \in AnnotationsOf(V)
        /\ \A f \in Field : t[f] # Absent => Default(ann, t).set[f] # Absent
    BY <1>2, Overlay
  <2> QED BY <2>1, SettingsKept
<1> QED BY <1>1, <1>2

\* Admission is stable: a write of a claim that has been through admission, such as the
\* operator's Update of a copy, is not changed again by the same template.
THEOREM AdmissionIsStable ==
    ASSUME NEW V, NEW ann \in AnnotationsOf(V), NEW t \in TemplatesOf(V)
    PROVE  Default(Default(ann, t), t) = Default(ann, t)
<1>1. CASE ann.group = Absent
  BY <1>1 DEF Default
<1>2. CASE ann.group # Absent
  <2> DEFINE once == Default(ann, t)
             twice == Default(once, t)
  <2>1. /\ once \in AnnotationsOf(V) /\ once.group # Absent
        /\ \A f \in Field : once.set[f] = IF ann.set[f] = Absent THEN t[f] ELSE ann.set[f]
    BY <1>2, Overlay
  <2> HIDE DEF once
  <2>2. /\ twice \in AnnotationsOf(V)
        /\ twice.enabled = once.enabled /\ twice.group = once.group
        /\ \A f \in Field : twice.set[f] = IF once.set[f] = Absent THEN t[f] ELSE once.set[f]
    BY <2>1, Overlay
  <2> HIDE DEF twice
  <2>3. \A f \in Field : twice.set[f] = once.set[f]
    BY <2>1, <2>2
  <2>4. twice.set = once.set
    BY <2>1, <2>2, <2>3 DEF AnnotationsOf
  <2>5. twice = once
    BY <2>1, <2>2, <2>4 DEF AnnotationsOf
  <2> QED BY <2>5 DEF twice, once
<1> QED BY <1>1, <1>2

\* The entry point that is registered and the one that tests call differ on one kind of
\* claim only: those annotated "false", which Default fills in and Handle leaves out.
THEOREM EntryPointsDiffer ==
    ASSUME NEW V, NEW ann \in AnnotationsOf(V), NEW t \in TemplatesOf(V)
    PROVE  Handle(ann, t) # Default(ann, t) <=>
              /\ ann.enabled = "false" /\ ann.group # Absent
              /\ \E f \in Field : ann.set[f] = Absent /\ t[f] # Absent
<1>1. CASE ann.enabled # "false" \/ ann.group = Absent
  BY <1>1 DEF Handle, Default
<1>2. CASE ann.enabled = "false" /\ ann.group # Absent
  <2>1. Handle(ann, t) = ann
    BY <1>2 DEF Handle
  <2> DEFINE once == Default(ann, t)
  <2>2. /\ once \in AnnotationsOf(V)
        /\ once.enabled = ann.enabled /\ once.group = ann.group
        /\ \A f \in Field : once.set[f] = IF ann.set[f] = Absent THEN t[f] ELSE ann.set[f]
    BY <1>2, Overlay
  <2> HIDE DEF once
  <2>3. CASE \E f \in Field : ann.set[f] = Absent /\ t[f] # Absent
    <3>1. PICK f \in Field : ann.set[f] = Absent /\ t[f] # Absent
      BY <2>3
    <3>2. once.set[f] # ann.set[f]
      BY <2>2, <3>1
    <3> QED BY <1>2, <2>1, <3>1, <3>2 DEF once
  <2>4. CASE ~\E f \in Field : ann.set[f] = Absent /\ t[f] # Absent
    <3>1. \A f \in Field : once.set[f] = ann.set[f]
      BY <2>2, <2>4
    <3>2. once.set = ann.set
      BY <2>2, <3>1 DEF AnnotationsOf
    <3>3. once = ann
      BY <2>2, <3>2 DEF AnnotationsOf
    <3> QED BY <2>1, <2>4, <3>3 DEF once
  <2> QED BY <2>3, <2>4
<1> QED BY <1>1, <1>2

-----------------------------------------------------------------------------
(***************************************************************************)
(* Versions                                                                *)
(***************************************************************************)

\* A copy is an earlier version of the stored object, or that object.
IsVersionOf(old, stored) ==
    /\ old.rv <= stored.rv
    /\ old.rv = stored.rv => old = stored

\* What every step does to the server and the clock.
VersionsGrow ==
    /\ api' \in [PVC -> Object]
    /\ now' \in Nat /\ now' >= now
    /\ \A p \in PVC : api'[p] = api[p] \/ api'[p].rv > api[p].rv

\* Old copies stay versions of an object whose versions grow.
LEMMA StillVersion ==
    ASSUME NEW old \in Object, NEW p \in PVC, api \in [PVC -> Object], VersionsGrow,
           IsVersionOf(old, api[p])
    PROVE  IsVersionOf(old, api'[p])
BY DEF VersionsGrow, IsVersionOf, Object

-----------------------------------------------------------------------------
(***************************************************************************)
(* Lemmas about configurations and sizes                                   *)
(***************************************************************************)

\* Whatever ResolvePVCConfig returns has every setting, and a last expansion that is
\* absent or a time.
LEMMA ResolvedConfig ==
    ASSUME NEW p \in PVC, NEW o, o.ann \in Annotations, o.last \in Nat \cup {Absent},
           NEW c \in Resolved(p, o), c # NotManaged
    PROVE  Complete(c.set) /\ c.last \in Nat \cup {Absent}
<1> USE ClusterAssumption
<1>1. Complete(Global) /\ WellFormed(o.ann.set)
    BY DEF ClusterAssumption
<1>2. ASSUME c = DisabledConfig(Global)
      PROVE  Complete(c.set) /\ c.last \in Nat \cup {Absent}
    BY <1>1, <1>2 DEF DisabledConfig
<1>3. ASSUME c = ParsePVCAnnotations(o.ann, o.last, Global)
      PROVE  Complete(c.set) /\ c.last \in Nat \cup {Absent}
    <2>1. /\ c = [enabled |-> TRUE,
                  set     |-> [f \in Field |-> OrDefault(o.ann.set[f], Global[f])],
                  last    |-> o.last]
          /\ \A f \in Field : ~Malformed(f, o.ann.set[f])
        BY <1>3, c # NotManaged DEF ParsePVCAnnotations
    <2>2. Complete(c.set)
        BY <1>1, <2>1 DEF Complete, WellFormed, OrDefault, Malformed, Field, Percentages, Numbers, parsePercentage
    <2> QED BY <2>1, <2>2
<1>4. ASSUME NEW q \in Policies, c = buildConfigFromPolicy(q, Global)
      PROVE  Complete(c.set) /\ c.last \in Nat \cup {Absent}
    <2>1. WellFormed(q.set) /\ \A f \in Numbers : q.set[f] # Invalid
        BY DEF ClusterAssumption
    <2>2. Complete(c.set)
        BY <1>1, <1>4, <2>1
        DEF buildConfigFromPolicy, TemplateValue, Complete, WellFormed, OrDefault, Field, Percentages, Numbers,
            parsePercentage
    <2> QED BY <1>4, <2>2 DEF buildConfigFromPolicy
<1>5. \/ c = DisabledConfig(Global)
      \/ c = ParsePVCAnnotations(o.ann, o.last, Global)
      \/ \E q \in Policies : c = buildConfigFromPolicy(q, Global)
    BY c # NotManaged DEF Resolved, ResolvePVCConfig
<1> QED BY <1>2, <1>3, <1>4, <1>5

\* CalculateNewSize returns a number of bytes unless the increase does not parse.
LEMMA NewSizeIsInt ==
    ASSUME NEW c, Complete(c.set), NEW size \in Int, CalculateNewSize(c, size) # Invalid
    PROVE  CalculateNewSize(c, size) \in Int
<1> USE ConfigAssumption DEF ConfigAssumption, MinInt64
<1>1. /\ c.set.increase.amount \in Int
      /\ c.set.minScaleUp \in Int
    BY DEF Complete, Increase, CalculateNewSize, Numbers
<1>2. \A a, b \in Int : b > 0 => GoDiv(a, b) \in Int
    BY DEF GoDiv
<1>3. \A x \in Int : Int64(x) \in Int /\ FloatToInt64(x) \in Int
    BY DEF Int64, FloatToInt64
<1>4. IncreaseBytes(c, size) \in Int
    <2>1. GoDiv(size * c.set.increase.amount, 100) \in Int
        BY <1>1, <1>2
    <2> QED BY <1>1, <1>3, <2>1 DEF IncreaseBytes
<1>5. \A x \in Int : RoundUpToGiB(x) \in Int
    <2> SUFFICES ASSUME NEW x \in Int PROVE RoundUpToGiB(x) \in Int
        OBVIOUS
    <2>1. Int64(x + GiB - 1) \in Int
        BY <1>3
    <2>2. GoDiv(Int64(x + GiB - 1), GiB) \in Int
        BY <1>2, <2>1
    <2> QED BY <2>2 DEF RoundUpToGiB
<1> QED BY <1>3, <1>4, <1>5 DEF CalculateNewSize

\* A time in RFC 3339 is the second it falls in.
LEMMA RFC3339Second ==
    ASSUME NEW t \in Nat
    PROVE  RFC3339(t) \in Nat /\ t - TicksPerSecond < RFC3339(t) /\ RFC3339(t) <= t
<1>1. /\ TicksPerSecond \in Nat \ {0}
      /\ t % TicksPerSecond \in 0..(TicksPerSecond - 1)
    BY ConfigAssumption DEF ConfigAssumption
<1>2. t % TicksPerSecond <= t
    BY <1>1
<1> QED BY <1>1, <1>2 DEF RFC3339

-----------------------------------------------------------------------------
(***************************************************************************)
(* Writes                                                                  *)
(***************************************************************************)

\* Admission leaves annotations a claim may have.
LEMMA AdmissionCloses ==
    ASSUME NEW a \in Annotations
    PROVE  Admission(a) \subseteq Annotations
BY ClusterAssumption DEF ClusterAssumption, Admission

\* A write that changes an object gives it a new version.
LEMMA WrittenGrows ==
    ASSUME NEW o \in Object, NEW req \in Nat, NEW stamp \in Nat \cup {Absent},
           NEW w \in Written(o, req, stamp)
    PROVE  /\ w \in Object
           /\ w = o \/ w.rv > o.rv
<1>1. PICK a \in Admission(o.ann) :
        w = IF req = o.req /\ stamp = o.last /\ a = o.ann THEN o
            ELSE [o EXCEPT !.req = req, !.last = stamp, !.ann = a, !.rv = @ + 1]
    BY DEF Written
<1>2. a \in Annotations
    BY AdmissionCloses DEF Object
<1>3. CASE req = o.req /\ stamp = o.last /\ a = o.ann
    BY <1>1, <1>3
<1>4. CASE ~(req = o.req /\ stamp = o.last /\ a = o.ann)
    <2>1. w = [rv |-> o.rv + 1, req |-> req, cap |-> o.cap, resizing |-> o.resizing,
               bound |-> o.bound, ann |-> a, last |-> stamp]
        BY <1>1, <1>4 DEF Object
    <2> QED BY <1>2, <2>1 DEF Object
<1> QED BY <1>3, <1>4

\* Every step of users, clock and storage layer gives a changed claim a new version.
LEMMA EnvironmentGrows ==
    ASSUME ClusterTypeOK, Environment
    PROVE  VersionsGrow
<1> USE ClusterAssumption DEF ClusterTypeOK, VersionsGrow
<1>1. CASE Tick
    BY <1>1 DEF Tick
<1>2. ASSUME NEW p \in PVC, Annotate(p) PROVE VersionsGrow
    BY <1>2 DEF Annotate, Object
<1>3. ASSUME NEW p \in PVC, UserResize(p) PROVE VersionsGrow
    <2>1. PICK size \in UserSizes :
            /\ size > api[p].cap \/ size >= api[p].req
            /\ \E w \in Written(api[p], size, api[p].last) : api' = [api EXCEPT ![p] = w] /\ now' = now
        BY <1>3 DEF UserResize, Accepts
    <2>2. /\ api[p] \in Object /\ size \in Nat
          /\ api[p].last \in Nat \cup {Absent}
        BY <2>1 DEF Object, ClusterAssumption
    <2>3. \A w \in Written(api[p], size, api[p].last) : w \in Object /\ (w = api[p] \/ w.rv > api[p].rv)
        BY <2>2, WrittenGrows
    <2> QED BY <2>1, <2>3
<1>4. ASSUME NEW p \in PVC, PhaseChange(p) PROVE VersionsGrow
    BY <1>4 DEF PhaseChange, Object
<1>5. ASSUME NEW p \in PVC, ResizeStarts(p) PROVE VersionsGrow
    BY <1>5 DEF ResizeStarts, Object
<1>6. ASSUME NEW p \in PVC, ResizeFinishes(p) PROVE VersionsGrow
    BY <1>6 DEF ResizeFinishes, Object
<1> QED BY <1>1, <1>2, <1>3, <1>4, <1>5, <1>6 DEF Environment

\* A write asks for the size it was given.
LEMMA WrittenRequest ==
    ASSUME NEW o \in Object, NEW req, NEW stamp, NEW w \in Written(o, req, stamp)
    PROVE  w.req = req
BY DEF Written, Object

\* Nobody but a user lowers a request, and only that of the claim at hand.
LEMMA EnvironmentNeverShrinks ==
    ASSUME ClusterTypeOK, Environment
    PROVE  \A p \in PVC : api'[p].req >= api[p].req \/ UserResize(p)
<1> USE DEF ClusterTypeOK
<1>1. \A p \in PVC : api[p].req \in Nat /\ api[p] \in Object
    BY DEF Object
<1>2. ASSUME NEW p \in PVC, UserResize(p)
      PROVE  \A r \in PVC \ {p} : api'[r].req = api[r].req
    BY <1>1, <1>2 DEF UserResize
<1>3. ASSUME NEW p \in PVC, Annotate(p) \/ PhaseChange(p) \/ ResizeStarts(p) \/ ResizeFinishes(p)
      PROVE  \A r \in PVC : api'[r].req = api[r].req
    <2>1. CASE Annotate(p)
        BY <1>1, <2>1 DEF Annotate, Object
    <2>2. CASE PhaseChange(p)
        BY <1>1, <2>2 DEF PhaseChange, Object
    <2>3. CASE ResizeStarts(p)
        BY <1>1, <2>3 DEF ResizeStarts, Object
    <2>4. CASE ResizeFinishes(p)
        BY <1>1, <2>4 DEF ResizeFinishes, Object
    <2> QED BY <1>3, <2>1, <2>2, <2>3, <2>4
<1>4. CASE Tick
    BY <1>1, <1>4 DEF Tick
<1>5. CASE \E p \in PVC : UserResize(p)
    BY <1>1, <1>2, <1>5
<1> QED BY <1>1, <1>3, <1>4, <1>5 DEF Environment

\* What a claim's annotations say is still said: admission may only have added to it.
KeepsSettings(a, b) ==
    /\ b.enabled = a.enabled /\ b.group = a.group
    /\ \A f \in Field : a.set[f] # Absent => b.set[f] = a.set[f]

LEMMA AdmissionKeepsSettings ==
    ASSUME NEW a \in Annotations, NEW b \in Admission(a)
    PROVE  KeepsSettings(a, b)
<1>1. CASE b = a
    BY <1>1 DEF KeepsSettings
<1>2. ASSUME NEW t \in Templates, b = Default(a, t), a.group # Absent
      PROVE  KeepsSettings(a, b)
    <2> DEFINE extra == getTemplateAnnotations(t, a.set)
    <2>1. \A f \in Field : a.set[f] # Absent => f \notin DOMAIN extra
        BY DEF getTemplateAnnotations
    <2>2. \A f \in Field : a.set[f] # Absent => Overlaid(a.set, extra)[f] = a.set[f]
        BY <2>1 DEF Overlaid
    <2>3. b = [a EXCEPT !.set = Overlaid(a.set, extra)]
        BY <1>2 DEF Default
    <2>4. DOMAIN a = {"enabled", "group", "set"}
        BY ClusterAssumption DEF ClusterAssumption
    <2> HIDE DEF extra
    <2>5. b.set = Overlaid(a.set, extra) /\ b.enabled = a.enabled /\ b.group = a.group
        BY <2>3, <2>4
    <2> QED BY <2>2, <2>5 DEF KeepsSettings
<1> QED BY <1>1, <1>2 DEF Admission, Default

\* A write carries the settings of the copy it was made from.
LEMMA WriteKeepsSettings ==
    ASSUME ClusterTypeOK, NEW p \in PVC, NEW q \in PVC, NEW req, NEW stamp,
           NEW w \in Written(api[p], req, stamp), api' = [api EXCEPT ![p] = w]
    PROVE  KeepsSettings(api[q].ann, api'[q].ann)
<1>1. /\ api \in [PVC -> Object]
      /\ api[p] \in Object /\ api[p].ann \in Annotations
      /\ api[q] \in Object /\ api[q].ann \in Annotations
    BY DEF ClusterTypeOK, Object
<1>2. w.ann \in Admission(api[p].ann) \cup {api[p].ann}
    BY <1>1 DEF Written, Object
<1>3. KeepsSettings(api[p].ann, w.ann)
    BY <1>1, <1>2, AdmissionKeepsSettings DEF Admission
<1>4. KeepsSettings(api[q].ann, api[q].ann)
    BY DEF KeepsSettings
<1> QED BY <1>1, <1>3, <1>4

\* Only the edit of its own annotations takes a setting from a claim.
LEMMA EnvironmentKeepsSettings ==
    ASSUME ClusterTypeOK, Environment, NEW p \in PVC, ~Annotate(p)
    PROVE  KeepsSettings(api[p].ann, api'[p].ann)
<1>1. api \in [PVC -> Object] /\ \A q \in PVC : api[q] \in Object
    BY DEF ClusterTypeOK
<1>2. ASSUME NEW q \in PVC, UserResize(q) PROVE KeepsSettings(api[p].ann, api'[p].ann)
    <2>1. PICK size \in UserSizes :
            \E w \in Written(api[q], size, api[q].last) : api' = [api EXCEPT ![q] = w]
        BY <1>2 DEF UserResize
    <2> QED BY <2>1, WriteKeepsSettings
<1>3. api'[p].ann = api[p].ann => KeepsSettings(api[p].ann, api'[p].ann)
    BY DEF KeepsSettings
<1>4. ASSUME NEW q \in PVC, Annotate(q) PROVE api'[p].ann = api[p].ann
    BY <1>1, <1>4 DEF Annotate
<1>5. ASSUME NEW q \in PVC, PhaseChange(q) PROVE api'[p].ann = api[p].ann
    BY <1>1, <1>5 DEF PhaseChange, Object
<1>6. ASSUME NEW q \in PVC, ResizeStarts(q) PROVE api'[p].ann = api[p].ann
    BY <1>1, <1>6 DEF ResizeStarts, Object
<1>7. ASSUME NEW q \in PVC, ResizeFinishes(q) PROVE api'[p].ann = api[p].ann
    BY <1>1, <1>7 DEF ResizeFinishes, Object
<1>8. Tick => api' = api
    BY DEF Tick
<1> QED BY <1>2, <1>3, <1>4, <1>5, <1>6, <1>7, <1>8 DEF Environment

=============================================================================
