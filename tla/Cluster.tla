------------------------------- MODULE Cluster -------------------------------
(***************************************************************************)
(* What the operator meets: claims stored by the Kubernetes API server     *)
(* with optimistic concurrency, the clock, and everybody else who changes  *)
(* a claim (users, the storage layer that carries out a resize).  None of  *)
(* this is the repository's code; it is modelled from the fields and calls *)
(* the controllers use.                                                    *)
(***************************************************************************)
EXTENDS GroupWebhook

CONSTANTS
    PVC,            \* the claims
    Annotations,    \* the annotation maps a user may put on a claim
    Policies,       \* the PVCPolicy objects of the namespace, in every version
    Templates,      \* the templates groups have or get; {} without the webhook
    Global,         \* the configuration built from the flags
    Filesystem,     \* claim -> whether its volume mode is Filesystem (or unset)
    Expandable,     \* claim -> whether its storage class allows volume expansion
    Objects,        \* the claims' initial states
    UserSizes,      \* the sizes users ask for by editing a claim themselves
    RecoverResize,  \* the server lets a pending request be lowered (Kubernetes 1.32 on)
    EditVersions,   \* bound: users edit a claim only below this version
    MaxTime         \* bound: the clock stops here

VARIABLES
    api,  \* claim -> the object the API server stores
    now   \* the clock, in ticks

clusterVars == <<api, now>>

\* rv: resourceVersion; req: spec.resources.requests.storage; cap: status.capacity;
\* resizing: condition Resizing or FileSystemResizePending is True; bound: phase Bound;
\* ann, last: the user's annotations and the
\* operator's last-expansion.
Object == [rv : Nat, req : Nat, cap : Nat, resizing : BOOLEAN, bound : BOOLEAN,
           ann : Annotations, last : Nat \cup {Absent}]

ASSUME ClusterAssumption ==
    /\ Objects \subseteq [PVC -> Object]
    /\ \A a \in Annotations : DOMAIN a = {"enabled", "group", "set"} /\ WellFormed(a.set)
    /\ \A a \in Annotations, t \in Templates : Default(a, t) \in Annotations
    /\ \A q \in Policies :
          /\ WellFormed(q.set)
          /\ \A f \in Numbers : q.set[f] # Invalid
    /\ Complete(Global)
    /\ {Filesystem, Expandable} \subseteq [PVC -> BOOLEAN]
    /\ UserSizes \subseteq Int
    /\ RecoverResize \in BOOLEAN
    /\ EditVersions \in Nat
    /\ MaxTime \in Nat
    /\ Absent \notin Nat

ClusterInit ==
    /\ api \in Objects
    /\ now = 0

ClusterTypeOK ==
    /\ api \in [PVC -> Object]
    /\ now \in Nat

\* The configurations ResolvePVCConfig may give a claim read as o.
Resolved(p, o) ==
    UNION {ResolvePVCConfig(p, o.ann, o.last, Policies, Global, listOK) : listOK \in BOOLEAN}

-----------------------------------------------------------------------------
\* Update of claim p from the copy base: refused on a version conflict, when the claim
\* is not bound and the request changes, and when the request shrinks (or, with
\* RecoverResize, shrinks to the capacity or below).
Accepts(p, base, newReq) ==
    /\ base.rv = api[p].rv
    /\ newReq = api[p].req \/ api[p].bound
    /\ \/ newReq >= api[p].req
       \/ RecoverResize /\ newReq > api[p].cap

\* What admission makes of the annotations in a write.  They stay as they are when the
\* webhook is off or out of reach (failurePolicy Ignore) and when no group is found; the
\* group's template is the one in the webhook's cache, whichever it has come to.
Admission(ann) == {ann} \cup {Default(ann, t) : t \in Templates}

\* The object after a write; a write that changes nothing keeps its version.
Written(base, newReq, stamp) ==
    {IF newReq = base.req /\ stamp = base.last /\ a = base.ann THEN base
     ELSE [base EXCEPT !.req = newReq, !.last = stamp, !.ann = a, !.rv = @ + 1] :
        a \in Admission(base.ann)}

Tick ==
    /\ now < MaxTime
    /\ now' = now + 1
    /\ UNCHANGED api

\* A user edits the annotations of a claim; what admission adds is in Annotations.
Annotate(p) ==
    /\ api[p].rv < EditVersions
    /\ \E a \in Annotations \ {api[p].ann} :
          api' = [api EXCEPT ![p].ann = a, ![p].rv = @ + 1]
    /\ UNCHANGED now

\* A user asks for another size by hand, a smaller one where the server lets a pending
\* request be lowered.
UserResize(p) ==
    /\ api[p].rv < EditVersions
    /\ \E s \in UserSizes :
          /\ s # api[p].req /\ Accepts(p, api[p], s)
          /\ \E w \in Written(api[p], s, api[p].last) : api' = [api EXCEPT ![p] = w]
    /\ UNCHANGED now

\* The claim is lost, or bound (again).
PhaseChange(p) ==
    /\ api[p].rv < EditVersions
    /\ api' = [api EXCEPT ![p].bound = ~@, ![p].rv = @ + 1]
    /\ UNCHANGED now

\* The storage layer announces a resize before it carries it out...
ResizeStarts(p) ==
    /\ api[p].req > api[p].cap
    /\ ~api[p].resizing
    /\ api' = [api EXCEPT ![p].resizing = TRUE, ![p].rv = @ + 1]
    /\ UNCHANGED now

\* ...or carries it out at once; the capacity becomes what was requested.
ResizeFinishes(p) ==
    /\ api[p].req > api[p].cap
    /\ api' = [api EXCEPT ![p].cap = api[p].req, ![p].resizing = FALSE, ![p].rv = @ + 1]
    /\ UNCHANGED now

Environment ==
    \/ Tick
    \/ \E p \in PVC : \/ Annotate(p)
                      \/ UserResize(p)
                      \/ PhaseChange(p)
                      \/ ResizeStarts(p)
                      \/ ResizeFinishes(p)

=============================================================================
