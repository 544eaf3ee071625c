---------------------------- MODULE KubeletMetrics ----------------------------
(***************************************************************************)
(* MetricsCollector.GetAllVolumeMetrics: one goroutine per node fetches    *)
(* the kubelet's metrics and stores them, one family after the other, into *)
(* a cache they all share; the percentages are computed when all are done. *)
(* Setters of different claims do not meet, so that the metrics of one     *)
(* family are stored in one step.                                          *)
(***************************************************************************)
EXTENDS FiniteSets, Integers

CONSTANTS
    PVC,    \* the claims
    Node,   \* the nodes
    Views,  \* what the kubelets may report: node -> claim -> family -> number or Absent
    Absent  \* nothing there

\* The four families read, in the order in which a goroutine stores them.
Family == {"capacity", "available", "inodes", "inodesUsed"}

Percentages == [storage : Int, inodes : Nat \cup {Absent}]

ASSUME MetricsAssumption ==
    /\ IsFiniteSet(Node)
    /\ Views \subseteq [Node -> [PVC -> [Family -> Nat \cup {Absent}]]]
    /\ Absent \notin Nat /\ Absent \notin [Family -> Nat] /\ Absent \notin Percentages

VARIABLES
    view,    \* what the kubelets report in this collection
    listed,  \* the nodes the collection asks
    pc,      \* node -> where its goroutine is
    data,    \* claim -> the shared cache's entry, or Absent
    outcome, \* "none" yet, "error" or "metrics"
    usage    \* claim -> its usage, once there are metrics

vars == <<view, listed, pc, data, outcome, usage>>

Storing == Family
Ended == {"stored", "failed"}

Init ==
    /\ view \in Views
    /\ listed = {}
    /\ pc = [n \in Node |-> "idle"]
    /\ data = [p \in PVC |-> Absent]
    /\ outcome = "none"
    /\ usage = [p \in PVC |-> Absent]

-----------------------------------------------------------------------------
(***************************************************************************)
(* fetchAllNodeMetrics                                                     *)
(***************************************************************************)

\* No nodes, or no list of them, is an error.
ListNodes ==
    /\ outcome = "none" /\ listed = {}
    /\ \E nodes \in SUBSET Node :
          IF nodes = {}
          THEN outcome' = "error" /\ UNCHANGED <<listed, pc>>
          ELSE /\ listed' = nodes
               /\ pc' = [n \in Node |-> IF n \in nodes THEN "asking" ELSE "idle"]
               /\ UNCHANGED outcome
    /\ UNCHANGED <<view, data, usage>>

NodeAnswers(n) ==
    /\ pc[n] = "asking"
    /\ pc' = [pc EXCEPT ![n] = "capacity"]
    /\ UNCHANGED <<view, listed, data, outcome, usage>>

\* The node does not answer, its answer does not parse, or the failure of another node
\* cancelled the request.  Goroutines that have their answer go on.
NodeFails(n) ==
    /\ pc[n] = "asking"
    /\ pc' = [pc EXCEPT ![n] = "failed"]
    /\ UNCHANGED <<view, listed, data, outcome, usage>>

NoMetrics == [f \in Family |-> 0]

\* Fault: the setter starts a new entry although there is one.
StoredAnew(entry, f, value) ==
    IF value = Absent THEN entry ELSE [NoMetrics EXCEPT ![f] = value]

\* Fault: the families a new entry does not have yet are missing.
StoredSparse(entry, f, value) ==
    IF value = Absent THEN entry
    ELSE IF entry = Absent THEN [g \in Family |-> IF g = f THEN value ELSE Absent]
    ELSE [entry EXCEPT ![f] = value]

\* A setter, called when the node reports the claim in family f: the entry is created
\* by the first, a family nobody reports stays 0.
Stored(entry, f, value) ==
    IF value = Absent THEN entry
    ELSE IF entry = Absent THEN [NoMetrics EXCEPT ![f] = value]
    ELSE [entry EXCEPT ![f] = value]

After(f) ==
    CASE f = "capacity"   -> "available"
      [] f = "available"  -> "inodes"
      [] f = "inodes"     -> "inodesUsed"
      [] f = "inodesUsed" -> "stored"

StoreFamily(n) ==
    /\ pc[n] \in Storing
    /\ data' = [p \in PVC |-> Stored(data[p], pc[n], view[n][p][pc[n]])]
    /\ pc' = [pc EXCEPT ![n] = After(pc[n])]
    /\ UNCHANGED <<view, listed, outcome, usage>>

-----------------------------------------------------------------------------
(***************************************************************************)
(* calculateUsagePercentages: whole percents stand for the floating-point  *)
(* number, which reaches a whole threshold exactly when they do.  Absent   *)
(* inodes are InodesTotal = 0: the inode threshold is not looked at.       *)
(***************************************************************************)
Usage(e) ==
    [storage |-> IF e["capacity"] > 0
                 THEN ((e["capacity"] - e["available"]) * 100) \div e["capacity"] ELSE 0,
     inodes  |-> IF e["inodes"] > 0
                 THEN (e["inodesUsed"] * 100) \div e["inodes"] ELSE Absent]

\* Fault: numbers that contradict each other are taken as they are.
parseUnchecked(e) ==
    IF e["capacity"] = 0 \/ e["available"] = 0 THEN Absent ELSE Usage(e)

Least(a, b) == IF a < b THEN a ELSE b

\* The same for one claim in one kubelet's text, e the digits read there (of a number
\* with an exponent they are the first one only): without a capacity, or without space
\* left, it is not found; more available than there is counts as nothing used, and more
\* inodes used than there are as all of them.
parseVolumeMetrics(e) ==
    IF e["capacity"] = 0 \/ e["available"] = 0 THEN Absent
    ELSE Usage([e EXCEPT !["available"] = Least(@, e["capacity"]),
                         !["inodesUsed"] = Least(@, e["inodes"])])

calculateUsagePercentages == [p \in PVC |-> IF data[p] = Absent THEN Absent ELSE Usage(data[p])]

\* Fault: the collection goes on without the nodes that failed.
WaitForSome ==
    /\ listed # {} /\ outcome = "none"
    /\ \A n \in listed : pc[n] \in Ended
    /\ outcome' = "metrics"
    /\ usage' = calculateUsagePercentages
    /\ UNCHANGED <<view, listed, pc, data>>

\* eg.Wait returns when every goroutine has, with the first error if there was one.
Wait ==
    /\ listed # {} /\ outcome = "none"
    /\ \A n \in listed : pc[n] \in Ended
    /\ IF \E n \in listed : pc[n] = "failed"
       THEN outcome' = "error" /\ UNCHANGED usage
       ELSE outcome' = "metrics" /\ usage' = calculateUsagePercentages
    /\ UNCHANGED <<view, listed, pc, data>>

\* The next cycle collects into a cache of its own.
NextCycle ==
    /\ outcome # "none"
    /\ view' \in Views
    /\ listed' = {}
    /\ pc' = [n \in Node |-> "idle"]
    /\ data' = [p \in PVC |-> Absent]
    /\ outcome' = "none"
    /\ usage' = [p \in PVC |-> Absent]

Next ==
    \/ ListNodes
    \/ \E n \in Node : NodeAnswers(n) \/ NodeFails(n) \/ StoreFamily(n)
    \/ Wait
    \/ NextCycle

Spec == Init /\ [][Next]_vars

\* Fault: the requests get the context of the cycle, not the group's.
NotCancelled(n) == FALSE

\* The first error cancels the context of the requests that are still waiting.
Cancelled(n) == (\E o \in listed : pc[o] = "failed") /\ NodeFails(n)

\* The goroutines run, and a cancelled request returns.  Nothing is assumed of a request
\* that is not cancelled: those through the API server have no timeout of their own.
Fairness ==
    /\ WF_vars(ListNodes) /\ WF_vars(Wait)
    /\ \A n \in Node : WF_vars(Cancelled(n)) /\ WF_vars(StoreFamily(n))

FairSpec == Spec /\ Fairness

-----------------------------------------------------------------------------
(***************************************************************************)
(* Properties                                                              *)
(***************************************************************************)

\* The type invariant.
TypeOK ==
    /\ view \in Views
    /\ listed \subseteq Node
    /\ pc \in [Node -> {"idle", "asking"} \cup Storing \cup Ended]
    /\ data \in [PVC -> [Family -> Nat] \cup {Absent}]
    /\ outcome \in {"none", "error", "metrics"}
    /\ usage \in [PVC -> Percentages \cup {Absent}]

Reported(n, p) == \E f \in Family : view[n][p][f] # Absent

Reporters(p) == {n \in listed : Reported(n, p)}

\* What the node alone says of the claim, a family it does not report being 0.
Entry(n, p) == [f \in Family |-> IF view[n][p][f] = Absent THEN 0 ELSE view[n][p][f]]

\* A collection that succeeds has every claim any asked node reports, with the numbers
\* of that node, or those of all of them when they answer alike (as they do with one
\* URL for all), in whatever order the goroutines stored them and whichever families
\* are missing; a node that failed spoils it whole.
UsageIsTheNodes ==
    outcome = "metrics" => \A p \in PVC :
        /\ usage[p] = Absent <=> Reporters(p) = {}
        /\ \A n \in Reporters(p) :
              (\A r \in Reporters(p) : view[r][p] = view[n][p]) => usage[p] = Usage(Entry(n, p))

Percent(x) == IF x < 0 THEN 0 ELSE Least(x, 100)

\* The two parsers agree on a text that writes its numbers without exponents: what the
\* one for a single claim finds is what a collection has, kept between 0 and 100; what it
\* does not find is full there, or without capacity.
ParsersAgree ==
    outcome = "metrics" => \A p \in PVC, n \in Node : Reporters(p) = {n} =>
        LET found == parseVolumeMetrics(Entry(n, p))
        IN  IF found = Absent THEN usage[p].storage \in {0, 100}
            ELSE /\ found.storage = Percent(usage[p].storage)
                 /\ IF usage[p].inodes = Absent THEN found.inodes = Absent
                    ELSE found.inodes = Percent(usage[p].inodes)

\* A collection in which some request failed ends however long the other nodes hang,
\* and so does one whose requests are all over.  (A node that hangs while no request
\* fails holds the collection up: nothing sets a timeout.)
RequestsOver ==
    /\ listed # {}
    /\ (\E n \in listed : pc[n] = "failed") \/ (\A n \in listed : pc[n] # "asking")

CollectionEnds == RequestsOver ~> (outcome # "none")

=============================================================================
