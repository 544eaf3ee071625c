------------------------ MODULE KubeletMetricsProofs ------------------------
(***************************************************************************)
(* A collection that succeeds has the nodes' own numbers, for any number   *)
(* of claims and nodes, whatever these report.  The argument: at any time  *)
(* a family of a claim's entry is a number that some goroutine past that   *)
(* family found in its node's answer, or 0 when none of them found one;    *)
(* a collection succeeds when every goroutine is past every family.        *)
(***************************************************************************)
EXTENDS KubeletMetrics, TLAPS

\* The families a goroutine stores after the one it is at.
Later(f) ==
    CASE f = "capacity"  -> {"available", "inodes", "inodesUsed"}
      [] f = "available" -> {"inodes", "inodesUsed"}
      [] f = "inodes"    -> {"inodesUsed"}
      [] OTHER           -> {}

\* The goroutine of node n is past family f.
Past(n, f) == pc[n] = "stored" \/ (pc[n] \in Family /\ f # pc[n] /\ f \notin Later(pc[n]))

\* The families of a claim that are stored by node n so far.
Found(n, p, f) == Past(n, f) /\ view[n][p][f] # Absent

AskedAreListed == \A n \in Node : pc[n] = "idle" <=> n \notin listed

\* When the collection has its outcome, no goroutine runs.
EndedAtEnd == outcome # "none" => \A n \in Node : pc[n] \in {"idle"} \cup Ended

FromSome(p, f) == \E n \in Node : Found(n, p, f) /\ data[p][f] = view[n][p][f]
FromNone(p, f) == data[p][f] = 0 /\ \A n \in Node : ~Found(n, p, f)

EntriesAreReported ==
    \A p \in PVC :
        IF data[p] = Absent THEN \A n \in Node, f \in Family : ~Found(n, p, f)
        ELSE /\ \E n \in Node, f \in Family : Found(n, p, f)
             /\ \A f \in Family : FromSome(p, f) \/ FromNone(p, f)

\* The inductive invariant.
IInv ==
    /\ TypeOK
    /\ AskedAreListed /\ EndedAtEnd /\ EntriesAreReported
    /\ UsageIsTheNodes

-----------------------------------------------------------------------------
(***************************************************************************)
(* Percentages                                                             *)
(***************************************************************************)

LEMMA Quotient ==
    ASSUME NEW a \in Int, NEW b \in Nat \ {0}
    PROVE  /\ a \div b \in Int
           /\ b * (a \div b) <= a /\ a < b * (a \div b) + b
OBVIOUS

\* Whole percents of a whole: below, within and above it.
LEMMA Percents ==
    ASSUME NEW a \in Int, NEW b \in Nat \ {0}
    PROVE  /\ (a * 100) \div b \in Int
           /\ a < 0 => (a * 100) \div b < 0
           /\ a >= 0 => (a * 100) \div b >= 0
           /\ a <= b => (a * 100) \div b <= 100
           /\ a >= b => (a * 100) \div b >= 100
           /\ a = b => (a * 100) \div b = 100
           /\ a = 0 => (a * 100) \div b = 0
<1> DEFINE q == (a * 100) \div b
<1>1. q \in Int /\ b * q <= a * 100 /\ a * 100 < b * q + b
    BY Quotient
<1> HIDE DEF q
<1>2. q >= 0 => b * q >= 0
    BY <1>1
<1>3. q <= -1 => b * q <= -b
    BY <1>1
<1>4. q >= 101 => b * q >= b * 101
    BY <1>1
<1>5. q <= 99 => b * q <= b * 99
    BY <1>1
<1>6. q >= 1 => b * q >= b
    BY <1>1
<1>7. /\ a < 0 => q < 0
      /\ a >= 0 => q >= 0
    BY <1>1, <1>2, <1>3
<1>8. /\ a <= b => q <= 100
      /\ a >= b => q >= 100
    BY <1>1, <1>4, <1>5
<1>9. a = 0 => q <= 0
    BY <1>1, <1>6
<1> QED BY <1>1, <1>7, <1>8, <1>9 DEF q

LEMMA UsageType ==
    ASSUME NEW e \in [Family -> Nat]
    PROVE  /\ Usage(e) \in Percentages /\ Usage(e) # Absent
           /\ Usage(e).inodes = Absent <=> e["inodes"] = 0
<1>1. /\ e["capacity"] \in Nat /\ e["available"] \in Nat
      /\ e["inodes"] \in Nat /\ e["inodesUsed"] \in Nat
    BY DEF Family
<1>2. e["capacity"] > 0 => ((e["capacity"] - e["available"]) * 100) \div e["capacity"] \in Int
    BY <1>1, Percents
<1>3. e["inodes"] > 0 => (e["inodesUsed"] * 100) \div e["inodes"] \in Nat
    BY <1>1, Percents
<1>4. Usage(e) \in Percentages /\ (Usage(e).inodes = Absent <=> e["inodes"] = 0)
    BY <1>1, <1>2, <1>3, MetricsAssumption DEF Usage, Percentages
<1> QED BY <1>4, MetricsAssumption

\* The parser of a single claim against the percentages of a collection.
LEMMA Parsers ==
    ASSUME NEW e \in [Family -> Nat]
    PROVE  LET found == parseVolumeMetrics(e)
           IN  IF found = Absent THEN Usage(e).storage \in {0, 100}
               ELSE /\ found.storage = Percent(Usage(e).storage)
                    /\ IF Usage(e).inodes = Absent THEN found.inodes = Absent
                       ELSE found.inodes = Percent(Usage(e).inodes)
<1> DEFINE cap == e["capacity"]
           avail == e["available"]
           total == e["inodes"]
           used == e["inodesUsed"]
           kept == [e EXCEPT !["available"] = Least(avail, cap),
                             !["inodesUsed"] = Least(used, total)]
<1>1. cap \in Nat /\ avail \in Nat /\ total \in Nat /\ used \in Nat
    BY DEF Family
<1>2. /\ kept \in [Family -> Nat]
      /\ kept["capacity"] = cap /\ kept["available"] = Least(avail, cap)
      /\ kept["inodes"] = total /\ kept["inodesUsed"] = Least(used, total)
    BY <1>1 DEF Least, Family
<1>3. /\ Usage(e).storage = IF cap > 0 THEN ((cap - avail) * 100) \div cap ELSE 0
      /\ Usage(e).inodes = IF total > 0 THEN (used * 100) \div total ELSE Absent
    BY DEF Usage
<1>4. /\ Usage(kept).storage = IF cap > 0 THEN ((cap - Least(avail, cap)) * 100) \div cap ELSE 0
      /\ Usage(kept).inodes =
            IF total > 0 THEN (Least(used, total) * 100) \div total ELSE Absent
    <2> HIDE DEF kept, cap, avail, total, used
    <2> QED BY <1>2 DEF Usage
<1>5. parseVolumeMetrics(e) = IF cap = 0 \/ avail = 0 THEN Absent ELSE Usage(kept)
    BY DEF parseVolumeMetrics
<1>6. Usage(kept) # Absent
    BY <1>2, UsageType
<1>7. Usage(e).inodes = Absent <=> total = 0
    BY UsageType
<1> HIDE DEF kept, cap, avail, total, used
<1>8. CASE cap = 0 \/ avail = 0
    <2>1. cap # 0 /\ avail = 0 => Usage(e).storage = 100
        BY <1>1, <1>3, Percents
    <2>2. cap = 0 => Usage(e).storage = 0
        BY <1>3
    <2> QED BY <1>5, <1>8, <2>1, <2>2
<1>9. CASE cap # 0 /\ avail # 0
    <2>1. Usage(kept).storage = Percent(Usage(e).storage)
        <3>1. CASE avail <= cap
            <4>1. Least(avail, cap) = avail
                BY <1>1, <3>1 DEF Least
            <4>2. ((cap - avail) * 100) \div cap \in 0..100
                BY <1>1, <1>9, <3>1, Percents
            <4> QED BY <1>1, <1>3, <1>4, <1>9, <4>1, <4>2 DEF Percent, Least
        <3>2. CASE avail > cap
            <4>1. cap - Least(avail, cap) = 0
                BY <1>1, <3>2 DEF Least
            <4>2. Usage(kept).storage = 0
                BY <1>1, <1>4, <1>9, <4>1, Percents
            <4>3. ((cap - avail) * 100) \div cap \in Int /\ ((cap - avail) * 100) \div cap < 0
                BY <1>1, <1>9, <3>2, Percents
            <4> QED BY <1>1, <1>3, <1>9, <4>2, <4>3 DEF Percent
        <3> QED BY <1>1, <3>1, <3>2
    <2>2. CASE total = 0
        BY <1>3, <1>4, <1>5, <1>6, <1>7, <1>9, <2>1, <2>2
    <2>3. CASE total # 0
        <3>1. Usage(kept).inodes = Percent(Usage(e).inodes)
            <4>1. CASE used <= total
                <5>1. Least(used, total) = used
                    BY <1>1, <4>1 DEF Least
                <5>2. (used * 100) \div total \in 0..100
                    BY <1>1, <2>3, <4>1, Percents
                <5>3. Usage(kept).inodes = (used * 100) \div total
                      /\ Usage(e).inodes = (used * 100) \div total
                    BY <1>1, <1>3, <1>4, <2>3, <5>1
                <5> QED BY <5>2, <5>3 DEF Percent, Least
            <4>2. CASE used > total
                <5>1. Least(used, total) = total
                    BY <1>1, <4>2 DEF Least
                <5>2. Usage(kept).inodes = 100
                    BY <1>1, <1>4, <2>3, <5>1, Percents
                <5>3. (used * 100) \div total \in Int /\ (used * 100) \div total >= 100
                    BY <1>1, <2>3, <4>2, Percents
                <5> QED BY <1>1, <1>3, <2>3, <5>2, <5>3 DEF Percent, Least
            <4> QED BY <1>1, <4>1, <4>2
        <3> QED BY <1>5, <1>6, <1>7, <1>9, <2>1, <2>3, <3>1
    <2> QED BY <2>2, <2>3
<1> QED BY <1>8, <1>9

-----------------------------------------------------------------------------
(***************************************************************************)
(* Type correctness                                                        *)
(***************************************************************************)

LEMMA ViewType ==
    ASSUME TypeOK, NEW n \in Node, NEW p \in PVC, NEW f \in Family
    PROVE  view[n][p][f] \in Nat \cup {Absent}
<1>1. view \in [Node -> [PVC -> [Family -> Nat \cup {Absent}]]]
    BY MetricsAssumption DEF TypeOK
<1> HIDE DEF Family
<1> QED BY <1>1

\* An entry stays one.
LEMMA StoredType ==
    ASSUME NEW entry \in [Family -> Nat] \cup {Absent}, NEW f \in Family,
           NEW value \in Nat \cup {Absent}
    PROVE  /\ Stored(entry, f, value) \in [Family -> Nat] \cup {Absent}
           /\ value # Absent =>
                 /\ Stored(entry, f, value) \in [Family -> Nat]
                 /\ Stored(entry, f, value)[f] = value
                 /\ \A g \in Family \ {f} : Stored(entry, f, value)[g] =
                                               IF entry = Absent THEN 0 ELSE entry[g]
           /\ value = Absent => Stored(entry, f, value) = entry
<1> HIDE DEF Family
<1> QED BY DEF Stored, NoMetrics

LEMMA TypeStep ==
    ASSUME TypeOK, [Next]_vars
    PROVE  TypeOK'
<1>1. CASE ListNodes
    BY <1>1 DEF ListNodes, TypeOK
<1>2. ASSUME NEW n \in Node, NodeAnswers(n) \/ NodeFails(n) PROVE TypeOK'
    BY <1>2 DEF NodeAnswers, NodeFails, TypeOK, Storing, Family, Ended
<1>3. ASSUME NEW n \in Node, StoreFamily(n) PROVE TypeOK'
    <2>1. pc[n] \in Family /\ After(pc[n]) \in Storing \cup Ended
        BY <1>3 DEF StoreFamily, Storing, Family, After, Ended
    <2>2. data' \in [PVC -> [Family -> Nat] \cup {Absent}]
        <3>1. \A p \in PVC : /\ data[p] \in [Family -> Nat] \cup {Absent}
                             /\ view[n][p][pc[n]] \in Nat \cup {Absent}
            BY <2>1, ViewType DEF TypeOK
        <3> HIDE DEF Family
        <3>2. \A p \in PVC : Stored(data[p], pc[n], view[n][p][pc[n]]) \in [Family -> Nat] \cup {Absent}
            BY <2>1, <3>1, StoredType
        <3> QED BY <1>3, <3>2 DEF StoreFamily
    <2> QED BY <1>3, <2>1, <2>2 DEF StoreFamily, TypeOK
<1>4. CASE Wait
    <2>1. calculateUsagePercentages \in [PVC -> Percentages \cup {Absent}]
        BY UsageType DEF calculateUsagePercentages, TypeOK
    <2> QED BY <1>4, <2>1 DEF Wait, TypeOK
<1>5. CASE NextCycle
    BY <1>5 DEF NextCycle, TypeOK
<1>6. CASE UNCHANGED vars
    BY <1>6 DEF vars, TypeOK
<1> QED BY <1>1, <1>2, <1>3, <1>4, <1>5, <1>6 DEF Next

-----------------------------------------------------------------------------
(***************************************************************************)
(* The invariant's other parts                                             *)
(***************************************************************************)

\* Storing a family takes a goroutine past it, and past no other.
LEMMA PastStep ==
    ASSUME TypeOK, NEW n \in Node, pc[n] \in Family, pc' = [pc EXCEPT ![n] = After(pc[n])]
    PROVE  /\ \A f \in Family : Past(n, f)' <=> (Past(n, f) \/ f = pc[n])
           /\ \A m \in Node \ {n} : pc'[m] = pc[m]
           /\ pc'[n] # "idle"
<1>1. pc'[n] = After(pc[n]) /\ \A m \in Node \ {n} : pc'[m] = pc[m]
    BY DEF TypeOK
<1>2. CASE pc[n] = "capacity"
    BY <1>1, <1>2 DEF After, Past, Later, Family
<1>3. CASE pc[n] = "available"
    BY <1>1, <1>3 DEF After, Past, Later, Family
<1>4. CASE pc[n] = "inodes"
    BY <1>1, <1>4 DEF After, Past, Later, Family
<1>5. CASE pc[n] = "inodesUsed"
    BY <1>1, <1>5 DEF After, Past, Later, Family
<1> QED BY <1>2, <1>3, <1>4, <1>5 DEF Family

LEMMA GoroutineStep ==
    ASSUME IInv, [Next]_vars
    PROVE  AskedAreListed' /\ EndedAtEnd'
<1> USE DEF IInv, AskedAreListed, EndedAtEnd
<1>1. CASE ListNodes
    BY <1>1 DEF ListNodes, TypeOK
<1>2. ASSUME NEW n \in Node, NodeAnswers(n) \/ NodeFails(n) PROVE AskedAreListed' /\ EndedAtEnd'
    BY <1>2 DEF NodeAnswers, NodeFails, TypeOK, Ended
<1>3. ASSUME NEW n \in Node, StoreFamily(n) PROVE AskedAreListed' /\ EndedAtEnd'
    <2>1. pc[n] \in Family /\ pc[n] # "idle" /\ pc[n] \notin {"idle"} \cup Ended
        BY <1>3 DEF StoreFamily, Storing, Family, Ended
    <2>2. pc'[n] # "idle" /\ \A m \in Node \ {n} : pc'[m] = pc[m]
        BY <1>3, <2>1, PastStep DEF StoreFamily
    <2> QED BY <1>3, <2>1, <2>2 DEF StoreFamily
<1>4. CASE Wait
    BY <1>4 DEF Wait
<1>5. CASE NextCycle
    BY <1>5 DEF NextCycle
<1>6. CASE UNCHANGED vars
    BY <1>6 DEF vars
<1> QED BY <1>1, <1>2, <1>3, <1>4, <1>5, <1>6 DEF Next

\* Only StoreFamily changes what was found, and it changes the entries with it.
LEMMA EntriesStep ==
    ASSUME IInv, [Next]_vars
    PROVE  EntriesAreReported'
<1> USE DEF IInv
<1>1. ASSUME UNCHANGED <<data, view>>,
             \A n \in Node, f \in Family : Past(n, f)' <=> Past(n, f)
      PROVE  EntriesAreReported'
    <2>1. \A n \in Node, p \in PVC, f \in Family : Found(n, p, f)' <=> Found(n, p, f)
        BY <1>1 DEF Found
    <2>2. \A p \in PVC, f \in Family :
              (FromSome(p, f)' <=> FromSome(p, f)) /\ (FromNone(p, f)' <=> FromNone(p, f))
        BY <1>1, <2>1 DEF FromSome, FromNone
    <2> QED BY <1>1, <2>1, <2>2 DEF EntriesAreReported
<1>2. CASE ListNodes
    <2>1. \A n \in Node : pc[n] = "idle" /\ pc'[n] \in {"idle", "asking"}
        BY <1>2 DEF ListNodes, AskedAreListed, TypeOK
    <2>2. \A n \in Node, f \in Family : ~Past(n, f) /\ ~Past(n, f)'
        BY <2>1 DEF Past, Family
    <2>3. UNCHANGED <<data, view>>
        BY <1>2 DEF ListNodes
    <2> QED BY <1>1, <2>2, <2>3
<1>3. ASSUME NEW n \in Node, NodeAnswers(n) \/ NodeFails(n) PROVE EntriesAreReported'
    <2>1. /\ pc[n] = "asking" /\ pc'[n] \in {"capacity", "failed"}
          /\ \A m \in Node \ {n} : pc'[m] = pc[m]
          /\ pc'[n] = "capacity" \/ pc'[n] = "failed"
        BY <1>3 DEF NodeAnswers, NodeFails, TypeOK
    <2>2. \A f \in Family : ~Past(n, f) /\ ~Past(n, f)'
        BY <2>1 DEF Past, Later, Family
    <2>3. \A m \in Node \ {n}, f \in Family : Past(m, f)' <=> Past(m, f)
        BY <2>1 DEF Past
    <2>4. UNCHANGED <<data, view>>
        BY <1>3 DEF NodeAnswers, NodeFails
    <2> QED BY <1>1, <2>2, <2>3, <2>4
<1>4. ASSUME NEW n \in Node, StoreFamily(n) PROVE EntriesAreReported'
    <2>1. PICK f \in Family : f = pc[n] /\ view' = view /\ pc' = [pc EXCEPT ![n] = After(f)]
        BY <1>4 DEF StoreFamily, Storing
    <2> SUFFICES ASSUME NEW p \in PVC
                 PROVE  (IF data[p] = Absent THEN \A m \in Node, g \in Family : ~Found(m, p, g)
                         ELSE /\ \E m \in Node, g \in Family : Found(m, p, g)
                              /\ \A g \in Family : FromSome(p, g) \/ FromNone(p, g))'
        BY DEF EntriesAreReported
    <2>2. PICK value \in Nat \cup {Absent} : value = view[n][p][f]
        BY ViewType
    <2>3. /\ data[p] \in [Family -> Nat] \cup {Absent}
          /\ data'[p] = Stored(data[p], f, value)
        BY <1>4, <2>1, <2>2 DEF StoreFamily, TypeOK
    <2>4. /\ \A g \in Family : Past(n, g)' <=> (Past(n, g) \/ g = f)
          /\ \A m \in Node \ {n}, g \in Family : Past(m, g)' <=> Past(m, g)
        BY <2>1, PastStep DEF Past
    <2>5. \A m \in Node, g \in Family :
              Found(m, p, g)' <=> (Found(m, p, g) \/ (m = n /\ g = f /\ value # Absent))
        BY <2>1, <2>2, <2>4 DEF Found
    <2>6. IF data[p] = Absent THEN \A m \in Node, g \in Family : ~Found(m, p, g)
          ELSE /\ \E m \in Node, g \in Family : Found(m, p, g)
               /\ \A g \in Family : FromSome(p, g) \/ FromNone(p, g)
        BY DEF EntriesAreReported
    <2> HIDE DEF Family
    <2>7. CASE value = Absent
        <3>1. data'[p] = data[p]
            BY <2>3, <2>7, StoredType
        <3>2. \A m \in Node, g \in Family : Found(m, p, g)' <=> Found(m, p, g)
            BY <2>5, <2>7
        <3>3. \A g \in Family :
                  (FromSome(p, g)' <=> FromSome(p, g)) /\ (FromNone(p, g)' <=> FromNone(p, g))
            BY <2>1, <3>1, <3>2 DEF FromSome, FromNone
        <3> QED BY <2>6, <3>1, <3>2, <3>3
    <2>8. CASE value # Absent
        <3>1. /\ data'[p] \in [Family -> Nat] /\ data'[p][f] = value
              /\ \A g \in Family \ {f} : data'[p][g] = IF data[p] = Absent THEN 0 ELSE data[p][g]
            BY <2>3, <2>8, StoredType
        <3>2. data'[p] # Absent
            BY <3>1, MetricsAssumption
        <3>3. Found(n, p, f)' /\ FromSome(p, f)'
            BY <2>1, <2>2, <2>5, <2>8, <3>1 DEF FromSome
        <3>4. ASSUME NEW g \in Family \ {f} PROVE FromSome(p, g)' \/ FromNone(p, g)'
            <4>1. \A m \in Node : Found(m, p, g)' <=> Found(m, p, g)
                BY <2>5
            <4>2. CASE data[p] = Absent
                BY <2>6, <3>1, <4>1, <4>2 DEF FromNone
            <4>3. CASE data[p] # Absent
                BY <2>1, <2>6, <3>1, <4>1, <4>3 DEF FromSome, FromNone
            <4> QED BY <4>2, <4>3
        <3>5. \A g \in Family : FromSome(p, g)' \/ FromNone(p, g)'
            BY <3>3, <3>4
        <3>6. \E m \in Node, g \in Family : Found(m, p, g)'
            BY <3>3
        <3> QED BY <3>2, <3>5, <3>6
    <2> QED BY <2>7, <2>8
<1>5. CASE Wait \/ UNCHANGED vars
    BY <1>1, <1>5 DEF Wait, vars, Past
<1>6. CASE NextCycle
    BY <1>6 DEF NextCycle, EntriesAreReported, Found, Past, Family
<1> QED BY <1>2, <1>3, <1>4, <1>5, <1>6 DEF Next

\* When the collection succeeds, every listed node's goroutine is past every family.
LEMMA UsageStep ==
    ASSUME IInv, [Next]_vars
    PROVE  UsageIsTheNodes'
<1> USE DEF IInv
<1>1. CASE Wait
    <2> SUFFICES ASSUME outcome' = "metrics", NEW p \in PVC
                 PROVE  /\ usage'[p] = Absent <=> Reporters(p) = {}
                        /\ \A n \in Reporters(p) :
                              (\A r \in Reporters(p) : view[r][p] = view[n][p]) =>
                                  usage'[p] = Usage(Entry(n, p))
        BY <1>1 DEF Wait, UsageIsTheNodes, Reporters, Reported, Entry
    <2>1. /\ \A n \in listed : pc[n] = "stored"
          /\ usage'[p] = IF data[p] = Absent THEN Absent ELSE Usage(data[p])
        BY <1>1 DEF Wait, calculateUsagePercentages, Ended
    <2>2. \A n \in Node \ listed : pc[n] = "idle"
        BY DEF AskedAreListed
    <2>3. \A n \in Node, f \in Family : Found(n, p, f) <=> n \in listed /\ view[n][p][f] # Absent
        BY <2>1, <2>2 DEF Found, Past, Family
    <2>4. listed \subseteq Node
        BY DEF TypeOK
    <2>5. usage'[p] = Absent <=> data[p] = Absent
        BY <2>1, UsageType DEF TypeOK
    <2>6. usage'[p] = Absent <=> Reporters(p) = {}
        <3> HIDE DEF Family
        <3> QED BY <2>3, <2>4, <2>5 DEF EntriesAreReported, Reporters, Reported
    <2>7. ASSUME NEW n \in Reporters(p), \A r \in Reporters(p) : view[r][p] = view[n][p]
          PROVE  usage'[p] = Usage(Entry(n, p))
        <3>1. data[p] # Absent /\ data[p] \in [Family -> Nat] /\ n \in listed /\ n \in Node
            BY <2>4, <2>5, <2>6, <2>7 DEF TypeOK, Reporters
        <3> HIDE DEF Family
        <3>2. ASSUME NEW f \in Family
              PROVE  data[p][f] = IF view[n][p][f] = Absent THEN 0 ELSE view[n][p][f]
            <4>1. CASE FromSome(p, f)
                <5>1. PICK r \in Node : Found(r, p, f) /\ data[p][f] = view[r][p][f]
                    BY <4>1 DEF FromSome
                <5>2. r \in Reporters(p) /\ view[r][p][f] # Absent
                    BY <2>3, <5>1 DEF Reporters, Reported
                <5> QED BY <2>7, <5>1, <5>2
            <4>2. CASE FromNone(p, f)
                BY <2>3, <3>1, <4>2 DEF FromNone
            <4> QED BY <3>1, <4>1, <4>2 DEF EntriesAreReported
        <3>3. data[p] = Entry(n, p)
            BY <3>1, <3>2 DEF Entry
        <3> QED BY <2>1, <3>1, <3>3
    <2> QED BY <2>6, <2>7
<1>2. CASE outcome' # "metrics"
    BY <1>2 DEF UsageIsTheNodes
<1>3. CASE ~Wait /\ outcome' = "metrics"
    <2>1. UNCHANGED <<outcome, view, listed, usage>>
        <3>1. CASE ListNodes
            BY <1>3, <3>1 DEF ListNodes
        <3>2. CASE NextCycle
            BY <1>3, <3>2 DEF NextCycle
        <3> QED BY <1>3, <3>1, <3>2 DEF Next, NodeAnswers, NodeFails, StoreFamily, vars
    <2> QED BY <2>1 DEF UsageIsTheNodes, Reporters, Reported, Entry
<1> QED BY <1>1, <1>2, <1>3

-----------------------------------------------------------------------------
(***************************************************************************)
(* The theorems                                                            *)
(***************************************************************************)

\* IInv holds always.
THEOREM Invariance == Spec => []IInv
<1>1. Init => IInv
    BY DEF Init, IInv, TypeOK, AskedAreListed, EndedAtEnd, EntriesAreReported, Found, Past, Family,
           UsageIsTheNodes
<1>2. IInv /\ [Next]_vars => IInv'
    BY TypeStep, GoroutineStep, EntriesStep, UsageStep DEF IInv
<1> QED BY <1>1, <1>2, PTL DEF Spec

\* The variables keep their types.
THEOREM TypeCorrectness == Spec => []TypeOK
<1>1. IInv => TypeOK
    BY DEF IInv
<1> QED BY <1>1, Invariance, PTL

\* A collection that succeeds has the nodes' own numbers, whatever the order in which the
\* goroutines stored them.
THEOREM UsageTheorem == Spec => []UsageIsTheNodes
<1>1. IInv => UsageIsTheNodes
    BY DEF IInv
<1> QED BY <1>1, Invariance, PTL

\* What the parser for a single claim finds in a node's text is what a collection that
\* has the claim from that node alone has, kept between 0 and 100.
THEOREM ParsersTheorem == Spec => []ParsersAgree
<1>1. IInv => ParsersAgree
    <2> SUFFICES ASSUME IInv, outcome = "metrics", NEW p \in PVC, NEW n \in Node,
                        Reporters(p) = {n}
                 PROVE  LET found == parseVolumeMetrics(Entry(n, p))
                        IN  IF found = Absent THEN usage[p].storage \in {0, 100}
                            ELSE /\ found.storage = Percent(usage[p].storage)
                                 /\ IF usage[p].inodes = Absent THEN found.inodes = Absent
                                    ELSE found.inodes = Percent(usage[p].inodes)
        BY DEF ParsersAgree
    <2>1. usage[p] = Usage(Entry(n, p))
        BY DEF IInv, UsageIsTheNodes
    <2>2. Entry(n, p) \in [Family -> Nat]
        <3>1. \A f \in Family : view[n][p][f] \in Nat \cup {Absent}
            BY ViewType DEF IInv
        <3> HIDE DEF Family
        <3> QED BY <3>1 DEF Entry
    <2> QED BY <2>1, <2>2, Parsers
<1> QED BY <1>1, Invariance, PTL

=============================================================================
