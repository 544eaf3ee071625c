------------------------ MODULE StorageClassesProofs ------------------------
(***************************************************************************)
(* The storage class cache forgets between cycles and, within one, answers *)
(* with what a class was at some moment of it, for any number of claims,   *)
(* classes and goroutines.  The argument: whatever is in the cache, or in  *)
(* the hands of a goroutine that is about to write it there, is a version  *)
(* of the class that was seen since the cycle began; a cycle begins with   *)
(* an empty cache and nobody at work.                                      *)
(***************************************************************************)
EXTENDS StorageClasses, TLAPS

SeenIsCurrent == \A c \in Class : class[c] \in seen[c]

\* The two writes of the cache are of versions of this cycle, not always of the same one.
CacheIsSeen ==
    \A c \in Class :
        /\ cache[c] # Absent => \E s \in seen[c] : s.expandable = cache[c]
        /\ fsTypes[c] # Absent => \E s \in seen[c] : FsTypeOf(s) = fsTypes[c]

ReadIsSeen ==
    \A p \in PVC : pc[p] \in {"setting", "typing"} => read[p] \in seen[ClassOf[p]]

\* Claims without a class are refused at once.
ClassIsKnown ==
    \A p \in PVC : pc[p] \in {"missed", "setting", "typing", "expandable", "expanded"} =>
        ClassOf[p] \in Class

SeenTypeOK == seen \in [Class -> SUBSET StorageClass]

\* The inductive invariant.
IInv ==
    /\ TypeOK /\ SeenTypeOK
    /\ SeenIsCurrent /\ CacheIsSeen /\ ReadIsSeen /\ ClassIsKnown
    /\ AllowedThisCycle /\ FixedInodesWarned

-----------------------------------------------------------------------------
(***************************************************************************)
(* What the steps of a cycle have in common                                *)
(***************************************************************************)

\* Within a cycle, what was seen stays seen.
LEMMA SeenGrows ==
    ASSUME IInv, [Next]_vars
    PROVE  \/ StartCycle
           \/ /\ class' \in [Class -> StorageClass] /\ SeenTypeOK' /\ SeenIsCurrent'
              /\ \A c \in Class : seen[c] \subseteq seen'[c]
<1> USE DEF IInv, TypeOK, SeenTypeOK, SeenIsCurrent
<1>1. ASSUME NEW c \in Class, ChangeClass(c)
      PROVE  /\ class' \in [Class -> StorageClass] /\ SeenTypeOK' /\ SeenIsCurrent'
             /\ \A d \in Class : seen[d] \subseteq seen'[d]
    BY <1>1 DEF ChangeClass
<1>2. CASE UNCHANGED <<class, seen>>
    BY <1>2
<1>3. StartCycle \/ UNCHANGED <<class, seen>> \/ \E c \in Class : ChangeClass(c)
    BY DEF Next, Acquire, IsStorageClassExpandable, Get, FetchClass, FetchFails, Set, SetFsType,
           InodesReached, OtherReturn, vars
<1> QED BY <1>1, <1>2, <1>3

\* The file system of a class is never absent, nor is that of an event.
LEMMA FsTypeIsFsType ==
    /\ \A s \in StorageClass : FsTypeOf(s) \in FsType
    /\ \A p \in PVC : TypeOK /\ ClassOf[p] \in Class => getFilesystemType(p) \in FsType
BY ClassAssumption DEF TypeOK, FsTypeOf, getFilesystemType, StorageClass

\* A goroutine that answers goes where the answer says.
LEMMA AnswerGoes ==
    ASSUME TypeOK, NEW p \in PVC, NEW expandable \in BOOLEAN, Answer(p, expandable)
    PROVE  /\ pc' = [pc EXCEPT ![p] = IF expandable THEN "expandable" ELSE "refused"]
           /\ pc' \in [PVC -> {"queued"} \cup Running \cup Returned]
           /\ pc'[p] \in {"expandable", "refused"}
           /\ pc'[p] = "expandable" => expandable
BY DEF TypeOK, Answer, Goto, Running, Returned

\* A lookup: no class, nothing cached, or the cached answer.
LEMMA GetMoves ==
    ASSUME TypeOK, NEW p \in PVC, Get(p)
    PROVE  /\ pc'[p] \in {"refused", "missed", "expandable"}
           /\ pc'[p] # "refused" => ClassOf[p] \in Class
           /\ pc'[p] = "expandable" => cache[ClassOf[p]] # Absent /\ cache[ClassOf[p]] = TRUE
<1>1. CASE ClassOf[p] = Absent \/ cache[ClassOf[p]] = Absent
    BY <1>1, ClassAssumption DEF Get, Goto, TypeOK
<1>2. CASE ClassOf[p] # Absent /\ cache[ClassOf[p]] # Absent
    <2>1. cache[ClassOf[p]] \in BOOLEAN /\ Answer(p, cache[ClassOf[p]]) /\ ClassOf[p] \in Class
        BY <1>2, ClassAssumption DEF Get, TypeOK
    <2> QED BY <1>2, <2>1, AnswerGoes
<1> QED BY <1>1, <1>2

-----------------------------------------------------------------------------
(***************************************************************************)
(* Type correctness                                                        *)
(***************************************************************************)

LEMMA TypeStep ==
    ASSUME IInv, [Next]_vars
    PROVE  TypeOK'
<1> USE DEF IInv
<1>1. CASE StartCycle
    BY <1>1, ClassAssumption DEF StartCycle, TypeOK, Returned
<1>2. ASSUME NEW c \in Class, ChangeClass(c) PROVE TypeOK'
    BY <1>2, ClassAssumption DEF ChangeClass, TypeOK
<1>3. ASSUME NEW p \in PVC, Acquire(p) \/ FetchFails(p) \/ OtherReturn(p) PROVE TypeOK'
    BY <1>3 DEF Acquire, FetchFails, OtherReturn, Goto, TypeOK, Running, Returned
<1>4. ASSUME NEW p \in PVC, Get(p) PROVE TypeOK'
    <2>1. CASE ClassOf[p] = Absent \/ cache[ClassOf[p]] = Absent
        BY <1>4, <2>1 DEF Get, Goto, TypeOK, Running, Returned
    <2>2. CASE ClassOf[p] # Absent /\ cache[ClassOf[p]] # Absent
        <3>1. cache[ClassOf[p]] \in BOOLEAN /\ Answer(p, cache[ClassOf[p]])
            BY <1>4, <2>2, ClassAssumption DEF Get, TypeOK
        <3> QED BY <1>4, <3>1, AnswerGoes DEF Get, TypeOK
    <2> QED BY <2>1, <2>2
<1>5. ASSUME NEW p \in PVC, FetchClass(p) PROVE TypeOK'
    <2>1. class[ClassOf[p]] \in StorageClass /\ Absent \notin StorageClass
        BY <1>5, ClassAssumption DEF FetchClass, TypeOK, ClassIsKnown
    <2> QED BY <1>5, <2>1 DEF FetchClass, Goto, TypeOK, Running, Returned
<1>6. ASSUME NEW p \in PVC, Set(p) PROVE TypeOK'
    <2>1. read[p] \in StorageClass
        BY <1>6 DEF Set, TypeOK
    <2>2. read[p].expandable \in BOOLEAN
        BY <2>1 DEF StorageClass
    <2> QED BY <1>6, <2>2 DEF Set, Goto, TypeOK, Running, Returned
<1>7. ASSUME NEW p \in PVC, SetFsType(p) PROVE TypeOK'
    <2>1. read[p] \in StorageClass
        BY <1>7 DEF SetFsType, TypeOK
    <2>2. read[p].expandable \in BOOLEAN /\ FsTypeOf(read[p]) \in FsType
        BY <2>1, FsTypeIsFsType DEF StorageClass
    <2>3. fsTypes' \in [Class -> FsType \cup {Absent}]
        BY <1>7, <2>2 DEF SetFsType, TypeOK
    <2> QED BY <1>7, <2>2, <2>3, AnswerGoes DEF SetFsType, TypeOK
<1>8. ASSUME NEW p \in PVC, InodesReached(p) PROVE TypeOK'
    <2>1. getFilesystemType(p) \in FsType /\ Absent \notin FsType
        BY <1>8, FsTypeIsFsType, ClassAssumption DEF InodesReached, ClassIsKnown
    <2> QED BY <1>8, <2>1 DEF InodesReached, Goto, TypeOK, Running, Returned
<1>9. CASE UNCHANGED vars
    BY <1>9 DEF vars, TypeOK
<1> QED BY <1>1, <1>2, <1>3, <1>4, <1>5, <1>6, <1>7, <1>8, <1>9
        DEF Next, IsStorageClassExpandable

-----------------------------------------------------------------------------
(***************************************************************************)
(* The invariant's other parts                                             *)
(***************************************************************************)

\* What Set and SetFsType write is what a goroutine read in this cycle.
LEMMA CacheStep ==
    ASSUME IInv, [Next]_vars
    PROVE  CacheIsSeen'
<1> USE DEF IInv
<1>1. CASE StartCycle
    BY <1>1 DEF StartCycle, CacheIsSeen
<1>2. CASE ~StartCycle
    <2> SUFFICES ASSUME NEW c \in Class
                 PROVE  /\ cache'[c] # Absent => \E s \in seen'[c] : s.expandable = cache'[c]
                        /\ fsTypes'[c] # Absent => \E s \in seen'[c] : FsTypeOf(s) = fsTypes'[c]
        BY DEF CacheIsSeen
    <2>1. seen[c] \subseteq seen'[c]
        BY <1>2, SeenGrows
    <2>2. cache'[c] = cache[c] \/ \E s \in seen[c] : s.expandable = cache'[c]
        <3>1. ASSUME NEW p \in PVC, Set(p)
              PROVE  cache'[c] = cache[c] \/ \E s \in seen[c] : s.expandable = cache'[c]
            BY <3>1 DEF Set, ReadIsSeen, TypeOK
        <3>2. UNCHANGED cache \/ \E p \in PVC : Set(p)
            BY <1>2 DEF Next, ChangeClass, Acquire, IsStorageClassExpandable, Get, FetchClass,
                        FetchFails, SetFsType, InodesReached, OtherReturn, vars
        <3> QED BY <3>1, <3>2
    <2>3. fsTypes'[c] = fsTypes[c] \/ \E s \in seen[c] : FsTypeOf(s) = fsTypes'[c]
        <3>1. ASSUME NEW p \in PVC, SetFsType(p)
              PROVE  fsTypes'[c] = fsTypes[c] \/ \E s \in seen[c] : FsTypeOf(s) = fsTypes'[c]
            BY <3>1 DEF SetFsType, ReadIsSeen, TypeOK
        <3>2. UNCHANGED fsTypes \/ \E p \in PVC : SetFsType(p)
            BY <1>2 DEF Next, ChangeClass, Acquire, IsStorageClassExpandable, Get, FetchClass,
                        FetchFails, Set, InodesReached, OtherReturn, vars
        <3> QED BY <3>1, <3>2
    <2> QED BY <2>1, <2>2, <2>3 DEF CacheIsSeen
<1> QED BY <1>1, <1>2

\* How a goroutine gets where it is: where it was, or one of the steps that lead there.
LEMMA Moves ==
    ASSUME IInv, [Next]_vars, ~StartCycle, NEW p \in PVC
    PROVE  \/ pc'[p] = pc[p] /\ read'[p] = read[p] /\ told'[p] = told[p]
           \/ Acquire(p) \/ FetchFails(p) \/ OtherReturn(p)
           \/ Get(p) \/ FetchClass(p) \/ Set(p) \/ SetFsType(p) \/ InodesReached(p)
<1> USE DEF IInv, TypeOK
<1>1. ASSUME NEW q \in PVC, q # p,
             \/ Acquire(q) \/ FetchFails(q) \/ OtherReturn(q)
             \/ Get(q) \/ FetchClass(q) \/ Set(q) \/ SetFsType(q) \/ InodesReached(q)
      PROVE  pc'[p] = pc[p] /\ read'[p] = read[p] /\ told'[p] = told[p]
    BY <1>1 DEF Acquire, FetchFails, OtherReturn, Get, FetchClass, Set, SetFsType, InodesReached,
                Answer, Goto
<1>2. ASSUME NEW c \in Class, ChangeClass(c) \/ UNCHANGED vars
      PROVE  pc'[p] = pc[p] /\ read'[p] = read[p] /\ told'[p] = told[p]
    BY <1>2 DEF ChangeClass, vars
<1>3. CASE UNCHANGED vars
    BY <1>3 DEF vars
<1> QED BY <1>1, <1>2, <1>3 DEF Next, IsStorageClassExpandable

LEMMA ReadStep ==
    ASSUME IInv, [Next]_vars
    PROVE  ReadIsSeen'
<1> USE DEF IInv
<1>1. CASE StartCycle
    BY <1>1 DEF StartCycle, ReadIsSeen
<1>2. CASE ~StartCycle
    <2> SUFFICES ASSUME NEW p \in PVC, pc'[p] \in {"setting", "typing"}
                 PROVE  read'[p] \in seen'[ClassOf[p]]
        BY DEF ReadIsSeen
    <2>1. pc[p] \in {"missed", "setting", "typing"}
          /\ ((read'[p] = read[p] /\ pc[p] # "missed") \/ read'[p] = class[ClassOf[p]])
        <3>1. CASE Get(p) \/ SetFsType(p)
            BY <3>1, GetMoves, AnswerGoes DEF SetFsType, Answer, Goto, TypeOK
        <3>2. CASE Acquire(p) \/ FetchFails(p) \/ OtherReturn(p) \/ InodesReached(p)
            BY <3>2 DEF Acquire, FetchFails, OtherReturn, InodesReached, Goto, TypeOK
        <3>3. CASE FetchClass(p) \/ Set(p)
            BY <3>3 DEF FetchClass, Set, Goto, TypeOK
        <3> QED BY <1>2, <3>1, <3>2, <3>3, Moves
    <2>2. ClassOf[p] \in Class
        BY <2>1 DEF ClassIsKnown
    <2>3. class[ClassOf[p]] \in seen[ClassOf[p]] /\ seen[ClassOf[p]] \subseteq seen'[ClassOf[p]]
        BY <1>2, <2>2, SeenGrows DEF SeenIsCurrent
    <2> QED BY <2>1, <2>3 DEF ReadIsSeen
<1> QED BY <1>1, <1>2

LEMMA ClassStep ==
    ASSUME IInv, [Next]_vars
    PROVE  ClassIsKnown'
<1> USE DEF IInv
<1>1. CASE StartCycle
    BY <1>1 DEF StartCycle, ClassIsKnown
<1>2. CASE ~StartCycle
    <2> SUFFICES ASSUME NEW p \in PVC,
                        pc'[p] \in {"missed", "setting", "typing", "expandable", "expanded"}
                 PROVE  ClassOf[p] \in Class
        BY DEF ClassIsKnown
    <2>1. CASE Get(p)
        BY <2>1, GetMoves
    <2>2. CASE Acquire(p) \/ FetchFails(p) \/ OtherReturn(p)
        BY <2>2 DEF Acquire, FetchFails, OtherReturn, Goto, TypeOK
    <2>3. CASE FetchClass(p) \/ Set(p) \/ SetFsType(p) \/ InodesReached(p)
        BY <2>3 DEF FetchClass, Set, SetFsType, InodesReached, ClassIsKnown
    <2> QED BY <1>2, <2>1, <2>2, <2>3, Moves DEF ClassIsKnown
<1> QED BY <1>1, <1>2

\* Who goes on has an answer: from the cache or from the class just read.
LEMMA AllowedStep ==
    ASSUME IInv, [Next]_vars
    PROVE  AllowedThisCycle'
<1> USE DEF IInv
<1>1. CASE StartCycle
    BY <1>1 DEF StartCycle, AllowedThisCycle
<1>2. CASE ~StartCycle
    <2> SUFFICES ASSUME NEW p \in PVC, pc'[p] \in {"expandable", "expanded"}
                 PROVE  \E s \in seen'[ClassOf[p]] : s.expandable
        BY DEF AllowedThisCycle
    <2>1. ClassOf[p] \in Class
        BY ClassStep DEF ClassIsKnown
    <2>2. seen[ClassOf[p]] \subseteq seen'[ClassOf[p]]
        BY <1>2, <2>1, SeenGrows
    <2>3. \E s \in seen[ClassOf[p]] : s.expandable
        <3>1. CASE Get(p)
            BY <3>1, GetMoves, ClassAssumption DEF CacheIsSeen
        <3>2. CASE SetFsType(p)
            <4>1. read[p] \in StorageClass /\ read[p] \in seen[ClassOf[p]]
                BY <3>2 DEF SetFsType, TypeOK, ReadIsSeen
            <4>2. read[p].expandable \in BOOLEAN
                BY <4>1 DEF StorageClass
            <4>3. read[p].expandable
                BY <3>2, <4>2, AnswerGoes DEF SetFsType
            <4> QED BY <4>1, <4>3
        <3>3. CASE Acquire(p) \/ FetchFails(p) \/ OtherReturn(p) \/ FetchClass(p) \/ Set(p)
            BY <3>3 DEF Acquire, FetchFails, OtherReturn, FetchClass, Set, Goto, TypeOK
        <3>4. CASE InodesReached(p)
            BY <3>4 DEF InodesReached, AllowedThisCycle
        <3> QED BY <1>2, <3>1, <3>2, <3>3, <3>4, Moves DEF AllowedThisCycle
    <2> QED BY <2>2, <2>3 DEF AllowedThisCycle
<1> QED BY <1>1, <1>2

\* The file system told is ext4 for want of a cached one, or one seen in this cycle.
LEMMA WarningStep ==
    ASSUME IInv, [Next]_vars
    PROVE  FixedInodesWarned'
<1> USE DEF IInv
<1>1. CASE StartCycle
    BY <1>1 DEF StartCycle, FixedInodesWarned
<1>2. CASE ~StartCycle
    <2> SUFFICES ASSUME NEW p \in PVC, pc'[p] = "expanded",
                        \A s \in seen'[ClassOf[p]] : FsTypeOf(s) \in FixedInodes
                 PROVE  told'[p] \in FixedInodes
        BY DEF FixedInodesWarned
    <2>1. ClassOf[p] \in Class
        BY ClassStep DEF ClassIsKnown
    <2>2. \A s \in seen[ClassOf[p]] : FsTypeOf(s) \in FixedInodes
        BY <1>2, <2>1, SeenGrows
    <2>3. CASE InodesReached(p)
        <3>1. told'[p] = getFilesystemType(p)
            BY <2>3 DEF InodesReached, TypeOK
        <3> QED BY <2>1, <2>2, <3>1 DEF getFilesystemType, CacheIsSeen, FixedInodes
    <2>4. CASE Get(p) \/ SetFsType(p)
        BY <2>4, GetMoves DEF SetFsType, Answer, Goto, TypeOK
    <2>5. CASE Acquire(p) \/ FetchFails(p) \/ OtherReturn(p) \/ FetchClass(p) \/ Set(p)
        BY <2>5 DEF Acquire, FetchFails, OtherReturn, FetchClass, Set, Goto, TypeOK
    <2> QED BY <1>2, <2>2, <2>3, <2>4, <2>5, Moves DEF FixedInodesWarned
<1> QED BY <1>1, <1>2

-----------------------------------------------------------------------------
(***************************************************************************)
(* The theorems                                                            *)
(***************************************************************************)

\* IInv holds always.
THEOREM Invariance == Spec => []IInv
<1>1. Init => IInv
    <2> SUFFICES ASSUME Init PROVE IInv
        OBVIOUS
    <2>1. TypeOK /\ SeenTypeOK /\ SeenIsCurrent
        BY ClassAssumption DEF Init, TypeOK, SeenTypeOK, SeenIsCurrent
    <2>2. CacheIsSeen /\ ReadIsSeen /\ ClassIsKnown /\ AllowedThisCycle /\ FixedInodesWarned
        BY DEF Init, CacheIsSeen, ReadIsSeen, ClassIsKnown, AllowedThisCycle, FixedInodesWarned
    <2> QED BY <2>1, <2>2 DEF IInv
<1>2. IInv /\ [Next]_vars => IInv'
    <2> SUFFICES ASSUME IInv, [Next]_vars PROVE IInv'
        OBVIOUS
    <2>1. SeenTypeOK' /\ SeenIsCurrent'
        <3>1. StartCycle => SeenTypeOK' /\ SeenIsCurrent'
            BY DEF StartCycle, IInv, TypeOK, SeenTypeOK, SeenIsCurrent
        <3> QED BY <3>1, SeenGrows
    <2> QED BY <2>1, TypeStep, CacheStep, ReadStep, ClassStep, AllowedStep, WarningStep DEF IInv
<1> QED BY <1>1, <1>2, PTL DEF Spec

\* The variables keep their types: a goroutine holds a class while it is writing it to
\* the cache, and an event names a file system once there is an event.
THEOREM TypeCorrectness == Spec => []TypeOK
<1>1. IInv => TypeOK
    BY DEF IInv
<1> QED BY <1>1, Invariance, PTL

\* No claim goes on to be expanded on an answer of an earlier cycle.
THEOREM AllowedTheorem == Spec => []AllowedThisCycle
<1>1. IInv => AllowedThisCycle
    BY DEF IInv
<1> QED BY <1>1, Invariance, PTL

\* A claim of a class that was ext3 or ext4 all through the cycle is warned about.
THEOREM WarningTheorem == Spec => []FixedInodesWarned
<1>1. IInv => FixedInodesWarned
    BY DEF IInv
<1> QED BY <1>1, Invariance, PTL

=============================================================================
