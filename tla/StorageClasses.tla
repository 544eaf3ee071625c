---------------------------- MODULE StorageClasses ----------------------------
(***************************************************************************)
(* The storage class cache of one operator process: the goroutines of a    *)
(* cycle fill it on a miss, in two separate writes, and read it back when  *)
(* they decide and when they word the event of an expansion for lack of    *)
(* inodes.  Every cycle starts by clearing it.                             *)
(***************************************************************************)
EXTENDS FiniteSets, Naturals

CONSTANTS
    PVC,          \* the managed claims, one goroutine each per cycle
    Class,        \* the storage classes
    ClassOf,      \* claim -> its storage class, or Absent
    FsType,       \* the file systems a class may name
    MaxParallel,  \* --max-parallel
    Absent,       \* nothing there
    MaxChanges    \* bound: changes of storage classes

VARIABLES
    class,    \* class -> the StorageClass as the client's informer has it
    changes,  \* number of changes so far
    cache,    \* class -> the cached answer whether it is expandable, or Absent
    fsTypes,  \* class -> the cached file system, or Absent
    pc,       \* claim -> where its goroutine is
    read,     \* claim -> the StorageClass its goroutine fetched
    told,     \* claim -> the file system its event will name, or Absent
    seen      \* class -> its versions since the cycle began (history)

vars == <<class, changes, cache, fsTypes, pc, read, told, seen>>

\* fsType is what the parameters fsType and csi.storage.k8s.io/fstype say.
StorageClass == [expandable : BOOLEAN, fsType : FsType \cup {Absent}]

ASSUME ClassAssumption ==
    /\ ClassOf \in [PVC -> Class \cup {Absent}]
    /\ Absent \notin Class /\ Absent \notin FsType /\ Absent \notin BOOLEAN
    /\ Absent \notin StorageClass
    /\ {"ext3", "ext4"} \subseteq FsType
    /\ MaxParallel \in Nat \ {0}
    /\ MaxChanges \in Nat

Running == {"looking", "missed", "setting", "typing", "expandable"}
Returned == {"refused", "expanded"}

Init ==
    /\ class \in [Class -> StorageClass]
    /\ changes = 0
    /\ cache = [c \in Class |-> Absent]
    /\ fsTypes = [c \in Class |-> Absent]
    /\ pc = [p \in PVC |-> "queued"]
    /\ read = [p \in PVC |-> Absent]
    /\ told = [p \in PVC |-> Absent]
    /\ seen = [c \in Class |-> {class[c]}]

\* An administrator changes allowVolumeExpansion, or replaces the class.
ChangeClass(c) ==
    /\ changes < MaxChanges
    /\ \E s \in StorageClass \ {class[c]} :
          /\ class' = [class EXCEPT ![c] = s]
          /\ seen' = [seen EXCEPT ![c] = @ \cup {s}]
    /\ changes' = changes + 1
    /\ UNCHANGED <<cache, fsTypes, pc, read, told>>

\* Fault: the next cycle does not clear the cache.
StartCycleUncleared ==
    /\ \A p \in PVC : pc[p] \in Returned
    /\ pc' = [p \in PVC |-> "queued"]
    /\ told' = [p \in PVC |-> Absent]
    /\ seen' = [c \in Class |-> {class[c]}]
    /\ UNCHANGED <<class, changes, cache, fsTypes, read>>

\* The goroutines of the last cycle have returned; the next one clears the cache.
StartCycle ==
    /\ \A p \in PVC : pc[p] \in Returned
    /\ cache' = [c \in Class |-> Absent]
    /\ fsTypes' = [c \in Class |-> Absent]
    /\ pc' = [p \in PVC |-> "queued"]
    /\ told' = [p \in PVC |-> Absent]
    /\ seen' = [c \in Class |-> {class[c]}]
    /\ UNCHANGED <<class, changes, read>>

-----------------------------------------------------------------------------
(***************************************************************************)
(* IsStorageClassExpandable: each call of the cache takes its lock anew    *)
(***************************************************************************)

Goto(p, place) == pc' = [pc EXCEPT ![p] = place]

Answer(p, expandable) == Goto(p, IF expandable THEN "expandable" ELSE "refused")

Acquire(p) ==
    /\ pc[p] = "queued"
    /\ Cardinality({q \in PVC : pc[q] \in Running}) < MaxParallel
    /\ Goto(p, "looking")
    /\ UNCHANGED <<class, changes, cache, fsTypes, read, told, seen>>

Get(p) ==
    /\ pc[p] = "looking"
    /\ IF ClassOf[p] = Absent THEN Goto(p, "refused")
       ELSE IF cache[ClassOf[p]] = Absent THEN Goto(p, "missed")
       ELSE Answer(p, cache[ClassOf[p]])
    /\ UNCHANGED <<class, changes, cache, fsTypes, read, told, seen>>

FetchClass(p) ==
    /\ pc[p] = "missed"
    /\ read' = [read EXCEPT ![p] = class[ClassOf[p]]]
    /\ Goto(p, "setting")
    /\ UNCHANGED <<class, changes, cache, fsTypes, told, seen>>

\* The class cannot be read; nothing is cached.
FetchFails(p) ==
    /\ pc[p] = "missed"
    /\ Goto(p, "refused")
    /\ UNCHANGED <<class, changes, cache, fsTypes, read, told, seen>>

Set(p) ==
    /\ pc[p] = "setting"
    /\ cache' = [cache EXCEPT ![ClassOf[p]] = read[p].expandable]
    /\ Goto(p, "typing")
    /\ UNCHANGED <<class, changes, fsTypes, read, told, seen>>

\* The file system of a class; ext4 when its parameters name none.
FsTypeOf(s) == IF s.fsType = Absent THEN "ext4" ELSE s.fsType

SetFsType(p) ==
    /\ pc[p] = "typing"
    /\ fsTypes' = [fsTypes EXCEPT ![ClassOf[p]] = FsTypeOf(read[p])]
    /\ Answer(p, read[p].expandable)
    /\ read' = [read EXCEPT ![p] = Absent]
    /\ UNCHANGED <<class, changes, cache, told, seen>>

-----------------------------------------------------------------------------
\* Fault: a file system that is not cached is unknown.
getFilesystemTypeUnknown(p) ==
    IF fsTypes[ClassOf[p]] = Absent THEN Absent ELSE fsTypes[ClassOf[p]]

\* A file system that is not cached counts as ext4.
getFilesystemType(p) ==
    IF fsTypes[ClassOf[p]] = Absent THEN "ext4" ELSE fsTypes[ClassOf[p]]

\* The claim is over its inode threshold; the event that follows its expansion names the
\* file system, as a warning when that has a fixed number of inodes.
InodesReached(p) ==
    /\ pc[p] = "expandable"
    /\ told' = [told EXCEPT ![p] = getFilesystemType(p)]
    /\ Goto(p, "expanded")
    /\ UNCHANGED <<class, changes, cache, fsTypes, read, seen>>

\* Another check ends reconcilePVC, or the claim is expanded for its storage usage.
OtherReturn(p) ==
    /\ pc[p] = "expandable"
    /\ Goto(p, "refused")
    /\ UNCHANGED <<class, changes, cache, fsTypes, read, told, seen>>

IsStorageClassExpandable(p) ==
    \/ Get(p)
    \/ FetchClass(p)
    \/ FetchFails(p)
    \/ Set(p)
    \/ SetFsType(p)

Next ==
    \/ StartCycle
    \/ \E c \in Class : ChangeClass(c)
    \/ \E p \in PVC : \/ Acquire(p)
                      \/ IsStorageClassExpandable(p)
                      \/ InodesReached(p)
                      \/ OtherReturn(p)

Spec == Init /\ [][Next]_vars

-----------------------------------------------------------------------------
(***************************************************************************)
(* Properties                                                              *)
(***************************************************************************)

FixedInodes == {"ext3", "ext4"}

\* The type invariant, and when a goroutine holds a class and an event its file system.
TypeOK ==
    /\ class \in [Class -> StorageClass]
    /\ changes \in 0..MaxChanges
    /\ cache \in [Class -> BOOLEAN \cup {Absent}]
    /\ fsTypes \in [Class -> FsType \cup {Absent}]
    /\ pc \in [PVC -> {"queued"} \cup Running \cup Returned]
    /\ read \in [PVC -> StorageClass \cup {Absent}]
    /\ told \in [PVC -> FsType \cup {Absent}]
    /\ \A p \in PVC : /\ read[p] # Absent <=> pc[p] \in {"setting", "typing"}
                      /\ told[p] # Absent <=> pc[p] = "expanded"

\* A claim goes on to be expanded only if its class allowed it at some moment of this
\* very cycle: an administrator who forbids expansion is obeyed from the next cycle on,
\* however the goroutines' lookups and writes of the cache fall.
AllowedThisCycle ==
    \A p \in PVC : pc[p] \in {"expandable", "expanded"} =>
        \E s \in seen[ClassOf[p]] : s.expandable

\* "PVC Chonker will detect ext3/ext4 filesystems and warn": a claim expanded for lack
\* of inodes on a class that was ext3 or ext4 all through the cycle is warned about,
\* even by a goroutine that reads between the two writes of the cache.
FixedInodesWarned ==
    \A p \in PVC :
        /\ pc[p] = "expanded"
        /\ \A s \in seen[ClassOf[p]] : FsTypeOf(s) \in FixedInodes
        => told[p] \in FixedInodes

-----------------------------------------------------------------------------
(***************************************************************************)
(* What the events say and the code does not do: refuted by a run          *)
(***************************************************************************)

\* The event "%s filesystem has fixed inode count" is true: the class was of such a
\* file system at some moment of the cycle.  (A second claim of an xfs class finds the
\* class cached and its file system not yet.)
WarningIsTrue ==
    \A p \in PVC : told[p] \in FixedInodes =>
        \E s \in seen[ClassOf[p]] : FsTypeOf(s) \in FixedInodes

=============================================================================
