------------------------ MODULE GroupControllerProofs ------------------------
(***************************************************************************)
(* The group controller raises members as stored, and nothing else, for    *)
(* any number of managers, claims and templates.  The argument: a copy     *)
(* with the server's version is the stored claim; a copy that Reconcile    *)
(* holds is that of an active member below the size members are to have;   *)
(* so an Update that the server accepts raises such a member.              *)
(***************************************************************************)
EXTENDS GroupController, ClusterProofs, FiniteSetTheorems

CopiesAreVersions ==
    \A m \in Managers, p \in PVC :
        /\ IsVersionOf(claimCache[m][p], api[p])
        /\ members[m][p] # NoPVC => IsVersionOf(members[m][p], api[p])

IsBehind(m, p) ==
    /\ place[m] = "coordinating"
    /\ IsActive(members[m][p])
    /\ copy[m].size \in Nat /\ members[m][p].req < copy[m].size

\* What Reconcile is going to raise were active members below the size it computed.
MembersBehind ==
    \A m \in Managers, p \in PVC : members[m][p] # NoPVC => IsBehind(m, p)

\* The inductive invariant.
IInv == TypeOK /\ CopiesAreVersions /\ MembersBehind

\* A step of the reconciler, its watches and its group, and a step of anybody else.
GroupStep ==
    \/ DeleteGroup \/ CreateGroup
    \/ \E m \in Managers : \/ SyncGroup(m)
                           \/ \E p \in PVC : SyncClaim(m, p)
                           \/ Requeue(m)
                           \/ Reconcile(m)
                           \/ Restart(m)

OtherStep == VersionsGrow /\ UNCHANGED groupVars

Step == GroupStep \/ OtherStep

-----------------------------------------------------------------------------
(***************************************************************************)
(* The largest size                                                        *)
(***************************************************************************)

\* A finite set of numbers has a largest one: of the sets of elements above some
\* element, one is least, and its element has nothing above it.
LEMMA MaxIsLargest ==
    ASSUME NEW S, IsFiniteSet(S), S # {}, S \subseteq Nat
    PROVE  Max(S) \in S /\ \A y \in S : y <= Max(S)
<1> DEFINE Above(x) == {y \in S : y > x}
           T == {Above(x) : x \in S}
<1>1. ASSUME NEW x \in S, NEW y \in S, y > x
      PROVE  Above(y) \subseteq Above(x) /\ y \in Above(x) /\ y \notin Above(y)
    <2>1. x \in Nat /\ y \in Nat /\ \A z \in S : z \in Nat
        OBVIOUS
    <2>2. \A z \in S : z > y => z > x
        BY <1>1, <2>1
    <2>3. ~(y > y)
        BY <2>1
    <2> QED BY <1>1, <2>2, <2>3
<1>2. \A x \in S : Above(x) \in FiniteSubsetsOf(S)
    <2> TAKE x \in S
    <2>1. Above(x) \in SUBSET S
        OBVIOUS
    <2> HIDE DEF Above
    <2> QED BY <2>1, FS_Subset DEF FiniteSubsetsOf
<1>3. T \subseteq FiniteSubsetsOf(S) /\ T # {}
    <2> HIDE DEF Above
    <2> QED BY <1>2
<1>4. \E x \in S : \A y \in S : <<Above(y), Above(x)>> \notin StrictSubsetOrdering(S)
    <2>1. IsWellFoundedOn(StrictSubsetOrdering(S), FiniteSubsetsOf(S))
        BY FS_StrictSubsetOrderingWellFounded
    <2>2. PICK U \in T : \A V \in T : <<V, U>> \notin StrictSubsetOrdering(S)
        <3> HIDE DEF T
        <3> QED BY <1>3, <2>1, WFMin
    <2> HIDE DEF Above
    <2> QED BY <2>2
<1>5. ASSUME NEW x \in S, NEW y \in S, y > x
      PROVE  <<Above(y), Above(x)>> \in StrictSubsetOrdering(S)
    <2>1. Above(x) \in SUBSET S /\ Above(y) \in SUBSET S
        OBVIOUS
    <2> HIDE DEF Above
    <2> QED BY <1>1, <1>5, <2>1 DEF StrictSubsetOrdering
<1>6. \E x \in S : \A y \in S : ~(y > x)
    <2> HIDE DEF Above
    <2> QED BY <1>4, <1>5
<1>7. \E z \in S : \A y \in S : z >= y
    BY <1>6
<1> QED BY <1>7 DEF Max

\* The size members are to have is the largest that one of them asks for, or zero.
LEMMA LargestOfMembers ==
    ASSUME NEW f \in [PVC -> Object], NEW A \in SUBSET PVC
    PROVE  LET target == calculateLargestSize({f[p] : p \in A})
           IN  /\ target \in Nat
               /\ \A p \in A : f[p].req <= target
               /\ target = 0 \/ \E p \in A : f[p].req = target
<1> DEFINE reqs == {f[p].req : p \in A}
           S == {0} \cup {o.req : o \in {f[p] : p \in A}}
<1>1. S = {0} \cup reqs
    OBVIOUS
<1>2. \A p \in A : f[p].req \in Nat
    BY DEF Object
<1>3. IsFiniteSet(A)
    BY GroupAssumption, FS_Subset DEF GroupAssumption
<1>4. IsFiniteSet(reqs)
    <2>1. [p \in A |-> f[p].req] \in Surjection(A, reqs)
        BY DEF Surjection
    <2> QED BY <1>3, <2>1, FS_Surjection
<1>5. IsFiniteSet(S) /\ S # {} /\ S \subseteq Nat
    <2>1. IsFiniteSet({0})
        BY FS_Singleton
    <2>2. IsFiniteSet({0} \cup reqs)
        BY <1>4, <2>1, FS_Union
    <2> QED BY <1>1, <1>2, <2>2
<1>6. Max(S) \in S /\ \A y \in S : y <= Max(S)
    BY <1>5, MaxIsLargest
<1>7. calculateLargestSize({f[p] : p \in A}) = Max(S)
    BY DEF calculateLargestSize
<1> HIDE DEF S
<1> QED BY <1>1, <1>5, <1>6, <1>7

-----------------------------------------------------------------------------
(***************************************************************************)
(* Every step of the specification                                         *)
(***************************************************************************)

\* What the server does when it takes the Update of a member.
Raised(m, p) ==
    /\ members[m][p] = api[p]
    /\ IsActive(api[p])
    /\ copy[m].size \in Nat /\ copy[m].size > api[p].req
    /\ Accepts(p, api[p], copy[m].size)
    /\ \E w \in Written(api[p], copy[m].size, api[p].last) : api' = [api EXCEPT ![p] = w]
    /\ now' = now

\* An Update of the reconciler that the server takes raises an active member as stored.
LEMMA RaiseOnStoredMember ==
    ASSUME IInv, NEW m \in Managers, NEW p \in Behind(m), Raise(m, p), now' = now
    PROVE  Raised(m, p)
<1>1. p \in PVC /\ members[m][p] # NoPVC
    BY DEF Behind
<1>2. members[m][p] = api[p]
    BY <1>1 DEF IInv, CopiesAreVersions, IsVersionOf, Raise, Accepts
<1>3. IsActive(api[p]) /\ copy[m].size \in Nat /\ api[p].req < copy[m].size
    BY <1>1, <1>2 DEF IInv, MembersBehind, IsBehind
<1>4. api[p].req \in Nat
    BY <1>1 DEF IInv, TypeOK, ClusterTypeOK, Object
<1> QED BY <1>2, <1>3, <1>4 DEF Raised, Raise

LEMMA RaisedGrows ==
    ASSUME IInv, NEW m \in Managers, NEW p \in PVC, Raised(m, p)
    PROVE  VersionsGrow
<1>1. api \in [PVC -> Object] /\ now \in Nat /\ api[p].last \in Nat \cup {Absent}
    BY DEF IInv, TypeOK, ClusterTypeOK, Object
<1>2. PICK w \in Written(api[p], copy[m].size, api[p].last) : api' = [api EXCEPT ![p] = w]
    BY DEF Raised
<1>3. w \in Object /\ (w = api[p] \/ w.rv > api[p].rv)
    BY <1>1, WrittenGrows DEF Raised
<1> QED BY <1>1, <1>2, <1>3 DEF VersionsGrow, Raised

\* Every step but a raise leaves server and clock alone.
LEMMA GroupRaises ==
    ASSUME IInv, GroupStep
    PROVE  VersionsGrow /\ (UNCHANGED clusterVars \/ \E m \in Managers, p \in PVC : Raised(m, p))
<1>1. ASSUME UNCHANGED clusterVars PROVE VersionsGrow
    BY <1>1 DEF VersionsGrow, clusterVars, IInv, TypeOK, ClusterTypeOK
<1>2. ASSUME NEW m \in Managers, NEW p \in PVC, CoordinatePVC(m, p) \/ CoordinationFails(m, p)
      PROVE  UNCHANGED clusterVars \/ Raised(m, p)
    BY <1>2, RaiseOnStoredMember DEF CoordinatePVC, CoordinationFails, clusterVars
<1>3. CASE DeleteGroup \/ CreateGroup
    BY <1>1, <1>3 DEF DeleteGroup, CreateGroup, clusterVars
<1>4. ASSUME NEW m \in Managers,
             SyncGroup(m) \/ (\E p \in PVC : SyncClaim(m, p)) \/ Requeue(m) \/ Restart(m)
      PROVE  UNCHANGED clusterVars
    BY <1>4 DEF SyncGroup, SyncClaim, Requeue, Restart, clusterVars
<1>5. ASSUME NEW m \in Managers,
             GetGroup(m) \/ ListMembers(m) \/ ReadFails(m) \/ UpdateStatus(m) \/ StatusFails(m)
      PROVE  UNCHANGED clusterVars
    BY <1>5 DEF GetGroup, ListMembers, ReadFails, UpdateStatus, StatusFails, clusterVars
<1> QED BY <1>1, <1>2, <1>3, <1>4, <1>5, RaisedGrows DEF GroupStep, Reconcile

\* Every step of the specification is one of the two kinds.
LEMMA NextIsStep ==
    ASSUME IInv, [Next]_vars
    PROVE  Step
<1>1. ClusterTypeOK
    BY DEF IInv, TypeOK
<1>2. CASE Environment /\ UNCHANGED groupVars
    BY <1>1, <1>2, EnvironmentGrows DEF Step, OtherStep
<1>3. CASE UNCHANGED vars
    BY <1>1, <1>3 DEF Step, OtherStep, VersionsGrow, ClusterTypeOK, vars, groupVars
<1> QED BY <1>2, <1>3 DEF Next, Step, GroupStep

LEMMA StepGrows ==
    ASSUME IInv, Step
    PROVE  VersionsGrow
BY GroupRaises DEF Step, OtherStep

-----------------------------------------------------------------------------
(***************************************************************************)
(* The invariant                                                           *)
(***************************************************************************)

LEMMA InitIInv == Init => IInv
<1> SUFFICES ASSUME Init PROVE IInv
    OBVIOUS
<1>1. api \in [PVC -> Object]
    BY ClusterAssumption DEF Init, ClusterInit, ClusterAssumption
<1>2. NewGroup(0) \in Group
    BY DEF NewGroup, Group
<1>3. group \in Group
    BY <1>2 DEF Init, Group
<1>4. TypeOK
    BY <1>1, <1>2, <1>3 DEF Init, ClusterInit, TypeOK, ClusterTypeOK, NoCopy
<1>5. CopiesAreVersions /\ MembersBehind
    BY <1>1 DEF Init, CopiesAreVersions, MembersBehind, IsVersionOf, Object
<1> QED BY <1>4, <1>5 DEF IInv

\* A group with a new status is a group.
LEMMA NewStatus ==
    ASSUME NEW g \in Group, NEW count \in Nat, NEW second \in Nat, NEW size \in Nat \cup {Absent}
    PROVE  LET h == [g EXCEPT !.members = count, !.updated = second, !.size = size]
           IN  h \in Group /\ h.size = size
BY DEF Group

\* What a manager takes for the active members, and the largest of their requests.
ActiveAt(m) == {p \in PVC : IsActive(claimCache[m][p])}
LargestAt(m) == calculateLargestSize({claimCache[m][p] : p \in ActiveAt(m)})

\* The status that a listing computes: numbers, and the largest request if there is one.
LEMMA ListedStatus ==
    ASSUME IInv, NEW m \in Managers, ListMembers(m)
    PROVE  /\ copy' \in [Managers -> Group]
           /\ LargestAt(m) \in Nat
           /\ ActiveAt(m) # {} => copy'[m].size = LargestAt(m)
<1>1. copy[m] \in Group /\ claimCache[m] \in [PVC -> Object] /\ now \in Nat
    BY DEF IInv, TypeOK, ClusterTypeOK
<1>2. MemberCount(ActiveAt(m)) \in Nat
    <2>1. ActiveAt(m) \in SUBSET PVC
        BY DEF ActiveAt
    <2>2. IsFiniteSet(ActiveAt(m))
        BY <2>1, GroupAssumption, FS_Subset DEF GroupAssumption
    <2> QED BY <2>2, FS_CardinalityType DEF MemberCount
<1>3. LargestAt(m) \in Nat
    <2>1. ActiveAt(m) \in SUBSET PVC
        BY DEF ActiveAt
    <2> QED BY <1>1, <2>1, LargestOfMembers DEF LargestAt
<1>4. RFC3339(now) \in Nat
    BY <1>1, RFC3339Second
<1> DEFINE size == IF ActiveAt(m) = {} THEN copy[m].size ELSE LargestAt(m)
           listed == [copy[m] EXCEPT !.members = MemberCount(ActiveAt(m)), !.updated = RFC3339(now),
                                     !.size = size]
<1>5. size \in Nat \cup {Absent}
    BY <1>1, <1>3 DEF Group
<1>6. listed \in Group /\ listed.size = size
    <2> DEFINE Status(count, second, to) ==
                   [copy[m] EXCEPT !.members = count, !.updated = second, !.size = to]
    <2>1. \A count, second \in Nat, to \in Nat \cup {Absent} :
              Status(count, second, to) \in Group /\ Status(count, second, to).size = to
        BY <1>1, NewStatus
    <2>2. listed = Status(MemberCount(ActiveAt(m)), RFC3339(now), size)
        OBVIOUS
    <2> HIDE DEF Status, listed, size
    <2> QED BY <1>2, <1>4, <1>5, <2>1, <2>2
<1>7. copy' = [copy EXCEPT ![m] = listed]
    BY DEF ListMembers, ActiveAt, LargestAt
<1>8. copy \in [Managers -> Group]
    BY DEF IInv, TypeOK
<1> HIDE DEF listed
<1> QED BY <1>3, <1>6, <1>7, <1>8

LEMMA ReturnType ==
    ASSUME TypeOK, NEW m \in Managers, NEW again \in BOOLEAN, Return(m, again)
    PROVE  /\ place' \in [Managers -> {"idle", "listing", "coordinating"}]
           /\ delayed' \in [Managers -> BOOLEAN]
           /\ copy' \in [Managers -> Group]
           /\ members' \in [Managers -> [PVC -> Object \cup {NoPVC}]]
<1>1. NoCopy \in Group
    BY DEF NewGroup, NoCopy, Group
<1>2. [p \in PVC |-> NoPVC] \in [PVC -> Object \cup {NoPVC}]
    OBVIOUS
<1>3. (delayed[m] \/ again) \in BOOLEAN
    BY DEF TypeOK
<1>4. delayed' \in [Managers -> BOOLEAN]
    <2>1. delayed' = [delayed EXCEPT ![m] = delayed[m] \/ again]
        BY DEF Return
    <2> QED BY <1>3, <2>1 DEF TypeOK
<1> QED BY <1>1, <1>2, <1>4 DEF Return, TypeOK

LEMMA TypeStep ==
    ASSUME IInv, Step
    PROVE  TypeOK'
<1>1. ClusterTypeOK' /\ now' \in Nat /\ TypeOK
    BY StepGrows DEF VersionsGrow, ClusterTypeOK, IInv
<1>2. NewGroup(0) \in Group /\ NoCopy \in Group
    BY DEF NewGroup, NoCopy, Group
<1>3. CASE OtherStep
    BY <1>1, <1>3 DEF OtherStep, groupVars, TypeOK
<1>4. CASE DeleteGroup \/ CreateGroup
    <2>1. group \in Group
        BY <1>1 DEF TypeOK
    <2>2. CASE DeleteGroup
        <3>1. group' = [group EXCEPT !.exists = FALSE, !.rv = group.rv + 1]
            BY <2>2 DEF DeleteGroup
        <3>2. group' = [rv |-> group.rv + 1, exists |-> FALSE, members |-> group.members,
                        size |-> group.size, updated |-> group.updated]
            BY <2>1, <3>1 DEF Group
        <3>3. group' \in Group
            BY <2>1, <3>2 DEF Group
        <3> QED BY <1>1, <2>2, <3>3 DEF DeleteGroup, TypeOK
    <2>3. CASE CreateGroup
        <3>1. group' \in Group
            BY <2>1, <2>3 DEF CreateGroup, NewGroup, Group
        <3> QED BY <1>1, <2>3, <3>1 DEF CreateGroup, TypeOK
    <2> QED BY <1>4, <2>2, <2>3
<1>5. ASSUME NEW m \in Managers, SyncGroup(m) PROVE TypeOK'
    BY <1>1, <1>5 DEF SyncGroup, TypeOK
<1>6. ASSUME NEW m \in Managers, Requeue(m) PROVE TypeOK'
    BY <1>1, <1>6 DEF Requeue, TypeOK
<1>7. ASSUME NEW m \in Managers, NEW p \in PVC, SyncClaim(m, p) PROVE TypeOK'
    <2>1. claimCache' \in [Managers -> [PVC -> Object]]
        BY <1>1, <1>7 DEF SyncClaim, TypeOK, ClusterTypeOK
    <2>2. queued' \in [Managers -> BOOLEAN]
        <3> DEFINE names == {findPVCGroupForPVC(claimCache[m][p]), findPVCGroupForPVC(api[p])}
        <3>1. queued' = [queued EXCEPT ![m] = queued[m] \/ GroupName \in names]
            BY <1>7 DEF SyncClaim
        <3>2. (queued[m] \/ GroupName \in names) \in BOOLEAN
            BY <1>1 DEF TypeOK
        <3> HIDE DEF names
        <3> QED BY <1>1, <3>1, <3>2 DEF TypeOK
    <2> QED BY <1>1, <1>7, <2>1, <2>2 DEF SyncClaim, TypeOK
<1>8. ASSUME NEW m \in Managers, GetGroup(m) PROVE TypeOK'
    <2>1. queued' \in [Managers -> BOOLEAN]
        BY <1>1, <1>8 DEF GetGroup, TypeOK
    <2>2. CASE groupCache[m].exists
        BY <1>1, <1>8, <2>1, <2>2 DEF GetGroup, TypeOK
    <2>3. CASE ~groupCache[m].exists
        BY <1>1, <1>8, <2>1, <2>3, ReturnType DEF GetGroup, TypeOK
    <2> QED BY <2>2, <2>3
<1>9. ASSUME NEW m \in Managers, ListMembers(m) PROVE TypeOK'
    <2> DEFINE kept == {p \in PVC : members'[m][p] # NoPVC}
    <2>1. copy' \in [Managers -> Group]
        BY <1>9, ListedStatus
    <2>2. PICK f \in [PVC -> Object \cup {NoPVC}] : members' = [members EXCEPT ![m] = f]
        <3> DEFINE active == {p \in PVC : IsActive(claimCache[m][p])}
                   target == calculateLargestSize({claimCache[m][p] : p \in active})
                   behind == {p \in active : claimCache[m][p].req < target}
        <3>1. members' = [members EXCEPT ![m] =
                            [p \in PVC |-> IF p \in behind THEN claimCache[m][p] ELSE NoPVC]]
            BY <1>9 DEF ListMembers
        <3>2. \A p \in PVC : claimCache[m][p] \in Object
            BY <1>1 DEF TypeOK
        <3> HIDE DEF behind
        <3> QED BY <3>1, <3>2
    <2>3. members' \in [Managers -> [PVC -> Object \cup {NoPVC}]]
        BY <1>1, <2>2 DEF TypeOK
    <2>4. place' \in [Managers -> {"idle", "listing", "coordinating"}]
        BY <1>1, <1>9 DEF ListMembers, TypeOK
    <2>5. UNCHANGED <<group, groupCache, claimCache, queued, delayed>>
        BY <1>9 DEF ListMembers
    <2> QED BY <1>1, <2>1, <2>3, <2>4, <2>5 DEF TypeOK
<1>10. ASSUME NEW m \in Managers, ReadFails(m) \/ StatusFails(m) PROVE TypeOK'
    BY <1>1, <1>10, ReturnType DEF ReadFails, StatusFails, TypeOK
<1>11. ASSUME NEW m \in Managers, UpdateStatus(m) PROVE TypeOK'
    <2>1. group \in Group /\ copy[m] \in Group
        BY <1>1 DEF TypeOK
    <2>2. group' = group \/ group' = [copy[m] EXCEPT !.rv = copy[m].rv + 1]
        BY <1>11 DEF UpdateStatus
    <2>3. group' \in Group
        BY <2>1, <2>2 DEF Group
    <2> QED BY <1>1, <1>11, <2>3, ReturnType DEF UpdateStatus, TypeOK
<1>12. ASSUME NEW m \in Managers, NEW p \in PVC, CoordinatePVC(m, p) PROVE TypeOK'
    BY <1>1, <1>12 DEF CoordinatePVC, TypeOK
<1>13. ASSUME NEW m \in Managers, NEW p \in PVC, CoordinationFails(m, p) PROVE TypeOK'
    BY <1>1, <1>13, ReturnType DEF CoordinationFails, TypeOK
<1>14. ASSUME NEW m \in Managers, Restart(m) PROVE TypeOK'
    <2>1. [p \in PVC |-> NoPVC] \in [PVC -> Object \cup {NoPVC}] /\ api \in [PVC -> Object]
        BY <1>1 DEF TypeOK, ClusterTypeOK
    <2> QED BY <1>1, <1>2, <1>14, <2>1 DEF Restart, TypeOK
<1> QED BY <1>3, <1>4, <1>5, <1>6, <1>7, <1>8, <1>9, <1>10, <1>11, <1>12, <1>13, <1>14
        DEF Step, GroupStep, Reconcile

\* Where the copies come from: what was there, the server, or the informer's cache.
LEMMA CopiesFrom ==
    ASSUME IInv, Step, NEW m \in Managers, NEW p \in PVC
    PROVE  /\ claimCache'[m][p] \in {claimCache[m][p], api[p]}
           /\ members'[m][p] \in {NoPVC, members[m][p], claimCache[m][p]}
<1> USE DEF IInv, TypeOK
<1>1. CASE OtherStep
    BY <1>1 DEF OtherStep, groupVars
<1>2. CASE DeleteGroup \/ CreateGroup
    BY <1>2 DEF DeleteGroup, CreateGroup
<1>3. ASSUME NEW n \in Managers, SyncGroup(n) \/ Requeue(n) \/ Restart(n)
      PROVE  /\ claimCache'[m][p] \in {claimCache[m][p], api[p]}
             /\ members'[m][p] \in {NoPVC, members[m][p], claimCache[m][p]}
    BY <1>3 DEF SyncGroup, Requeue, Restart
<1>4. ASSUME NEW n \in Managers, NEW r \in PVC, SyncClaim(n, r)
      PROVE  /\ claimCache'[m][p] \in {claimCache[m][p], api[p]}
             /\ members'[m][p] \in {NoPVC, members[m][p], claimCache[m][p]}
    BY <1>4 DEF SyncClaim
<1>5. ASSUME NEW n \in Managers,
             GetGroup(n) \/ ReadFails(n) \/ UpdateStatus(n) \/ StatusFails(n)
      PROVE  /\ claimCache'[m][p] \in {claimCache[m][p], api[p]}
             /\ members'[m][p] \in {NoPVC, members[m][p], claimCache[m][p]}
    BY <1>5 DEF GetGroup, ReadFails, UpdateStatus, StatusFails, Return
<1>6. ASSUME NEW n \in Managers, ListMembers(n)
      PROVE  /\ claimCache'[m][p] \in {claimCache[m][p], api[p]}
             /\ members'[m][p] \in {NoPVC, members[m][p], claimCache[m][p]}
    BY <1>6 DEF ListMembers
<1>7. ASSUME NEW n \in Managers, NEW r \in PVC, CoordinatePVC(n, r) \/ CoordinationFails(n, r)
      PROVE  /\ claimCache'[m][p] \in {claimCache[m][p], api[p]}
             /\ members'[m][p] \in {NoPVC, members[m][p], claimCache[m][p]}
    BY <1>7 DEF CoordinatePVC, CoordinationFails, Return
<1> QED BY <1>1, <1>2, <1>3, <1>4, <1>5, <1>6, <1>7 DEF Step, GroupStep, Reconcile

LEMMA CopiesStep ==
    ASSUME IInv, Step
    PROVE  CopiesAreVersions'
<1> SUFFICES ASSUME NEW m \in Managers, NEW p \in PVC
             PROVE  /\ IsVersionOf(claimCache'[m][p], api'[p])
                    /\ members'[m][p] # NoPVC => IsVersionOf(members'[m][p], api'[p])
    BY DEF CopiesAreVersions
<1>1. /\ api \in [PVC -> Object] /\ claimCache[m][p] \in Object
      /\ members[m][p] \in Object \cup {NoPVC}
    BY DEF IInv, TypeOK, ClusterTypeOK
<1>2. /\ IsVersionOf(claimCache[m][p], api[p]) /\ IsVersionOf(api[p], api[p])
      /\ members[m][p] # NoPVC => IsVersionOf(members[m][p], api[p])
    BY <1>1 DEF IInv, CopiesAreVersions, IsVersionOf, Object
<1>3. /\ IsVersionOf(claimCache[m][p], api'[p]) /\ IsVersionOf(api[p], api'[p])
      /\ members[m][p] # NoPVC => IsVersionOf(members[m][p], api'[p])
    BY <1>1, <1>2, StepGrows, StillVersion
<1> QED BY <1>3, CopiesFrom

LEMMA BehindStep ==
    ASSUME IInv, Step
    PROVE  MembersBehind'
<1> SUFFICES ASSUME NEW m \in Managers, NEW p \in PVC, members'[m][p] # NoPVC
             PROVE  IsBehind(m, p)'
    BY DEF MembersBehind, IsBehind
<1> USE DEF IInv, TypeOK
<1>1. ASSUME members'[m][p] = members[m][p], copy'[m] = copy[m], place'[m] = place[m]
      PROVE  IsBehind(m, p)'
    BY <1>1 DEF MembersBehind, IsBehind
<1>2. CASE OtherStep
    BY <1>1, <1>2 DEF OtherStep, groupVars
<1>3. CASE DeleteGroup \/ CreateGroup
    BY <1>1, <1>3 DEF DeleteGroup, CreateGroup
<1>4. ASSUME NEW n \in Managers, SyncGroup(n) \/ (\E r \in PVC : SyncClaim(n, r)) \/ Requeue(n)
      PROVE  IsBehind(m, p)'
    BY <1>1, <1>4 DEF SyncGroup, SyncClaim, Requeue
<1>5. ASSUME NEW n \in Managers,
             Restart(n) \/ ReadFails(n) \/ UpdateStatus(n) \/ StatusFails(n)
                        \/ (\E r \in PVC : CoordinationFails(n, r))
      PROVE  IsBehind(m, p)'
    <2>1. /\ members' = [members EXCEPT ![n] = [q \in PVC |-> NoPVC]]
          /\ place' = [place EXCEPT ![n] = "idle"] /\ copy' = [copy EXCEPT ![n] = NoCopy]
        BY <1>5 DEF Restart, ReadFails, UpdateStatus, StatusFails, CoordinationFails, Return
    <2>2. n # m
        BY <2>1
    <2> QED BY <1>1, <2>1, <2>2
<1>6. ASSUME NEW n \in Managers, NEW r \in PVC, CoordinatePVC(n, r)
      PROVE  IsBehind(m, p)'
    BY <1>1, <1>6 DEF CoordinatePVC
\* Nothing is left to raise when a reconciliation begins.
<1>7. ASSUME NEW n \in Managers, GetGroup(n)
      PROVE  IsBehind(m, p)'
    <2>1. CASE n # m
        BY <1>1, <1>7, <2>1 DEF GetGroup, Return
    <2>2. CASE n = m
        <3>1. place[m] = "idle" /\ members[m][p] = NoPVC
            BY <1>7, <2>2 DEF GetGroup, MembersBehind, IsBehind
        <3>2. members'[m][p] = NoPVC
            BY <1>7, <2>2, <3>1 DEF GetGroup, Return
        <3> QED BY <3>2
    <2> QED BY <2>1, <2>2
<1>8. ASSUME NEW n \in Managers, ListMembers(n)
      PROVE  IsBehind(m, p)'
    <2>1. CASE n # m
        BY <1>1, <1>8, <2>1 DEF ListMembers
    <2>2. CASE n = m
        <3>1. ListMembers(m) /\ ActiveAt(m) # {} => copy'[m].size = LargestAt(m)
            BY <1>8, <2>2, ListedStatus
        <3>2. LargestAt(m) \in Nat
            BY <1>8, <2>2, ListedStatus
        <3>3. /\ p \in ActiveAt(m) /\ claimCache[m][p].req < LargestAt(m)
              /\ members'[m][p] = claimCache[m][p] /\ place'[m] = "coordinating"
            BY <1>8, <2>2 DEF ListMembers, ActiveAt, LargestAt
        <3>4. IsActive(claimCache[m][p])
            BY <3>3 DEF ActiveAt
        <3> QED BY <1>8, <2>2, <3>1, <3>2, <3>3, <3>4 DEF IsBehind
    <2> QED BY <2>1, <2>2
<1> QED BY <1>1, <1>2, <1>3, <1>4, <1>5, <1>6, <1>7, <1>8 DEF Step, GroupStep, Reconcile

\* Nobody but an ending or a beginning reconciliation changes which members are left
\* to raise, apart from the raise of one; the size is computed from the cached members.
LEMMA SizeFrom ==
    ASSUME IInv, Step, NEW m \in Managers, Behind(m)' # {}
    PROVE  \/ Behind(m) # {} /\ copy'[m].size = copy[m].size
           \/ \E p \in PVC : IsActive(claimCache[m][p]) /\ claimCache[m][p].req = copy'[m].size
<1> DEFINE Kept == Behind(m) # {} /\ copy'[m].size = copy[m].size
<1>1. PICK p \in PVC : members'[m][p] # NoPVC
    BY DEF Behind
<1> USE DEF IInv, TypeOK
<1>2. CASE OtherStep
    BY <1>1, <1>2 DEF OtherStep, groupVars, Behind
<1>3. CASE DeleteGroup \/ CreateGroup
    BY <1>1, <1>3 DEF DeleteGroup, CreateGroup, Behind
<1>4. ASSUME NEW n \in Managers, SyncGroup(n) \/ (\E r \in PVC : SyncClaim(n, r)) \/ Requeue(n)
      PROVE  Kept
    BY <1>1, <1>4 DEF SyncGroup, SyncClaim, Requeue, Behind
<1>5. ASSUME NEW n \in Managers,
             Restart(n) \/ ReadFails(n) \/ UpdateStatus(n) \/ StatusFails(n)
                        \/ (\E r \in PVC : CoordinationFails(n, r))
      PROVE  Kept
    <2>1. /\ members' = [members EXCEPT ![n] = [q \in PVC |-> NoPVC]]
          /\ copy' = [copy EXCEPT ![n] = NoCopy]
        BY <1>5 DEF Restart, ReadFails, UpdateStatus, StatusFails, CoordinationFails, Return
    <2>2. n # m
        BY <1>1, <2>1
    <2> QED BY <1>1, <2>1, <2>2 DEF Behind
<1>6. ASSUME NEW n \in Managers, NEW r \in PVC, CoordinatePVC(n, r)
      PROVE  Kept
    BY <1>1, <1>6 DEF CoordinatePVC, Behind
<1>7. ASSUME NEW n \in Managers, GetGroup(n)
      PROVE  Kept
    <2>1. CASE n # m
        BY <1>1, <1>7, <2>1 DEF GetGroup, Return, Behind
    <2>2. CASE n = m
        <3>1. place[m] = "idle" /\ members[m][p] = NoPVC
            BY <1>7, <2>2 DEF GetGroup, MembersBehind, IsBehind
        <3>2. members'[m][p] = NoPVC
            BY <1>7, <2>2, <3>1 DEF GetGroup, Return
        <3> QED BY <1>1, <3>2
    <2> QED BY <2>1, <2>2
<1>8. ASSUME NEW n \in Managers, n # m, ListMembers(n)
      PROVE  Kept
    BY <1>1, <1>8 DEF ListMembers, Behind
<1>9. ASSUME ListMembers(m)
      PROVE  \E q \in PVC : IsActive(claimCache[m][q]) /\ claimCache[m][q].req = copy'[m].size
    <2>1. claimCache[m] \in [PVC -> Object]
        OBVIOUS
    <2>2. LargestAt(m) = 0 \/ \E q \in ActiveAt(m) : claimCache[m][q].req = LargestAt(m)
        <3>1. ActiveAt(m) \in SUBSET PVC
            BY DEF ActiveAt
        <3> QED BY <2>1, <3>1, LargestOfMembers DEF LargestAt
    <2>3. p \in ActiveAt(m) /\ claimCache[m][p].req < LargestAt(m)
        BY <1>1, <1>9 DEF ListMembers, ActiveAt, LargestAt
    <2>4. LargestAt(m) # 0
        BY <2>1, <2>3 DEF Object
    <2>5. copy'[m].size = LargestAt(m)
        BY <1>9, <2>3, ListedStatus
    <2>6. \A q \in ActiveAt(m) : q \in PVC /\ IsActive(claimCache[m][q])
        BY DEF ActiveAt
    <2> QED BY <2>2, <2>4, <2>5, <2>6
<1> QED BY <1>2, <1>3, <1>4, <1>5, <1>6, <1>7, <1>8, <1>9 DEF Step, GroupStep, Reconcile

\* A step of the group controller, and one of anybody else, keep the invariant.
LEMMA StepKeepsIInv ==
    ASSUME IInv, Step
    PROVE  IInv'
BY TypeStep, CopiesStep, BehindStep DEF IInv

-----------------------------------------------------------------------------
(***************************************************************************)
(* The theorems                                                            *)
(***************************************************************************)

\* The inductive invariant holds of PVCGroupReconciler.
THEOREM Invariance == Spec => []IInv
<1>1. IInv /\ [Next]_vars => IInv'
    BY NextIsStep, StepKeepsIInv
<1> QED BY InitIInv, <1>1, PTL DEF Spec

\* Type correctness of PVCGroupReconciler's state, for any managers and claims.
THEOREM TypeCorrectness == Spec => []TypeOK
<1>1. IInv => TypeOK
    BY DEF IInv
<1> QED BY Invariance, <1>1, PTL

\* What a raise does to the claims' requests.
LEMMA RaisedRequests ==
    ASSUME IInv, NEW m \in Managers, NEW p \in PVC, Raised(m, p)
    PROVE  /\ api'[p].req = copy[m].size /\ api'[p].req > api[p].req
           /\ \A q \in PVC \ {p} : api'[q] = api[q]
<1>1. api \in [PVC -> Object]
    BY DEF IInv, TypeOK, ClusterTypeOK
<1>2. PICK w \in Written(api[p], copy[m].size, api[p].last) : api' = [api EXCEPT ![p] = w]
    BY DEF Raised
<1>3. w.req = copy[m].size
    BY <1>1, WrittenRequest
<1> QED BY <1>1, <1>2, <1>3 DEF Raised

\* "No volume ever gets smaller" by a reconciliation, whatever its copies say, and
\* although the server may let a pending request be lowered: only users lower theirs.
THEOREM NeverShrink == Spec => RequestsNeverShrink
<1>1. ASSUME IInv, [Next]_vars
      PROVE  [\A p \in PVC : \/ api'[p].req >= api[p].req
                             \/ UserResize(p) /\ UNCHANGED groupVars]_vars
    <2>1. \A p \in PVC : api[p].req \in Nat
        BY <1>1 DEF IInv, TypeOK, ClusterTypeOK, Object
    <2>2. ASSUME api' = api PROVE \A p \in PVC : api'[p].req >= api[p].req
        BY <2>1, <2>2
    <2>3. CASE Environment /\ UNCHANGED groupVars
        BY <1>1, <2>3, EnvironmentNeverShrinks DEF IInv, TypeOK
    <2>4. CASE GroupStep
        <3>1. ASSUME NEW m \in Managers, NEW q \in PVC, Raised(m, q)
              PROVE  \A p \in PVC : api'[p].req >= api[p].req
            <4>1. /\ api'[q].req > api[q].req /\ api'[q].req \in Nat
                  /\ \A p \in PVC \ {q} : api'[p] = api[p]
                BY <1>1, <3>1, RaisedRequests DEF Raised
            <4> QED BY <2>1, <4>1
        <3> QED BY <1>1, <2>2, <2>4, <3>1, GroupRaises DEF clusterVars
    <2>5. CASE UNCHANGED vars
        BY <2>5
    <2> QED BY <1>1, <2>3, <2>4, <2>5 DEF Next, GroupStep
<1> QED BY Invariance, <1>1, PTL DEF Spec, RequestsNeverShrink

\* A raise, of the claim whose copy it uses up, is one of an active member as stored.
LEMMA MembersOnlyStep ==
    ASSUME IInv, Step, NEW m \in Managers, NEW p \in PVC,
           members'[m][p] # members[m][p], api'[p].req # api[p].req
    PROVE  IsActive(api[p])
<1>1. CASE OtherStep
    BY <1>1 DEF OtherStep, groupVars
<1>2. CASE GroupStep
    <2>1. ASSUME NEW n \in Managers, NEW q \in PVC, Raised(n, q)
          PROVE  IsActive(api[p])
        <3>1. p = q
            BY <2>1, RaisedRequests
        <3> QED BY <2>1, <3>1 DEF Raised
    <2> QED BY <1>2, <2>1, GroupRaises DEF clusterVars
<1> QED BY <1>1, <1>2 DEF Step

\* A claim that left the group, or was disabled, since a reconciliation listed it is not
\* raised by that reconciliation.
THEOREM MembersOnly == Spec => OnlyMembersRaised
<1>1. IInv /\ [Next]_vars
          => [\A m \in Managers, p \in PVC :
                 members'[m][p] # members[m][p] /\ api'[p].req # api[p].req => IsActive(api[p])]_vars
    BY NextIsStep, MembersOnlyStep
<1> QED BY Invariance, <1>1, PTL DEF Spec, OnlyMembersRaised

\* What keeps a group from being forgotten is inductive: whoever ends a reconciliation
\* leaves a delay, unless the group is gone.
LEMMA NeverForgottenStep ==
    ASSUME IInv, Step, NeverForgotten
    PROVE  NeverForgotten'
<1> USE DEF NeverForgotten, IInv, TypeOK
<1>1. CASE OtherStep
    BY <1>1 DEF OtherStep, groupVars
<1>2. CASE DeleteGroup \/ CreateGroup
    BY <1>2 DEF DeleteGroup, CreateGroup
<1>3. ASSUME NEW m \in Managers, SyncGroup(m) \/ Requeue(m) \/ Restart(m)
      PROVE  NeverForgotten'
    BY <1>3 DEF SyncGroup, Requeue, Restart
<1>4. ASSUME NEW m \in Managers, NEW p \in PVC, SyncClaim(m, p)
      PROVE  NeverForgotten'
    BY <1>4 DEF SyncClaim
<1>5. ASSUME NEW m \in Managers, GetGroup(m)
      PROVE  NeverForgotten'
    <2>1. CASE groupCache[m].exists
        BY <1>5, <2>1 DEF GetGroup
    <2>2. CASE ~groupCache[m].exists
        BY <1>5, <2>2 DEF GetGroup, Return
    <2> QED BY <2>1, <2>2
<1>6. ASSUME NEW m \in Managers, ListMembers(m)
      PROVE  NeverForgotten'
    BY <1>6 DEF ListMembers
<1>7. ASSUME NEW m \in Managers, NEW p \in PVC, CoordinatePVC(m, p)
      PROVE  NeverForgotten'
    BY <1>7 DEF CoordinatePVC
<1>8. ASSUME NEW m \in Managers, Return(m, TRUE), UNCHANGED <<groupCache, queued>>
      PROVE  NeverForgotten'
    BY <1>8 DEF Return
<1>9. ASSUME NEW m \in Managers,
             ReadFails(m) \/ UpdateStatus(m) \/ StatusFails(m) \/ \E p \in PVC : CoordinationFails(m, p)
      PROVE  NeverForgotten'
    BY <1>8, <1>9 DEF ReadFails, UpdateStatus, StatusFails, CoordinationFails
<1> QED BY <1>1, <1>2, <1>3, <1>4, <1>5, <1>6, <1>7, <1>9 DEF Step, GroupStep, Reconcile

\* No error, conflict, lost answer or restart ends the reconciliation of a group that
\* exists for good.
THEOREM ComesBackTheorem == Spec => []NeverForgotten
<1>1. Init => NeverForgotten
    BY DEF Init, NeverForgotten
<1>2. IInv /\ NeverForgotten /\ [Next]_vars => NeverForgotten'
    BY NextIsStep, NeverForgottenStep
<1> QED BY <1>1, <1>2, Invariance, PTL DEF Spec

=============================================================================
