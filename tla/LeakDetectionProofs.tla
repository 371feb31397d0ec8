-------------------------- MODULE LeakDetectionProofs --------------------------
(***************************************************************************)
(* Proofs about LeakDetection, for any objects, thresholds, process states *)
(* and bounds.                                                             *)
(***************************************************************************)
EXTENDS LeakDetection, SequenceLemmas

(* What the three lists are. *)
IsList(list) == list \in Seq(Object) /\ IsInjective(list)

-----------------------------------------------------------------------------
(* The filter.                                                             *)

(* The places of what is kept are counted without a gap. *)
LEMMA PlacesCounted ==
    ASSUME NEW n \in Nat, NEW kept \in SUBSET (1..n),
           NEW k \in 1..Cardinality(kept)
    PROVE  \E i \in kept : Cardinality({j \in kept : j <= i}) = k
<1>. DEFINE Upto(i) == {j \in kept : j <= i}
            place == [i \in kept |-> Cardinality(Upto(i))]
            N == Cardinality(kept)
<1>1. IsFiniteSet(kept) /\ N \in Nat
  <2>1. IsFiniteSet(1..n)
    BY FS_Interval
  <2>2. QED
    BY <2>1, FS_Subset, FS_CardinalityType
<1>2. ASSUME NEW i \in kept
      PROVE  /\ IsFiniteSet(Upto(i)) /\ i \in Upto(i)
             /\ Cardinality(Upto(i)) \in 1..N
  <2>1. Upto(i) \in SUBSET kept /\ i \in Upto(i)
    BY DEF Upto
  <2>2. /\ IsFiniteSet(Upto(i)) /\ Cardinality(Upto(i)) \in Nat
        /\ Cardinality(Upto(i)) <= N
    BY <1>1, <2>1, FS_Subset, FS_CardinalityType
  <2>3. Cardinality(Upto(i)) # 0
    BY <2>1, <2>2, FS_EmptySet
  <2>4. QED
    BY <1>1, <2>1, <2>2, <2>3
<1>3. ASSUME NEW i \in kept, NEW j \in kept, i < j
      PROVE  Cardinality(Upto(i)) < Cardinality(Upto(j))
  <2>0. i \in Int /\ j \in Int /\ \A m \in kept : m \in Int
    OBVIOUS
  <2>1. Upto(i) \in SUBSET Upto(j) /\ j \in Upto(j) /\ j \notin Upto(i)
    <3>1. \A m \in kept : m <= i => m <= j
      BY <1>3, <2>0
    <3>2. j <= j /\ ~(j <= i)
      BY <1>3, <2>0
    <3>3. QED
      BY <3>1, <3>2
  <2>2. Upto(i) # Upto(j) /\ IsFiniteSet(Upto(j)) /\ IsFiniteSet(Upto(i))
    BY <1>2, <2>1
  <2>. HIDE DEF Upto
  <2>3. /\ Cardinality(Upto(i)) \in Nat /\ Cardinality(Upto(j)) \in Nat
        /\ Cardinality(Upto(i)) <= Cardinality(Upto(j))
        /\ Cardinality(Upto(i)) # Cardinality(Upto(j))
    BY <2>1, <2>2, FS_Subset, FS_CardinalityType
  <2>4. QED
    BY <2>3
<1>. HIDE DEF Upto
<1>4. place \in Injection(kept, 1..N)
  <2>1. place \in [kept -> 1..N]
    BY <1>2
  <2>2. ASSUME NEW i \in kept, NEW j \in kept, place[i] = place[j]
        PROVE  i = j
    <3>1. i \in Int /\ j \in Int
      OBVIOUS
    <3>2. Cardinality(Upto(i)) = Cardinality(Upto(j)) /\ Cardinality(Upto(i)) \in Int
      BY <1>2, <2>2
    <3>3. ~(i < j) /\ ~(j < i)
      BY <1>3, <3>2
    <3>4. QED
      BY <3>1, <3>3
  <2>3. QED
    BY <2>1, <2>2 DEF Injection, IsInjective
<1>5. place \in Surjection(kept, 1..N)
  <2>1. IsFiniteSet(1..N) /\ Cardinality(1..N) = N
    BY <1>1, FS_Interval
  <2>2. QED
    BY <1>4, <2>1, FS_Injection
<1>6. QED
  BY <1>5 DEF Surjection, Upto

(* What is left of a list is a list, of elements of it that are in the set. *)
LEMMA FilteredProperties ==
    ASSUME NEW list, IsList(list), NEW set
    PROVE  /\ IsList(Filtered(list, set))
           /\ ToSet(Filtered(list, set)) \subseteq ToSet(list) \cap set
<1>. DEFINE kept == {i \in DOMAIN list : list[i] \in set}
            Place(i) == Cardinality({j \in kept : j <= i})
            At(k) == CHOOSE i \in kept : Place(i) = k
            N == Cardinality(kept)
            filtered == [k \in 1..N |-> list[At(k)]]
<1>1. Filtered(list, set) = filtered
  BY DEF Filtered
<1>2. /\ Len(list) \in Nat /\ DOMAIN list = 1..Len(list)
      /\ \A i \in 1..Len(list) : list[i] \in Object
  BY LenProperties, ElementOfSeq DEF IsList
<1>3. kept \in SUBSET (1..Len(list)) /\ N \in Nat
  <2>1. IsFiniteSet(1..Len(list)) /\ kept \in SUBSET (1..Len(list))
    BY <1>2, FS_Interval
  <2>2. QED
    BY <2>1, FS_Subset, FS_CardinalityType
<1>4. \A k \in 1..N : At(k) \in kept /\ Place(At(k)) = k
  <2>. HIDE DEF kept
  <2>1. SUFFICES ASSUME NEW k \in 1..N PROVE At(k) \in kept /\ Place(At(k)) = k
    OBVIOUS
  <2>2. \E i \in kept : Place(i) = k
    BY <1>2, <1>3, PlacesCounted
  <2>. HIDE DEF Place
  <2>3. QED
    BY <2>2
<1>5. \A k \in 1..N : At(k) \in DOMAIN list /\ list[At(k)] \in set
  BY <1>4
<1>. HIDE DEF Place, At, N
<1>6. filtered \in Seq(Object) /\ DOMAIN filtered = 1..N
  <2>1. filtered \in [1..N -> Object]
    BY <1>2, <1>5
  <2>2. QED
    BY <1>3, <2>1, SeqDef
<1>7. IsInjective(filtered)
  <2>1. SUFFICES ASSUME NEW k \in 1..N, NEW l \in 1..N, list[At(k)] = list[At(l)]
                 PROVE  k = l
    BY <1>6 DEF IsInjective
  <2>2. At(k) = At(l)
    BY <1>5, <2>1 DEF IsList, IsInjective
  <2>3. QED
    BY <1>4, <2>2
<1>8. ToSet(filtered) \subseteq ToSet(list) \cap set
  BY <1>5, <1>6 DEF ToSet
<1>9. QED
  BY <1>1, <1>6, <1>7, <1>8 DEF IsList

-----------------------------------------------------------------------------
(* The schedule.                                                           *)

ScheduleType ==
    /\ enabled \in BOOLEAN /\ isRunning \in BOOLEAN
    /\ session \in 0..MaxSessions
    /\ gcDue \in Nat /\ dumpDue \in Nat

(* No action of a task or a call does to the schedule what TaskSchedule    *)
(* does not allow.                                                         *)
LEMMA ScheduleFollowed == [Next]_vars => [ScheduleNext]_schedule
<1>. SUFFICES ASSUME [Next]_vars PROVE [ScheduleNext]_schedule
  OBVIOUS
<1>1. CASE \E o \in Object : RegisterObject(o) \/ Release(o) \/ Finalize(o)
  BY <1>1 DEF RegisterObject, Release, Finalize
<1>2. CASE EnableLegacy
  BY <1>2 DEF EnableLegacy, ScheduleNext
<1>3. CASE Start \/ JSLeakWatcherEarlyInit \/ Shutdown
  BY <1>3 DEF Start, JSLeakWatcherEarlyInit, Shutdown, ScheduleNext
<1>4. CASE GcTask \/ SettleQuery \/ DumpTask \/ DropTask
  BY <1>4 DEF GcTask, SettleQuery, DumpTask, DropTask, ScheduleNext
<1>5. CASE UNCHANGED vars
  BY <1>5 DEF vars
<1>6. QED
  BY <1>1, <1>2, <1>3, <1>4, <1>5 DEF Next

LEMMA ScheduleTypeStep == ScheduleType /\ [ScheduleNext]_schedule => ScheduleType'
<1>. SUFFICES ASSUME ScheduleType, [ScheduleNext]_schedule PROVE ScheduleType'
  OBVIOUS
<1>. USE DEF ScheduleType, schedule
<1>1. CASE UNCHANGED schedule
  BY <1>1
<1>2. CASE EnableLeakWatcher
  BY <1>2, SessionAssumption DEF EnableLeakWatcher
<1>3. CASE (\E isEnable \in BOOLEAN : Enable(isEnable)) \/ EnableFails \/ DisableLeakWatcher
  BY <1>3 DEF Enable, EnableFails, DisableLeakWatcher
<1>4. CASE RunGcTask \/ RunDumpTask \/ DropEvent
  BY <1>4 DEF RunGcTask, RunDumpTask, DropEvent
<1>5. QED
  BY <1>1, <1>2, <1>3, <1>4 DEF ScheduleNext

-----------------------------------------------------------------------------
(* The inductive invariant.                                                *)

DataType ==
    /\ heap \in [Object -> {"reachable", "garbage", "collected"}]
    /\ IsList(watchObjMap) /\ IsList(currentLeakList) /\ IsList(duplicateLeakList)
    /\ isConfigObj \in BOOLEAN
    /\ threshold \in Thresholds \cup {Undefined, DefaultThreshold}
    /\ queries \in 0..MaxQueries /\ isGC \in BOOLEAN
    /\ exists \in ProcessStates \cup {"absent"}
    /\ survivors \subseteq Object /\ dumped \in BOOLEAN

(* A verdict that says GC, while no promise is open, comes with a forced    *)
(* collection of what currentLeakList holds: the list only changes together *)
(* with a promise, and whatever settles it without a collection takes the   *)
(* verdict or the state of the process away.                                *)
ListWasCollected ==
    (queries = 0 /\ isGC /\ exists # "absent") =>
        \A o \in ToSet(currentLeakList) : o \in survivors \/ heap[o] = "collected"

DataInv == DataType /\ ListWasCollected

(* The elements of a list are objects. *)
LEMMA ListElements ==
    ASSUME NEW list, IsList(list)
    PROVE  /\ ToSet(list) \subseteq Object
           /\ \A o \in Object \ ToSet(list) : IsList(Append(list, o))
<1>1. /\ Len(list) \in Nat /\ DOMAIN list = 1..Len(list)
      /\ \A i \in 1..Len(list) : list[i] \in Object
  BY LenProperties, ElementOfSeq DEF IsList
<1>2. ASSUME NEW o \in Object \ ToSet(list)
      PROVE  IsList(Append(list, o))
  <2>1. /\ Append(list, o) \in Seq(Object)
        /\ Len(Append(list, o)) = Len(list) + 1
        /\ \A i \in 1..Len(list) : Append(list, o)[i] = list[i]
        /\ Append(list, o)[Len(list) + 1] = o
    BY <1>2, AppendProperties DEF IsList
  <2>2. DOMAIN Append(list, o) = 1..(Len(list) + 1)
    BY <2>1, LenProperties
  <2>3. \A i \in 1..Len(list) : list[i] # o
    BY <1>1, <1>2 DEF ToSet
  <2>4. \A i \in 1..(Len(list) + 1) : i \in 1..Len(list) \/ i = Len(list) + 1
    BY <1>1
  <2>5. IsInjective(Append(list, o))
    BY <1>1, <2>1, <2>2, <2>3, <2>4 DEF IsList, IsInjective
  <2>6. QED
    BY <2>1, <2>5 DEF IsList
<1>3. QED
  BY <1>1, <1>2 DEF ToSet

LEMMA NoElements == IsList(<<>>) /\ ToSet(<<>>) = {}
BY DEF IsList, IsInjective, ToSet

(* A forced collection settles the fate of the whole list. *)
LEMMA CollectionSettles ==
    ASSUME DataType, ForceFullGC, UNCHANGED currentLeakList
    PROVE  /\ heap' \in [Object -> {"reachable", "garbage", "collected"}]
           /\ survivors' \subseteq Object /\ dumped' \in BOOLEAN
           /\ ListWasCollected'
<1>1. ToSet(currentLeakList) \subseteq Object
  BY ListElements DEF DataType
<1>2. /\ heap' = [o \in Object |-> IF heap[o] = "garbage" THEN "collected" ELSE heap[o]]
      /\ survivors' = {o \in ToSet(currentLeakList) : heap'[o] = "reachable"}
      /\ dumped' = dumped
  BY DEF ForceFullGC
<1>3. heap' \in [Object -> {"reachable", "garbage", "collected"}]
  BY <1>2 DEF DataType
<1>4. \A o \in Object : heap'[o] = "reachable" \/ heap'[o] = "collected"
  BY <1>2 DEF DataType
<1>5. QED
  BY <1>1, <1>2, <1>3, <1>4 DEF DataType, ListWasCollected

LEMMA DataInit == Init => DataInv
<1>. SUFFICES ASSUME Init PROVE DataInv
  OBVIOUS
<1>1. /\ heap = [o \in Object |-> "reachable"]
      /\ watchObjMap = <<>> /\ currentLeakList = <<>> /\ duplicateLeakList = <<>>
      /\ isConfigObj = FALSE /\ threshold = DefaultThreshold
      /\ queries = 0 /\ isGC = TRUE /\ exists = "absent"
      /\ survivors = {} /\ dumped = TRUE
  BY DEF Init
<1>2. IsList(<<>>) /\ 0 \in 0..MaxQueries
  BY NoElements, QueryAssumption
<1>3. DataType
  BY <1>1, <1>2 DEF DataType
<1>4. QED
  BY <1>1, <1>3 DEF DataInv, ListWasCollected

(* The map of watched objects, and the garbage collector.                  *)
LEMMA ObjectStep ==
    ASSUME DataInv, NEW o \in Object, RegisterObject(o) \/ Release(o) \/ Finalize(o)
    PROVE  DataInv'
<1>. USE DEF DataInv, DataType, ListWasCollected, config, verdict, history
<1>1. CASE RegisterObject(o)
  BY <1>1, ListElements DEF RegisterObject, Watched
<1>2. CASE Release(o)
  <2>1. /\ heap[o] = "reachable" /\ heap' = [heap EXCEPT ![o] = "garbage"]
        /\ UNCHANGED <<watchObjMap, currentLeakList, duplicateLeakList, config,
                       verdict, history>>
    BY <1>2 DEF Release
  <2>2. \A p : heap[p] = "collected" => heap'[p] = "collected"
    BY <2>1
  <2>3. QED
    BY <2>1, <2>2
<1>3. CASE Finalize(o)
  <2>1. /\ heap' = [heap EXCEPT ![o] = "collected"]
        /\ watchObjMap' = Filtered(watchObjMap, Watched \ {o})
        /\ UNCHANGED <<currentLeakList, duplicateLeakList, config, verdict, history>>
    BY <1>3 DEF Finalize
  <2>2. IsList(watchObjMap')
    BY <2>1, FilteredProperties
  <2>3. \A p : heap[p] = "collected" => heap'[p] = "collected"
    BY <2>1
  <2>4. QED
    BY <2>1, <2>2, <2>3
<1>4. QED
  BY <1>1, <1>2, <1>3

(* The calls.                                                              *)
LEMMA CallStep ==
    ASSUME DataInv, EnableLegacy \/ Start \/ JSLeakWatcherEarlyInit \/ Shutdown
    PROVE  DataInv'
<1>. USE NoElements DEF DataInv, DataType, ListWasCollected, config, verdict, history
<1>1. CASE EnableLegacy
  BY <1>1 DEF EnableLegacy
<1>2. CASE Start
  BY <1>2 DEF Start, GetCustomAttribute
<1>3. CASE JSLeakWatcherEarlyInit
  BY <1>3 DEF JSLeakWatcherEarlyInit
<1>4. CASE Shutdown
  BY <1>4 DEF Shutdown
<1>5. QED
  BY <1>1, <1>2, <1>3, <1>4

(* The GC task, with its promise.                                          *)
LEMMA GcTaskStep ==
    ASSUME DataInv, GcTask
    PROVE  DataInv'
<1>. USE DEF DataInv, DataType, config, verdict, history
<1>1. CASE StartGCtask
  <2>1. queries' \in 0..MaxQueries /\ queries' # 0
    BY <1>1, QueryAssumption DEF StartGCtask
  <2>2. QED
    BY <1>1, <2>1 DEF GcTask, StartGCtask, ListWasCollected
<1>2. CASE ForceFullGC /\ UNCHANGED <<currentLeakList, verdict>>
  BY <1>2, CollectionSettles DEF GcTask
<1>3. QED
  BY <1>1, <1>2 DEF GcTask

LEMMA SettleQueryStep ==
    ASSUME DataInv, SettleQuery
    PROVE  DataInv'
<1>. USE DEF DataInv, DataType, config, verdict, history
<1>1. /\ queries' \in 0..MaxQueries
      /\ UNCHANGED <<watchObjMap, currentLeakList, duplicateLeakList, config>>
  BY QueryAssumption DEF SettleQuery
<1>2. CASE Reject
  BY <1>1, <1>2 DEF Reject, ListWasCollected
<1>3. ASSUME NEW state \in ProcessStates, Settle(state)
      PROVE  DataInv'
  <2>1. exists' = state
    BY <1>3 DEF Settle
  <2>2. CASE UNCHANGED <<heap, isGC, history>> /\ state = "absent"
    BY <1>1, <2>1, <2>2 DEF ListWasCollected
  <2>3. CASE isGC' = FALSE /\ UNCHANGED <<heap, history>>
    BY <1>1, <2>1, <2>3 DEF ListWasCollected
  <2>4. CASE isGC' = TRUE /\ ForceFullGC
    BY <1>1, <2>1, <2>4, CollectionSettles
  <2>5. QED
    BY <1>3, <2>2, <2>3, <2>4 DEF Settle
<1>4. QED
  BY <1>2, <1>3 DEF SettleQuery

(* The DUMP task.                                                          *)
LEMMA DumpTaskStep ==
    ASSUME DataInv, DumpTask \/ DropTask
    PROVE  DataInv'
<1>. USE DEF DataInv, DataType, config, verdict, history
<1>1. IsList(Intersection)
  BY FilteredProperties DEF Intersection
<1>2. CASE DumpTask
  <2>1. /\ IsList(duplicateLeakList') /\ dumped' \in BOOLEAN
        /\ UNCHANGED <<heap, watchObjMap, currentLeakList, config, verdict, survivors>>
    BY <1>1, <1>2 DEF DumpTask, StartDumptask
  <2>2. QED
    BY <2>1 DEF ListWasCollected
<1>3. CASE DropTask
  BY <1>3 DEF DropTask, ListWasCollected
<1>4. QED
  BY <1>2, <1>3

LEMMA DataStep ==
    ASSUME DataInv, [Next]_vars
    PROVE  DataInv'
<1>1. CASE UNCHANGED vars
  BY <1>1 DEF vars, DataInv, DataType, ListWasCollected, config, verdict, history
<1>2. QED
  BY <1>1, ObjectStep, CallStep, GcTaskStep, SettleQueryStep, DumpTaskStep DEF Next

-----------------------------------------------------------------------------
(* The theorems.                                                           *)

(* The inductive invariant holds always.                                   *)
THEOREM Invariance == Spec => [](ScheduleType /\ DataInv)
<1>1. Init => ScheduleType /\ DataInv
  <2>1. Init => ScheduleType
    <3>1. SUFFICES ASSUME ScheduleInit PROVE ScheduleType
      BY DEF Init
    <3>2. enabled \in BOOLEAN /\ isRunning \in BOOLEAN
      BY <3>1 DEF ScheduleInit
    <3>3. session \in 0..MaxSessions /\ gcDue \in Nat /\ dumpDue \in Nat
      BY <3>1, SessionAssumption DEF ScheduleInit
    <3>4. QED
      BY <3>2, <3>3 DEF ScheduleType
  <2>2. QED
    BY <2>1, DataInit
<1>2. ScheduleType /\ DataInv /\ [Next]_vars => ScheduleType' /\ DataInv'
  BY ScheduleFollowed, ScheduleTypeStep, DataStep
<1>3. QED
  BY <1>1, <1>2, PTL DEF Spec

(* The lists hold objects, each once, whatever is registered, released and  *)
(* finalized while the tasks run.                                           *)
THEOREM TypeCorrect == Spec => []TypeOK
<1>1. ScheduleType /\ DataInv => TypeOK
  BY ListElements DEF ScheduleType, DataInv, DataType, TypeOK, IsList
<1>2. QED
  BY <1>1, Invariance, PTL

(* A DUMP task whose round has its verdict only reports what a collection   *)
(* of that list has left, or what is collected and not finalized yet.       *)
THEOREM DumpedSurvived == Spec => []DumpedHaveSurvived
<1>1. DataInv => DumpedHaveSurvived
  <2>1. SUFFICES ASSUME DataInv, queries = 0, DumpDue, NEW o \in ToSet(Intersection)
                 PROVE  o \in survivors \/ heap[o] = "collected"
    BY DEF DumpedHaveSurvived
  <2>2. o \in ToSet(currentLeakList)
    BY <2>1, FilteredProperties DEF Intersection, DataInv, DataType
  <2>3. QED
    BY <2>1, <2>2 DEF DataInv, ListWasCollected, DumpDue
<1>2. QED
  BY <1>1, Invariance, PTL

(* The tasks and calls of this module come in the order that TaskSchedule   *)
(* promises, which is the order LeakWatcherTasks implements.                *)
THEOREM FollowsSchedule == Spec => ScheduleSpec
<1>1. Init => ScheduleInit
  BY DEF Init
<1>2. QED
  BY <1>1, ScheduleFollowed, PTL DEF Spec, ScheduleSpec

=============================================================================
