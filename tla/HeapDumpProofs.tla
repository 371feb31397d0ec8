---------------------------- MODULE HeapDumpProofs ----------------------------
(***************************************************************************)
(* Proofs about HeapDump, for any number of processes, any calls, faults   *)
(* and dumps, and any limit of files of at least two: the inductive        *)
(* invariants, and the properties that a dump which runs alone rests on.   *)
(***************************************************************************)
EXTENDS HeapDump, FiniteSetTheorems, TLAPS

-----------------------------------------------------------------------------
(* The inductive invariant.                                                *)

Kinds == {"rawheap", "heapsnapshot", "jsleaklist"}
File == [stamp : Stamp, kind : Kinds]

Contents(n) ==
    IF n.kind = "jsleaklist"
    THEN {NoHash, Unwritten} \cup {Hashed(parts) : parts \in SUBSET Parts}
    ELSE SUBSET Parts

(* A directory of files whose stamps were given before now.                *)
IsDirectory(dir, now) ==
    /\ DOMAIN dir \subseteq File
    /\ \A n \in DOMAIN dir : n.stamp < now /\ dir[n] \in Contents(n)

TypeInv ==
    /\ clock \in 1..(2 * MaxDumps + 1)
    /\ owner \in [1..(clock - 1) -> Process]
    /\ IsDirectory(files, clock)
    /\ firstDump \in [Process -> BOOLEAN] /\ dumpStatus \in [Process -> BOOLEAN]
    /\ curTimeStamp \in [Process -> 0..(clock - 1)]
    /\ pc \in [Process -> {"idle", "list", "trim", "unlink"}]
    /\ work \in [Process -> [kind : {"none", "sync", "async", "listOnly"},
                             stamp : 0..(clock - 1)]]
    /\ victims \in [Process -> SUBSET File]
    /\ native \in [Stamp -> {"none", "dumping", "dumped", "append", "done"}]
    /\ callback \in [Stamp -> Pending \cup {"none", "answered", "lost"}]
    /\ alive \in [Process -> BOOLEAN]
    /\ overlap \subseteq 1..(clock - 1)

(* curTimeStamp is the last stamp that was given to the process.           *)
OwnerInv ==
    /\ \A p \in Process : firstDump[p] <=> curTimeStamp[p] = NoStamp
    /\ \A p \in Process : curTimeStamp[p] # NoStamp => owner[curTimeStamp[p]] = p
    /\ \A s \in DOMAIN owner : s <= curTimeStamp[owner[s]]

(* What the JS thread is doing, and the dump it answers.                   *)
CallOf(p) ==
    /\ pc[p] = "idle" => work[p] = Idle
    /\ pc[p] # "idle" =>
           alive[p] /\ work[p].kind # "none" /\ curTimeStamp[p] # NoStamp
    /\ pc[p] = "list" => work[p].kind \in {"sync", "async"}
    /\ pc[p] # "unlink" => victims[p] = {}
    /\ work[p].kind \in {"sync", "listOnly"} =>
           /\ work[p].stamp \in DOMAIN owner /\ work[p].stamp = curTimeStamp[p]
           /\ callback[work[p].stamp] = "none"
    /\ work[p].kind = "async" =>
           /\ work[p].stamp \in DOMAIN owner /\ owner[work[p].stamp] = p
           /\ callback[work[p].stamp] = "taken"

CallInv == \A p \in Process : CallOf(p)

(* The native thread and the callback of a dump go along; nothing goes on   *)
(* for a process that has died.                                             *)
DumpInv ==
    /\ \A s \in Stamp \ DOMAIN owner : native[s] = "none" /\ callback[s] = "none"
    /\ \A s \in DOMAIN owner :
        /\ native[s] \in {"dumping", "dumped"} <=> callback[s] = "waiting"
        /\ callback[s] = "none" => native[s] \in {"none", "done"}
        /\ callback[s] = "taken" => work[owner[s]] = [kind |-> "async", stamp |-> s]
        /\ ~ alive[owner[s]] => native[s] \in {"none", "done"} /\ callback[s] \notin Pending

(* Only dump() makes heap snapshots, and it has no callback to wait for.    *)
SnapshotInv ==
    /\ \A n \in Names : n.kind = "heapsnapshot" => callback[n.stamp] = "none"
    /\ \A p \in Process : \A n \in victims[p] :
          n.stamp < clock /\ (n.kind = "heapsnapshot" => callback[n.stamp] = "none")

(* The callbacks that may yet ask for a list with a stamp of its own.       *)
ListsToCome ==
    {s \in Stamp :
        \/ callback[s] \in {"waiting", "queued"}
        \/ \E p \in Process : pc[p] = "list" /\ work[p] = [kind |-> "async", stamp |-> s]}

(* The stamps suffice.                                                      *)
BoundInv == clock + Cardinality(ListsToCome) <= 2 * MaxDumps + 1

BaseInv == TypeInv /\ OwnerInv /\ CallInv /\ DumpInv /\ SnapshotInv /\ BoundInv

-----------------------------------------------------------------------------
(* The directory.                                                          *)

USE DEF Names

(* A step gives a dump its stamp, or it is one of the others.              *)
StampStep(p) == DumpRawHeap(p) \/ DumpListOnly(p) \/ DumpSync(p) \/ WriteListOnly(p)
OtherStep(p, s) ==
    \/ DumpRefused(p) \/ TakeCallback(p, s) \/ WriteList(p) \/ ListOldFiles(p)
    \/ Unlink(p) \/ Report(p) \/ Crash(p) \/ NativeStep(s) \/ UNCHANGED vars

USE DEF StampStep, OtherStep

LEMMA WithProperties ==
    ASSUME NEW dir, NEW name, NEW content
    PROVE  /\ DOMAIN With(dir, name, content) = DOMAIN dir \cup {name}
           /\ With(dir, name, content)[name] = content
           /\ \A n \in DOMAIN dir : n # name => With(dir, name, content)[n] = dir[n]
BY DEF With

LEMMA WithoutProperties ==
    ASSUME NEW dir, NEW names
    PROVE  /\ DOMAIN Without(dir, names) = DOMAIN dir \ names
           /\ \A n \in DOMAIN dir \ names : Without(dir, names)[n] = dir[n]
BY DEF Without, Restrict

LEMMA DirectoryWith ==
    ASSUME NEW dir, NEW now \in Nat, IsDirectory(dir, now),
           NEW name \in File, name.stamp < now,
           NEW content \in Contents(name)
    PROVE  IsDirectory(With(dir, name, content), now)
<1>. DEFINE new == With(dir, name, content)
<1>1. /\ DOMAIN new = DOMAIN dir \cup {name} /\ new[name] = content
      /\ \A n \in DOMAIN dir : n # name => new[n] = dir[n]
  BY DEF With
<1>. HIDE DEF new
<1>2. ASSUME NEW n \in DOMAIN new
      PROVE  n \in File /\ n.stamp < now /\ new[n] \in Contents(n)
  <2>1. CASE n = name
    BY <1>1, <2>1
  <2>2. CASE n # name
    BY <1>1, <2>2 DEF IsDirectory
  <2>3. QED
    BY <2>1, <2>2
<1>3. IsDirectory(new, now)
  BY <1>2 DEF IsDirectory
<1>4. QED
  BY <1>3 DEF new

LEMMA DirectoryLater ==
    ASSUME NEW dir, NEW now \in Nat, IsDirectory(dir, now)
    PROVE  IsDirectory(dir, now + 1)
<1>1. \A n \in DOMAIN dir : n.stamp \in Nat
  BY BoundAssumption DEF IsDirectory, File, Stamp
<1>2. QED
  BY <1>1 DEF IsDirectory

LEMMA DirectoryPart ==
    ASSUME NEW dir, NEW now, IsDirectory(dir, now), NEW part,
           DOMAIN part \subseteq DOMAIN dir,
           \A n \in DOMAIN part : part[n] = dir[n]
    PROVE  IsDirectory(part, now)
BY DEF IsDirectory

LEMMA FileNames ==
    /\ \A n \in File : n.stamp \in Stamp /\ n.kind \in Kinds /\ n = Name(n.stamp, n.kind)
    /\ \A s \in Stamp : RawHeap(s) \in File /\ HeapSnapshot(s) \in File /\ LeakList(s) \in File
    /\ \A s : /\ RawHeap(s).stamp = s /\ RawHeap(s).kind = "rawheap"
              /\ HeapSnapshot(s).stamp = s /\ HeapSnapshot(s).kind = "heapsnapshot"
              /\ LeakList(s).stamp = s /\ LeakList(s).kind = "jsleaklist"
BY DEF File, Kinds, Name, RawHeap, HeapSnapshot, LeakList

LEMMA FilesAreFinite == IsFiniteSet(File)
<1>. DEFINE Of(kind) == {Name(s, kind) : s \in Stamp}
<1>1. ASSUME NEW kind \in Kinds
      PROVE  IsFiniteSet(Of(kind))
  <2>. DEFINE f == [s \in Stamp |-> Name(s, kind)]
  <2>1. IsFiniteSet(Stamp)
    BY FS_Interval, BoundAssumption DEF Stamp
  <2>2. f \in Surjection(Stamp, Of(kind))
    BY DEF Surjection
  <2>3. QED
    BY <2>1, <2>2, FS_Surjection
<1>2. IsFiniteSet(Of("rawheap") \cup Of("heapsnapshot"))
  BY <1>1, FS_Union DEF Kinds
<1>3. IsFiniteSet((Of("rawheap") \cup Of("heapsnapshot")) \cup Of("jsleaklist"))
  <2>1. IsFiniteSet(Of("jsleaklist"))
    BY <1>1 DEF Kinds
  <2>. HIDE DEF Of
  <2>2. QED
    BY <1>2, <2>1, FS_Union
<1>4. ASSUME NEW n \in File
      PROVE  n \in (Of("rawheap") \cup Of("heapsnapshot")) \cup Of("jsleaklist")
  BY FileNames DEF Kinds
<1>5. QED
  <2>. HIDE DEF Of
  <2>1. File \in SUBSET ((Of("rawheap") \cup Of("heapsnapshot")) \cup Of("jsleaklist"))
    BY <1>4
  <2>2. QED
    BY <1>3, <2>1, FS_Subset

(* What the clean-up before a dump of p deletes: raw heaps without a list,  *)
(* or a listed dump of p, whole.                                            *)
LEMMA CleanUpProperties ==
    ASSUME TypeInv, NEW p \in Process
    PROVE  /\ DOMAIN CleanUp(p) \subseteq Names
           /\ \A n \in DOMAIN CleanUp(p) : CleanUp(p)[n] = files[n]
           /\ \A n \in Names \ DOMAIN CleanUp(p) :
                  \/ LeakList(n.stamp) \notin Names /\ n = RawHeap(n.stamp)
                  \/ ~ firstDump[p] /\ owner[n.stamp] = p
           /\ \A s : RawHeap(s) \in DOMAIN CleanUp(p) =>
                  (LeakList(s) \in Names <=> LeakList(s) \in DOMAIN CleanUp(p))
           /\ \A s : LeakList(s) \in DOMAIN CleanUp(p) =>
                  (RawHeap(s) \in Names <=> RawHeap(s) \in DOMAIN CleanUp(p))
           /\ firstDump[p] =>
                  \A s : RawHeap(s) \in DOMAIN CleanUp(p) => LeakList(s) \in DOMAIN CleanUp(p)
           /\ (~ firstDump[p] /\ \A n \in Names :
                  n.kind = "jsleaklist" => n.stamp = curTimeStamp[p] /\ owner[n.stamp] = p)
                => \A n \in DOMAIN CleanUp(p) : n.kind # "jsleaklist"
<1>0. \A n \in Names : n \in File
  BY DEF TypeInv, IsDirectory
<1>1. CASE firstDump[p]
  <2>. DEFINE unmatched == {n \in Names : n.kind = "rawheap" /\ LeakList(n.stamp) \notin Names}
  <2>1. CleanUp(p) = Without(files, unmatched)
    BY <1>1, Zenon DEF CleanUp, DeleteUnMatchDumpFile
  <2>2. /\ DOMAIN CleanUp(p) = Names \ unmatched
        /\ \A n \in Names \ unmatched : CleanUp(p)[n] = files[n]
    <3>. HIDE DEF unmatched
    <3>1. /\ DOMAIN Without(files, unmatched) = DOMAIN files \ unmatched
          /\ \A n \in DOMAIN files \ unmatched : Without(files, unmatched)[n] = files[n]
      BY WithoutProperties, Zenon
    <3>2. QED
      BY <2>1, <3>1, Zenon
  <2>3. \A n \in unmatched : n = RawHeap(n.stamp) /\ LeakList(n.stamp) \notin Names
    BY <1>0, FileNames DEF RawHeap
  <2>4. \A s : LeakList(s) \notin unmatched
    BY FileNames
  <2>5. \A s : RawHeap(s) \in Names \ unmatched => LeakList(s) \in Names
    BY FileNames
  <2>6. \A s : LeakList(s) \in Names => RawHeap(s) \notin unmatched
    BY FileNames
  <2>. HIDE DEF unmatched
  <2>7. QED
    BY <1>1, <2>2, <2>3, <2>4, <2>5, <2>6
<1>2. CASE ~ firstDump[p]
  <2>. DEFINE lists  == {n \in Names : n.kind = "jsleaklist"}
              newest == {n \in lists : \A m \in lists : m.stamp <= n.stamp}
              own    == {n.stamp : n \in {m \in newest : owner[m.stamp] = p}}
              data   == {IF RawHeap(s) \in Names THEN RawHeap(s) ELSE HeapSnapshot(s) : s \in own}
              gone   == {LeakList(s) : s \in own} \cup data
  <2>1. CleanUp(p) = Without(files, gone)
    BY <1>2, Zenon DEF CleanUp, DeleteLastOldFile
  <2>2. /\ DOMAIN CleanUp(p) = Names \ gone
        /\ \A n \in Names \ gone : CleanUp(p)[n] = files[n]
    <3>. HIDE DEF gone
    <3>1. /\ DOMAIN Without(files, gone) = DOMAIN files \ gone
          /\ \A n \in DOMAIN files \ gone : Without(files, gone)[n] = files[n]
      BY WithoutProperties, Zenon
    <3>2. QED
      BY <2>1, <3>1, Zenon
  <2>3. \A s \in own : owner[s] = p
    OBVIOUS
  <2>4. \A n \in gone : n.stamp \in own
    BY FileNames
  <2>5. \A s : LeakList(s) \in gone <=> s \in own
    BY FileNames
  <2>6. \A s : RawHeap(s) \in Names => (RawHeap(s) \in gone <=> s \in own)
    BY FileNames
  <2>7. ASSUME \A n \in Names :
                  n.kind = "jsleaklist" => n.stamp = curTimeStamp[p] /\ owner[n.stamp] = p,
               NEW n \in Names, n.kind = "jsleaklist"
        PROVE  n \in gone
    <3>1. n \in lists /\ \A m \in lists : m.stamp = n.stamp
      BY <2>7
    <3>2. n.stamp \in Int
      BY <1>0, <2>7, FileNames, BoundAssumption DEF Stamp
    <3>3. n \in newest
      BY <3>1, <3>2
    <3>4. n.stamp \in own /\ n = LeakList(n.stamp)
      BY <2>7, <3>3, <1>0, FileNames DEF LeakList
    <3>5. QED
      BY <3>4
  <2>. HIDE DEF gone, own, data, newest
  <2>8. QED
    BY <1>2, <2>2, <2>3, <2>4, <2>5, <2>6, <2>7
<1>3. QED
  BY <1>1, <1>2

-----------------------------------------------------------------------------
(* The types.                                                              *)

LEMMA ClockFacts ==
    ASSUME TypeInv
    PROVE  /\ clock \in Nat \ {0} /\ MaxDumps \in Nat
           /\ DOMAIN owner = 1..(clock - 1) /\ 1..(clock - 1) \subseteq Stamp
           /\ clock <= 2 * MaxDumps => clock \in Stamp
           /\ \A p \in Process : curTimeStamp[p] \in Nat /\ curTimeStamp[p] < clock
           /\ \A s \in DOMAIN owner : s \in Nat /\ s < clock /\ owner[s] \in Process
BY BoundAssumption DEF TypeInv, Stamp

LEMMA NewStampFacts ==
    ASSUME TypeInv, OwnerInv, clock <= 2 * MaxDumps,
           NEW p \in Process, NewStamp(p)
    PROVE  /\ clock \in Stamp /\ clock' = clock + 1 /\ clock' \in 1..(2 * MaxDumps + 1)
           /\ owner' \in [1..(clock' - 1) -> Process]
           /\ DOMAIN owner' = DOMAIN owner \cup {clock} /\ clock \notin DOMAIN owner
           /\ owner'[clock] = p /\ \A s \in DOMAIN owner : owner'[s] = owner[s]
           /\ curTimeStamp' \in [Process -> 0..(clock' - 1)]
           /\ curTimeStamp'[p] = clock
           /\ \A q \in Process : q # p => curTimeStamp'[q] = curTimeStamp[q]
           /\ firstDump' \in [Process -> BOOLEAN]
           /\ overlap' \subseteq 1..(clock' - 1)
           /\ OwnerInv'
<1>1. /\ clock \in Stamp /\ clock \in Nat \ {0}
      /\ DOMAIN owner = 1..(clock - 1) /\ owner \in [1..(clock - 1) -> Process]
  BY ClockFacts DEF TypeInv
<1>2. clock' = clock + 1 /\ clock' \in 1..(2 * MaxDumps + 1)
  BY <1>1, BoundAssumption DEF NewStamp, Stamp
<1>3. /\ DOMAIN owner' = DOMAIN owner \cup {clock} /\ clock \notin DOMAIN owner
      /\ owner'[clock] = p /\ \A s \in DOMAIN owner : owner'[s] = owner[s]
  BY <1>1 DEF NewStamp, With
<1>4. owner' \in [1..(clock' - 1) -> Process]
  <2>1. 1..(clock' - 1) = 1..(clock - 1) \cup {clock}
    BY <1>1, <1>2
  <2>2. owner' = [s \in 1..(clock' - 1) |-> IF s = clock THEN p ELSE owner[s]]
    BY <1>1, <2>1 DEF NewStamp, With
  <2>3. QED
    BY <1>1, <2>1, <2>2
<1>5. /\ curTimeStamp' \in [Process -> 0..(clock' - 1)]
      /\ curTimeStamp'[p] = clock
      /\ \A q \in Process : q # p => curTimeStamp'[q] = curTimeStamp[q]
  BY <1>1, <1>2 DEF NewStamp, TypeInv
<1>6. /\ firstDump' \in [Process -> BOOLEAN] /\ ~ firstDump'[p]
      /\ \A q \in Process : q # p => firstDump'[q] = firstDump[q]
  BY DEF NewStamp, TypeInv
<1>7. overlap' \subseteq 1..(clock' - 1)
  <2>1. UnderWay(p) \subseteq DOMAIN owner
    BY DEF UnderWay
  <2>2. overlap' \subseteq overlap \cup UnderWay(p) \cup {clock}
    <3>. HIDE DEF UnderWay
    <3>1. QED
      BY DEF NewStamp
  <2>3. overlap \subseteq 1..(clock - 1)
    BY DEF TypeInv
  <2>4. overlap' \subseteq 1..(clock - 1) \cup {clock}
    BY <1>1, <2>1, <2>2, <2>3
  <2>5. 1..(clock - 1) \cup {clock} = 1..(clock' - 1)
    BY <1>1, <1>2
  <2>6. QED
    BY <2>4, <2>5
<1>8. OwnerInv'
  <2>1. ASSUME NEW q \in Process
        PROVE  /\ firstDump'[q] <=> curTimeStamp'[q] = NoStamp
               /\ curTimeStamp'[q] # NoStamp => owner'[curTimeStamp'[q]] = q
    <3>1. CASE q = p
      BY <3>1, <1>1, <1>3, <1>5, <1>6 DEF NoStamp
    <3>2. CASE q # p
      BY <3>2, <1>3, <1>5, <1>6, ClockFacts DEF OwnerInv, NoStamp
    <3>3. QED
      BY <3>1, <3>2
  <2>2. ASSUME NEW s \in DOMAIN owner'
        PROVE  s <= curTimeStamp'[owner'[s]]
    <3>1. CASE s = clock
      BY <3>1, <1>1, <1>3, <1>5
    <3>2. CASE s # clock /\ owner[s] = p
      BY <3>2, <1>1, <1>3, <1>5
    <3>3. CASE s # clock /\ owner[s] # p
      <4>1. s \in DOMAIN owner /\ owner[s] \in Process
        BY <3>3, <1>1, <1>3
      <4>2. QED
        BY <3>3, <4>1, <1>3, <1>5 DEF OwnerInv
    <3>4. QED
      BY <3>1, <3>2, <3>3
  <2>3. QED
    BY <2>1, <2>2 DEF OwnerInv
<1>9. QED
  BY <1>1, <1>2, <1>3, <1>4, <1>5, <1>6, <1>7, <1>8

(* The directory a dump leaves when it begins, without and with its file.  *)
LEMMA DirectoryOfDump ==
    ASSUME TypeInv, clock <= 2 * MaxDumps, NEW p \in Process,
           NEW name \in File, name.stamp = clock, NEW content \in Contents(name)
    PROVE  /\ IsDirectory(CleanUp(p), clock + 1)
           /\ IsDirectory(With(CleanUp(p), name, content), clock + 1)
<1>1. clock \in Nat /\ clock + 1 \in Nat /\ clock < clock + 1
  BY ClockFacts
<1>2. IsDirectory(CleanUp(p), clock)
  <2>1. DOMAIN CleanUp(p) \subseteq Names /\ \A n \in DOMAIN CleanUp(p) : CleanUp(p)[n] = files[n]
    BY CleanUpProperties
  <2>2. \A n \in DOMAIN files : n \in File /\ n.stamp < clock /\ files[n] \in Contents(n)
    BY DEF TypeInv, IsDirectory
  <2>3. QED
    BY <2>1, <2>2 DEF IsDirectory
<1>3. IsDirectory(CleanUp(p), clock + 1)
  BY <1>1, <1>2, DirectoryLater
<1>4. name.stamp < clock + 1
  BY <1>1
<1>5. IsDirectory(With(CleanUp(p), name, content), clock + 1)
  BY <1>1, <1>3, <1>4, DirectoryWith
<1>6. QED
  BY <1>3, <1>5

LEMMA TypesOfStampStep ==
    ASSUME TypeInv, OwnerInv, clock <= 2 * MaxDumps,
           NEW p \in Process, NewStamp(p), IsDirectory(files', clock'),
           dumpStatus' \in [Process -> BOOLEAN],
           pc' \in [Process -> {"idle", "list", "trim", "unlink"}],
           \/ UNCHANGED work
           \/ \E kind \in {"sync", "listOnly"} :
                  work' = [work EXCEPT ![p] = [kind |-> kind, stamp |-> clock]],
           UNCHANGED <<victims, alive>>,
           native' \in [Stamp -> {"none", "dumping", "dumped", "append", "done"}],
           callback' \in [Stamp -> Pending \cup {"none", "answered", "lost"}]
    PROVE  TypeInv'
<1>1. work' \in [Process -> [kind : {"none", "sync", "async", "listOnly"},
                             stamp : 0..(clock' - 1)]]
  <2>1. clock \in Nat /\ clock' = clock + 1
    BY ClockFacts, NewStampFacts
  <2>2. work \in [Process -> [kind : {"none", "sync", "async", "listOnly"},
                              stamp : 0..(clock' - 1)]]
    <3>1. 0..(clock - 1) \subseteq 0..(clock' - 1)
      BY <2>1
    <3>2. ASSUME NEW q \in Process
          PROVE  work[q] \in [kind : {"none", "sync", "async", "listOnly"},
                              stamp : 0..(clock' - 1)]
      BY <3>1 DEF TypeInv
    <3>3. QED
      BY <3>2 DEF TypeInv
  <2>3. clock \in 0..(clock' - 1)
    BY <2>1
  <2>4. QED
    BY <2>2, <2>3
<1>2. /\ clock' \in 1..(2 * MaxDumps + 1) /\ owner' \in [1..(clock' - 1) -> Process]
      /\ curTimeStamp' \in [Process -> 0..(clock' - 1)]
      /\ firstDump' \in [Process -> BOOLEAN] /\ overlap' \subseteq 1..(clock' - 1)
  BY NewStampFacts
<1>3. victims' \in [Process -> SUBSET File] /\ alive' \in [Process -> BOOLEAN]
  BY DEF TypeInv
<1>4. QED
  BY <1>1, <1>2, <1>3 DEF TypeInv

LEMMA ListsToComeFacts ==
    ASSUME TypeInv, CallInv, DumpInv
    PROVE  /\ ListsToCome \subseteq DOMAIN owner /\ IsFiniteSet(ListsToCome)
           /\ Cardinality(ListsToCome) \in Nat
<1>1. ListsToCome \subseteq DOMAIN owner
  BY DEF ListsToCome, CallInv, CallOf, DumpInv
<1>2. IsFiniteSet(Stamp) /\ ListsToCome \in SUBSET Stamp
  BY FS_Interval, BoundAssumption DEF Stamp, ListsToCome
<1>3. QED
  BY <1>1, <1>2, FS_Subset, FS_CardinalityType

LEMMA StampsSuffice ==
    ASSUME BaseInv, NEW p \in Process,
           \/ clock <= MaxDumps
           \/ pc[p] = "list" /\ work[p].kind = "async"
    PROVE  clock <= 2 * MaxDumps
<1>1. clock \in Nat /\ MaxDumps \in Nat
  BY ClockFacts DEF BaseInv
<1>2. CASE clock <= MaxDumps
  BY <1>1, <1>2
<1>3. CASE pc[p] = "list" /\ work[p].kind = "async"
  <2>1. work[p] = [kind |-> "async", stamp |-> work[p].stamp] /\ work[p].stamp \in Stamp
    BY <1>3, ClockFacts DEF BaseInv, TypeInv, CallInv, CallOf
  <2>2. ListsToCome # {}
    BY <1>3, <2>1 DEF ListsToCome
  <2>3. IsFiniteSet(ListsToCome) /\ Cardinality(ListsToCome) \in Nat
    BY ListsToComeFacts DEF BaseInv
  <2>4. Cardinality(ListsToCome) # 0
    BY <2>2, <2>3, FS_EmptySet
  <2>5. QED
    BY <1>1, <2>3, <2>4 DEF BaseInv, BoundInv
<1>4. QED
  BY <1>2, <1>3

LEMMA ContentsOfFiles ==
    /\ \A s : {} \in Contents(RawHeap(s))
    /\ \A s : {"heap"} \in Contents(RawHeap(s)) /\ {"heap"} \in Contents(HeapSnapshot(s))
    /\ \A s : NoHash \in Contents(LeakList(s)) /\ Unwritten \in Contents(LeakList(s))
    /\ \A s, t : \A parts \in Contents(RawHeap(s)) :
           parts \cup {"meta"} \in Contents(RawHeap(s)) /\ Hashed(parts) \in Contents(LeakList(t))
    /\ \A s, t : \A parts \in Contents(HeapSnapshot(s)) : Hashed(parts) \in Contents(LeakList(t))
BY FileNames DEF Contents, Parts

LEMMA TypeStepOfStamps ==
    ASSUME BaseInv, NEW p \in Process, StampStep(p)
    PROVE  TypeInv' /\ OwnerInv'
<1>. USE DEF BaseInv
<1>1. NewStamp(p) /\ clock <= 2 * MaxDumps
  BY StampsSuffice DEF DumpRawHeap, DumpListOnly, DumpSync, WriteListOnly, MakeListOnly, MayDump
<1>2. OwnerInv' /\ clock' = clock + 1 /\ clock \in Stamp
  BY <1>1, NewStampFacts
<1>3. /\ RawHeap(clock) \in File /\ HeapSnapshot(clock) \in File /\ LeakList(clock) \in File
      /\ RawHeap(clock).stamp = clock /\ HeapSnapshot(clock).stamp = clock
      /\ LeakList(clock).stamp = clock
  BY <1>2, FileNames
<1>4. /\ IsDirectory(CleanUp(p), clock')
      /\ IsDirectory(With(CleanUp(p), RawHeap(clock), {}), clock')
      /\ IsDirectory(With(CleanUp(p), HeapSnapshot(clock), {"heap"}), clock')
      /\ IsDirectory(With(CleanUp(p), LeakList(clock), NoHash), clock')
  <2>1. /\ {} \in Contents(RawHeap(clock)) /\ {"heap"} \in Contents(HeapSnapshot(clock))
        /\ NoHash \in Contents(LeakList(clock))
    BY ContentsOfFiles
  <2>2. QED
    BY <1>1, <1>2, <1>3, <2>1, DirectoryOfDump
<1>5. CASE DumpRawHeap(p)
  <2>1. IsDirectory(files', clock')
    BY <1>4, <1>5 DEF DumpRawHeap
  <2>2. /\ native' \in [Stamp -> {"none", "dumping", "dumped", "append", "done"}]
        /\ callback' \in [Stamp -> Pending \cup {"none", "answered", "lost"}]
    BY <1>2, <1>5 DEF DumpRawHeap, TypeInv, Pending
  <2>3. dumpStatus' \in [Process -> BOOLEAN] /\ UNCHANGED <<pc, work, victims, alive>>
    BY <1>5 DEF DumpRawHeap, TypeInv, jsThread
  <2>4. pc' \in [Process -> {"idle", "list", "trim", "unlink"}]
    BY <2>3 DEF TypeInv
  <2>5. QED
    BY <1>1, <1>2, <2>1, <2>2, <2>3, <2>4, TypesOfStampStep
<1>6. CASE DumpListOnly(p)
  <2>1. IsDirectory(files', clock')
    BY <1>4, <1>6 DEF DumpListOnly, MakeListOnly
  <2>2. /\ native' \in [Stamp -> {"none", "dumping", "dumped", "append", "done"}]
        /\ callback' \in [Stamp -> Pending \cup {"none", "answered", "lost"}]
    BY <1>6 DEF DumpListOnly, TypeInv, dumpVars
  <2>3. /\ dumpStatus' \in [Process -> BOOLEAN] /\ UNCHANGED <<victims, alive>>
        /\ pc' \in [Process -> {"idle", "list", "trim", "unlink"}]
        /\ work' = [work EXCEPT ![p] = [kind |-> "listOnly", stamp |-> clock]]
    BY <1>6 DEF DumpListOnly, TypeInv, Enter
  <2>4. QED
    BY <1>1, <1>2, <2>1, <2>2, <2>3, TypesOfStampStep
<1>7. CASE DumpSync(p)
  <2>1. IsDirectory(files', clock')
    BY <1>4, <1>7 DEF DumpSync
  <2>2. /\ native' \in [Stamp -> {"none", "dumping", "dumped", "append", "done"}]
        /\ callback' \in [Stamp -> Pending \cup {"none", "answered", "lost"}]
    BY <1>7 DEF DumpSync, TypeInv, dumpVars
  <2>3. /\ dumpStatus' \in [Process -> BOOLEAN] /\ UNCHANGED <<victims, alive>>
        /\ pc' \in [Process -> {"idle", "list", "trim", "unlink"}]
        /\ \/ UNCHANGED work
           \/ work' = [work EXCEPT ![p] = [kind |-> "sync", stamp |-> clock]]
    BY <1>7 DEF DumpSync, TypeInv, Enter
  <2>4. QED
    BY <1>1, <1>2, <2>1, <2>2, <2>3, TypesOfStampStep
<1>8. CASE WriteListOnly(p)
  <2>1. IsDirectory(files', clock')
    BY <1>4, <1>8 DEF WriteListOnly, MakeListOnly
  <2>2. /\ native' \in [Stamp -> {"none", "dumping", "dumped", "append", "done"}]
        /\ callback' \in [Stamp -> Pending \cup {"none", "answered", "lost"}]
    BY <1>8 DEF WriteListOnly, TypeInv, dumpVars
  <2>3. /\ dumpStatus' \in [Process -> BOOLEAN] /\ UNCHANGED <<work, victims, alive>>
        /\ pc' \in [Process -> {"idle", "list", "trim", "unlink"}]
    BY <1>8 DEF WriteListOnly, TypeInv
  <2>4. QED
    BY <1>1, <1>2, <2>1, <2>2, <2>3, TypesOfStampStep
<1>9. QED
  BY <1>5, <1>6, <1>7, <1>8

LEMMA DirectoryOfList ==
    ASSUME TypeInv, NEW p \in Process, curTimeStamp[p] # NoStamp
    PROVE  /\ IsDirectory(With(files, LeakList(curTimeStamp[p]), Unwritten), clock)
           /\ \A data \in {RawHeap(curTimeStamp[p]), HeapSnapshot(curTimeStamp[p])} :
                  data \in Names =>
                      IsDirectory(With(files, LeakList(curTimeStamp[p]), Hashed(files[data])), clock)
<1>. DEFINE cur == curTimeStamp[p]
<1>1. cur \in Stamp /\ cur < clock /\ clock \in Nat /\ IsDirectory(files, clock)
  BY ClockFacts DEF TypeInv, NoStamp
<1>. HIDE DEF cur
<1>2. LeakList(cur) \in File /\ LeakList(cur).stamp < clock
  BY <1>1, FileNames
<1>3. Unwritten \in Contents(LeakList(cur))
  BY ContentsOfFiles
<1>4. IsDirectory(With(files, LeakList(cur), Unwritten), clock)
  BY <1>1, <1>2, <1>3, DirectoryWith
<1>5. ASSUME NEW data \in {RawHeap(cur), HeapSnapshot(cur)}, data \in Names
      PROVE  IsDirectory(With(files, LeakList(cur), Hashed(files[data])), clock)
  <2>1. files[data] \in Contents(data)
    BY <1>1, <1>5 DEF IsDirectory
  <2>2. Hashed(files[data]) \in Contents(LeakList(cur))
    BY <2>1, <1>5, ContentsOfFiles
  <2>3. QED
    BY <1>1, <1>2, <2>2, DirectoryWith
<1>6. QED
  BY <1>4, <1>5 DEF cur

LEMMA DirectoryOfHeap ==
    ASSUME TypeInv, NEW s \in DOMAIN owner
    PROVE  /\ IsDirectory(With(files, RawHeap(s), {"heap"}), clock)
           /\ LET opened == IF RawHeap(s) \in Names THEN files ELSE With(files, RawHeap(s), {})
              IN  /\ IsDirectory(opened, clock)
                  /\ IsDirectory(With(opened, RawHeap(s), opened[RawHeap(s)] \cup {"meta"}), clock)
<1>1. s \in Stamp /\ s < clock /\ clock \in Nat /\ IsDirectory(files, clock)
  BY ClockFacts DEF TypeInv
<1>2. RawHeap(s) \in File /\ RawHeap(s).stamp < clock
  BY <1>1, FileNames
<1>3. {"heap"} \in Contents(RawHeap(s)) /\ {} \in Contents(RawHeap(s))
  BY ContentsOfFiles
<1>4. /\ IsDirectory(With(files, RawHeap(s), {"heap"}), clock)
      /\ IsDirectory(With(files, RawHeap(s), {}), clock)
  BY <1>1, <1>2, <1>3, DirectoryWith
<1>. DEFINE opened == IF RawHeap(s) \in Names THEN files ELSE With(files, RawHeap(s), {})
<1>5. IsDirectory(opened, clock) /\ RawHeap(s) \in DOMAIN opened
  BY <1>1, <1>4 DEF With
<1>. HIDE DEF opened
<1>6. opened[RawHeap(s)] \cup {"meta"} \in Contents(RawHeap(s))
  <2>1. opened[RawHeap(s)] \in Contents(RawHeap(s))
    BY <1>5 DEF IsDirectory
  <2>2. QED
    BY <2>1, ContentsOfFiles
<1>7. IsDirectory(With(opened, RawHeap(s), opened[RawHeap(s)] \cup {"meta"}), clock)
  BY <1>1, <1>2, <1>5, <1>6, DirectoryWith
<1>8. QED
  BY <1>4, <1>5, <1>7 DEF opened

LEMMA TypesOfOtherStep ==
    ASSUME TypeInv, OwnerInv,
           UNCHANGED <<clock, owner, firstDump, curTimeStamp, overlap>>,
           IsDirectory(files', clock), dumpStatus' \in [Process -> BOOLEAN],
           pc' \in [Process -> {"idle", "list", "trim", "unlink"}],
           work' \in [Process -> [kind : {"none", "sync", "async", "listOnly"},
                                  stamp : 0..(clock - 1)]],
           victims' \in [Process -> SUBSET File],
           native' \in [Stamp -> {"none", "dumping", "dumped", "append", "done"}],
           callback' \in [Stamp -> Pending \cup {"none", "answered", "lost"}],
           alive' \in [Process -> BOOLEAN]
    PROVE  TypeInv' /\ OwnerInv'
BY DEF TypeInv, OwnerInv

(* A step gives a stamp, or it is one of the others.                       *)
LEMMA StepCases ==
    ASSUME [Next]_vars
    PROVE  \E p \in Process :
               StampStep(p) \/ \E s \in Stamp : OtherStep(p, s)
<1>1. 1 \in Stamp /\ \E p : p \in Process
  BY BoundAssumption, ProcessAssumption DEF Stamp
<1>2. QED
  BY <1>1 DEF Next, ListStep

(* The steps that give no stamp leave these alone.                         *)
LEMMA OtherStepFrame ==
    ASSUME NEW p \in Process, NEW s \in Stamp, OtherStep(p, s)
    PROVE  UNCHANGED <<clock, owner, firstDump, curTimeStamp, overlap>>
BY DEF DumpRefused, TakeCallback, WriteList, ListOldFiles, Unlink, Report, Crash,
       NativeStep, WriteHeap, QueueCallback, AppendMetaData, vars, jsGlobals

(* What they do to the JS threads and to the callbacks.                    *)
LEMMA OtherStepEffects ==
    ASSUME NEW p \in Process, NEW s \in Stamp, OtherStep(p, s)
    PROVE  /\ \/ \E where \in {"idle", "trim", "unlink"} :
                     pc' \in {pc, [pc EXCEPT ![p] = where]}
              \/ TakeCallback(p, s) /\ pc' = [pc EXCEPT ![p] = "list"]
           /\ \/ work' \in {work, [work EXCEPT ![p] = Idle]}
              \/ TakeCallback(p, s) /\ work' = [work EXCEPT ![p] = [kind |-> "async", stamp |-> s]]
           /\ \/ Crash(p)
              \/ \E becomes \in {"queued", "taken", "answered", "lost"} : \E t :
                    callback' \in {callback, [callback EXCEPT ![t] = becomes]}
           /\ \/ Crash(p)
              \/ \E becomes \in {"dumped", "append", "done"} :
                    native' \in {native, [native EXCEPT ![s] = becomes]}
<1>1. CASE DumpRefused(p) \/ UNCHANGED vars
  BY <1>1 DEF DumpRefused, vars, jsThread, dumpVars
<1>2. CASE TakeCallback(p, s)
  BY <1>2 DEF TakeCallback, Enter
<1>3. CASE WriteList(p)
  <2>1. UNCHANGED <<pc, work, callback>> \/ pc' = [pc EXCEPT ![p] = "trim"] \/ GiveUp(p)
    BY <1>3 DEF WriteList, HashAndList
  <2>2. native' = native
    BY <1>3 DEF WriteList
  <2>3. CASE GiveUp(p)
    BY <2>2, <2>3 DEF GiveUp, Enter, Idle
  <2>4. CASE ~ GiveUp(p)
    <3>1. pc' = [pc EXCEPT ![p] = "trim"] /\ work' = work /\ callback' = callback
      BY <1>3, <2>4 DEF WriteList, HashAndList
    <3>2. QED
      BY <2>2, <3>1
  <2>5. QED
    BY <2>3, <2>4
<1>4. CASE ListOldFiles(p)
  BY <1>4 DEF ListOldFiles, dumpVars
<1>5. CASE Unlink(p)
  <2>1. (UNCHANGED <<pc, work, callback>> \/ GiveUp(p)) /\ native' = native
    BY <1>5 DEF Unlink
  <2>2. CASE GiveUp(p)
    BY <2>1, <2>2 DEF GiveUp, Enter, Idle
  <2>3. QED
    BY <2>1, <2>2
<1>6. CASE Report(p)
  BY <1>6 DEF Report, Enter, Idle
<1>7. CASE Crash(p)
  BY <1>7 DEF Crash, Enter, Idle
<1>8. CASE NativeStep(s)
  BY <1>8 DEF NativeStep, WriteHeap, QueueCallback, AppendMetaData, jsThread
<1>9. QED
  BY <1>1, <1>2, <1>3, <1>4, <1>5, <1>6, <1>7, <1>8

LEMMA TypeStepOfOthers ==
    ASSUME BaseInv, NEW p \in Process, NEW s \in Stamp, OtherStep(p, s)
    PROVE  TypeInv' /\ OwnerInv'
<1>. USE DEF BaseInv
<1>1. UNCHANGED <<clock, owner, firstDump, curTimeStamp, overlap>>
  BY OtherStepFrame
<1>2. dumpStatus' \in [Process -> BOOLEAN]
  BY DEF TypeInv, DumpRefused, TakeCallback, WriteList, ListOldFiles, Unlink, Report, Crash,
         NativeStep, WriteHeap, QueueCallback, AppendMetaData, vars, jsGlobals
<1>3. pc' \in [Process -> {"idle", "list", "trim", "unlink"}]
  BY OtherStepEffects DEF TypeInv
<1>4. work' \in [Process -> [kind : {"none", "sync", "async", "listOnly"},
                             stamp : 0..(clock - 1)]]
  <2>1. /\ Idle \in [kind : {"none", "sync", "async", "listOnly"}, stamp : 0..(clock - 1)]
        /\ work \in [Process -> [kind : {"none", "sync", "async", "listOnly"},
                                 stamp : 0..(clock - 1)]]
    BY ClockFacts DEF TypeInv, NoStamp, Idle
  <2>2. CASE TakeCallback(p, s)
    <3>1. s \in 0..(clock - 1)
      BY <2>2, ClockFacts DEF TakeCallback, DumpInv
    <3>2. QED
      BY <2>1, <2>2, <3>1 DEF TakeCallback, Enter
  <2>3. CASE ~ TakeCallback(p, s)
    <3>1. work' \in {work, [work EXCEPT ![p] = Idle]}
      BY <2>3, OtherStepEffects
    <3>2. QED
      BY <2>1, <3>1
  <2>4. QED
    BY <2>2, <2>3
<1>5. victims' \in [Process -> SUBSET File]
  <2>1. victims \in [Process -> SUBSET File] /\ OldFiles(files) \in SUBSET File
    BY DEF TypeInv, OldFiles, IsDirectory
  <2>2. \A r : victims[p] \ {r} \in SUBSET File
    BY <2>1
  <2>3. QED
    BY <2>1, <2>2 DEF DumpRefused, TakeCallback, WriteList, ListOldFiles, Unlink, Report, Crash,
         NativeStep, WriteHeap, QueueCallback, AppendMetaData, vars, jsThread
<1>6. native' \in [Stamp -> {"none", "dumping", "dumped", "append", "done"}]
  <2>1. CASE Crash(p)
    BY <2>1 DEF Crash, TypeInv
  <2>2. CASE ~ Crash(p)
    <3>1. \E becomes \in {"dumped", "append", "done"} :
              native' \in {native, [native EXCEPT ![s] = becomes]}
      BY <2>2, OtherStepEffects
    <3>2. QED
      BY <3>1 DEF TypeInv
  <2>3. QED
    BY <2>1, <2>2
<1>7. callback' \in [Stamp -> Pending \cup {"none", "answered", "lost"}]
  <2>1. CASE Crash(p)
    BY <2>1 DEF Crash, TypeInv
  <2>2. CASE ~ Crash(p)
    <3>1. \E becomes \in {"queued", "taken", "answered", "lost"} : \E t :
              callback' \in {callback, [callback EXCEPT ![t] = becomes]}
      BY <2>2, OtherStepEffects
    <3>2. QED
      BY <3>1 DEF TypeInv, Pending
  <2>3. QED
    BY <2>1, <2>2
<1>8. alive' \in [Process -> BOOLEAN]
  BY DEF TypeInv, DumpRefused, TakeCallback, WriteList, ListOldFiles, Unlink, Report, Crash,
         NativeStep, WriteHeap, QueueCallback, AppendMetaData, vars
<1>9. IsDirectory(files', clock)
  <2>1. IsDirectory(files, clock)
    BY DEF TypeInv
  <2>2. CASE UNCHANGED files
    BY <2>1, <2>2
  <2>3. CASE WriteList(p)
    <3>1. curTimeStamp[p] # NoStamp
      BY <2>3 DEF WriteList, CallInv, CallOf
    <3>2. QED
      BY <2>1, <2>3, <3>1, DirectoryOfList DEF WriteList, HashAndList
  <2>4. CASE Unlink(p)
    <3>1. PICK n : files' \in {files, Without(files, {n})}
      BY <2>4 DEF Unlink
    <3>2. QED
      BY <2>1, <3>1 DEF Without, Restrict, IsDirectory
  <2>5. CASE WriteHeap(s) \/ AppendMetaData(s)
    <3>1. s \in DOMAIN owner
      BY <2>5 DEF WriteHeap, AppendMetaData, DumpInv
    <3>2. QED
      BY <2>1, <2>5, <3>1, DirectoryOfHeap DEF WriteHeap, AppendMetaData
  <2>6. QED
    BY <2>2, <2>3, <2>4, <2>5 DEF DumpRefused, TakeCallback, ListOldFiles, Report, Crash,
         NativeStep, QueueCallback, vars
<1>10. QED
  BY <1>1, <1>2, <1>3, <1>4, <1>5, <1>6, <1>7, <1>8, <1>9, TypesOfOtherStep

-----------------------------------------------------------------------------
(* The calls and the dumps they answer.                                    *)

(* How the callback of a dump goes on.                                     *)
LEMMA CallbackChanges ==
    ASSUME BaseInv, NEW p \in Process, NEW s \in Stamp, OtherStep(p, s),
           NEW t \in Stamp, callback'[t] # callback[t]
    PROVE  /\ t \in DOMAIN owner
           /\ \/ /\ QueueCallback(s) /\ t = s
                 /\ callback[t] = "waiting" /\ callback'[t] = "queued"
              \/ /\ TakeCallback(p, s) /\ t = s /\ owner[t] = p
                 /\ callback[t] = "queued" /\ callback'[t] = "taken"
              \/ /\ WriteList(p) \/ Unlink(p) \/ Report(p)
                 /\ owner[t] = p /\ work[p].kind = "async" /\ work[p].stamp = t
                 /\ pc'[p] = "idle" /\ callback[t] = "taken"
                 /\ callback'[t] = IF Report(p) THEN "answered" ELSE "lost"
              \/ /\ Crash(p) /\ owner[t] = p
                 /\ callback[t] \in Pending /\ callback'[t] = "lost"
<1>. USE DEF BaseInv
<1>0. callback \in [Stamp -> Pending \cup {"none", "answered", "lost"}]
      /\ pc \in [Process -> {"idle", "list", "trim", "unlink"}]
  BY DEF TypeInv
<1>1. CASE TakeCallback(p, s)
  BY <1>0, <1>1 DEF TakeCallback, DumpInv
<1>2. CASE GiveUp(p) /\ (WriteList(p) \/ Unlink(p))
  <2>1. work[p].kind = "async" /\ t = work[p].stamp /\ callback'[t] = "lost"
    BY <1>0, <1>2 DEF GiveUp
  <2>2. callback[t] = "taken" /\ owner[t] = p /\ t \in DOMAIN owner
    BY <2>1 DEF CallInv, CallOf
  <2>3. pc'[p] = "idle" /\ pc[p] # "trim"
    BY <1>0, <1>2 DEF GiveUp, Enter, WriteList, Unlink
  <2>4. ~ Report(p)
    BY <1>0, <2>1 DEF Report
  <2>5. QED
    BY <1>2, <2>1, <2>2, <2>3, <2>4
<1>3. CASE Report(p)
  <2>1. work[p].kind = "async" /\ t = work[p].stamp /\ callback'[t] = "answered"
    BY <1>0, <1>3 DEF Report
  <2>2. callback[t] = "taken" /\ owner[t] = p /\ t \in DOMAIN owner
    BY <2>1 DEF CallInv, CallOf
  <2>3. pc'[p] = "idle"
    BY <1>0, <1>3 DEF Report, Enter
  <2>4. QED
    BY <1>3, <2>1, <2>2, <2>3
<1>4. CASE Crash(p)
  BY <1>0, <1>4 DEF Crash
<1>5. CASE QueueCallback(s)
  BY <1>0, <1>5 DEF QueueCallback, DumpInv
<1>6. QED
  BY <1>1, <1>2, <1>3, <1>4, <1>5 DEF DumpRefused, WriteList, HashAndList, ListOldFiles,
      Unlink, NativeStep, WriteHeap, AppendMetaData, vars, dumpVars

LEMMA NativeChanges ==
    ASSUME BaseInv, NEW p \in Process, NEW s \in Stamp, OtherStep(p, s),
           NEW t \in Stamp, native'[t] # native[t]
    PROVE  /\ t \in DOMAIN owner
           /\ \/ WriteHeap(s) /\ t = s /\ native[t] = "dumping" /\ native'[t] = "dumped"
              \/ QueueCallback(s) /\ t = s /\ native[t] = "dumped" /\ native'[t] = "append"
              \/ AppendMetaData(s) /\ t = s /\ native[t] = "append" /\ native'[t] = "done"
              \/ Crash(p) /\ owner[t] = p /\ native'[t] = "done"
<1>. USE DEF BaseInv
<1>0. native \in [Stamp -> {"none", "dumping", "dumped", "append", "done"}]
  BY DEF TypeInv
<1>1. CASE Crash(p)
  BY <1>0, <1>1 DEF Crash
<1>2. CASE NativeStep(s)
  BY <1>0, <1>2 DEF NativeStep, WriteHeap, QueueCallback, AppendMetaData, DumpInv
<1>3. QED
  BY <1>1, <1>2 DEF DumpRefused, TakeCallback, WriteList, ListOldFiles, Unlink, Report,
      vars, dumpVars

LEMMA CallStepOfOthers ==
    ASSUME BaseInv, NEW p \in Process, NEW s \in Stamp, OtherStep(p, s)
    PROVE  CallInv'
<1>. USE DEF BaseInv
<1>1. UNCHANGED <<clock, owner, firstDump, curTimeStamp, overlap>>
  BY OtherStepFrame
<1>2. /\ pc \in [Process -> {"idle", "list", "trim", "unlink"}]
      /\ work \in [Process -> [kind : {"none", "sync", "async", "listOnly"},
                               stamp : 0..(clock - 1)]]
      /\ alive \in [Process -> BOOLEAN]
      /\ DOMAIN victims = Process /\ DOMAIN alive = Process /\ DOMAIN callback = Stamp
  BY DEF TypeInv
<1>3. DOMAIN owner \subseteq Stamp
  BY ClockFacts
<1>4. ASSUME NEW q \in Process, q # p
      PROVE  CallOf(q)'
  <2>1. /\ pc'[q] = pc[q] /\ work'[q] = work[q]
    BY <1>2, <1>4, OtherStepEffects
  <2>2. victims'[q] = victims[q] /\ alive'[q] = alive[q]
    BY <1>2, <1>4 DEF DumpRefused, TakeCallback, WriteList, ListOldFiles, Unlink, Report, Crash,
       NativeStep, WriteHeap, QueueCallback, AppendMetaData, vars, jsThread
  <2>3. ASSUME NEW t \in DOMAIN owner, callback[t] = "none" \/ (callback[t] = "taken" /\ owner[t] = q)
        PROVE  callback'[t] = callback[t]
    BY <1>3, <1>4, <2>3, CallbackChanges DEF Pending
  <2>4. CallOf(q)
    BY DEF CallInv
  <2>5. work'[q].kind \in {"sync", "listOnly"} =>
            /\ work'[q].stamp \in DOMAIN owner' /\ work'[q].stamp = curTimeStamp'[q]
            /\ callback'[work'[q].stamp] = "none"
    BY <1>1, <2>1, <2>3, <2>4 DEF CallOf
  <2>6. work'[q].kind = "async" =>
            /\ work'[q].stamp \in DOMAIN owner' /\ owner'[work'[q].stamp] = q
            /\ callback'[work'[q].stamp] = "taken"
    BY <1>1, <2>1, <2>3, <2>4 DEF CallOf
  <2>. HIDE DEF BaseInv
  <2>7. QED
    BY <1>1, <2>1, <2>2, <2>4, <2>5, <2>6 DEF CallOf
<1>5. CallOf(p)'
  <2>1. CASE DumpRefused(p) \/ UNCHANGED vars \/ NativeStep(s)
    <3>1. pc' = pc /\ work' = work /\ victims' = victims /\ alive' = alive
      BY <2>1 DEF DumpRefused, NativeStep, WriteHeap, QueueCallback, AppendMetaData, vars, jsThread
    <3>2. ASSUME NEW t \in DOMAIN owner, callback[t] \in {"none", "taken"}
          PROVE  callback'[t] = callback[t]
      <4>1. t \in Stamp /\ CallOf(p)
        BY <1>3 DEF CallInv
      <4>2. pc'[p] = "idle" => work[p].kind # "async"
        BY <3>1, <4>1 DEF CallOf, Idle
      <4>3. ~ Crash(p)
        BY <1>2, <3>1 DEF Crash
      <4>4. QED
        BY <3>2, <4>1, <4>2, <4>3, CallbackChanges
    <3>3. QED
      BY <1>1, <3>1, <3>2 DEF CallInv, CallOf
  <2>2. CASE TakeCallback(p, s)
    <3>1. /\ pc[p] = "idle" /\ pc'[p] = "list" /\ work'[p] = [kind |-> "async", stamp |-> s]
          /\ callback'[s] = "taken" /\ alive'[p] /\ victims'[p] = victims[p]
      BY <1>2, <2>2 DEF TakeCallback, Enter, Running
    <3>2. s \in DOMAIN owner /\ owner[s] = p
      BY <2>2 DEF TakeCallback, DumpInv
    <3>3. curTimeStamp[p] # NoStamp
      BY <3>2, ClockFacts DEF OwnerInv, NoStamp
    <3>4. QED
      BY <1>1, <3>1, <3>2, <3>3 DEF CallInv, CallOf
  <2>3. CASE pc'[p] = "idle" /\ work'[p] = Idle /\ victims'[p] = {}
    BY <2>3 DEF CallOf, Idle
  <2>4. CASE WriteList(p) /\ ~ GiveUp(p)
    <3>1. /\ pc[p] = "list" /\ pc'[p] = "trim"
          /\ UNCHANGED <<work, callback, victims, alive>>
      BY <1>2, <2>4 DEF WriteList, HashAndList
    <3>2. QED
      BY <1>1, <3>1 DEF CallInv, CallOf
  <2>5. CASE WriteList(p) /\ GiveUp(p)
    <3>1. pc'[p] = "idle" /\ work'[p] = Idle /\ victims' = victims /\ pc[p] = "list"
      BY <1>2, <2>5 DEF WriteList, GiveUp, Enter, Idle
    <3>2. QED
      BY <2>3, <3>1 DEF CallInv, CallOf
  <2>6. CASE ListOldFiles(p)
    <3>1. /\ pc[p] = "trim" /\ pc'[p] = "unlink"
          /\ UNCHANGED <<work, callback, alive>>
      BY <1>2, <2>6 DEF ListOldFiles, dumpVars
    <3>2. QED
      BY <1>1, <3>1 DEF CallInv, CallOf
  <2>7. CASE Unlink(p) /\ ~ GiveUp(p)
    <3>1. pc[p] = "unlink" /\ UNCHANGED <<pc, work, callback, alive>>
      BY <2>7 DEF Unlink
    <3>2. QED
      BY <1>1, <3>1 DEF CallInv, CallOf
  <2>8. CASE Unlink(p) /\ GiveUp(p)
    <3>1. pc'[p] = "idle" /\ work'[p] = Idle
      BY <1>2, <2>8 DEF GiveUp, Enter, Idle
    <3>2. pc' # pc
      BY <2>8, <3>1 DEF Unlink
    <3>3. victims'[p] = {}
      BY <1>2, <2>8, <3>2 DEF Unlink
    <3>4. QED
      BY <2>3, <3>1, <3>3
  <2>9. CASE Report(p)
    <3>1. pc'[p] = "idle" /\ work'[p] = Idle /\ victims'[p] = {}
      BY <1>2, <2>9 DEF Report, Enter, Idle
    <3>2. QED
      BY <2>3, <3>1
  <2>10. CASE Crash(p)
    <3>1. pc'[p] = "idle" /\ work'[p] = Idle /\ victims'[p] = {}
      BY <1>2, <2>10 DEF Crash, Enter, Idle
    <3>2. QED
      BY <2>3, <3>1
  <2>11. QED
    BY <2>1, <2>2, <2>4, <2>5, <2>6, <2>7, <2>8, <2>9, <2>10
<1>6. QED
  BY <1>4, <1>5 DEF CallInv

LEMMA DumpStepOfOthers ==
    ASSUME BaseInv, NEW p \in Process, NEW s \in Stamp, OtherStep(p, s)
    PROVE  DumpInv'
<1>. USE DEF BaseInv
<1>1. UNCHANGED <<clock, owner, firstDump, curTimeStamp, overlap>>
  BY OtherStepFrame
<1>2. /\ pc \in [Process -> {"idle", "list", "trim", "unlink"}]
      /\ callback \in [Stamp -> Pending \cup {"none", "answered", "lost"}]
      /\ native \in [Stamp -> {"none", "dumping", "dumped", "append", "done"}]
      /\ alive \in [Process -> BOOLEAN] /\ DOMAIN work = Process
  BY DEF TypeInv
<1>3. DOMAIN owner \subseteq Stamp /\ \A t \in DOMAIN owner : owner[t] \in Process
  BY ClockFacts
<1>4. ASSUME NEW t \in Stamp \ DOMAIN owner
      PROVE  native'[t] = "none" /\ callback'[t] = "none"
  BY CallbackChanges, NativeChanges DEF DumpInv
<1>5. ASSUME NEW t \in DOMAIN owner
      PROVE  /\ native'[t] \in {"dumping", "dumped"} <=> callback'[t] = "waiting"
             /\ callback'[t] = "none" => native'[t] \in {"none", "done"}
  <2>1. t \in Stamp
    BY <1>3
  <2>2. /\ native[t] \in {"dumping", "dumped"} <=> callback[t] = "waiting"
        /\ callback[t] = "none" => native[t] \in {"none", "done"}
    BY DEF DumpInv
  <2>3. CASE QueueCallback(s) /\ t = s
    BY <1>2, <2>1, <2>3 DEF QueueCallback
  <2>4. CASE WriteHeap(s) /\ t = s
    BY <1>2, <2>1, <2>2, <2>4 DEF WriteHeap
  <2>5. CASE AppendMetaData(s) /\ t = s
    BY <1>2, <2>1, <2>2, <2>5 DEF AppendMetaData
  <2>6. CASE Crash(p) /\ owner[t] = p
    BY <1>2, <2>1, <2>2, <2>6 DEF Crash, Pending
  <2>7. CASE callback'[t] = callback[t] /\ native'[t] = native[t]
    BY <2>2, <2>7
  <2>8. CASE /\ native'[t] = native[t] /\ callback[t] \in {"queued", "taken"}
             /\ callback'[t] \in {"taken", "answered", "lost"}
    BY <1>2, <2>1, <2>2, <2>8
  <2>9. QED
    BY <2>1, <2>3, <2>4, <2>5, <2>6, <2>7, <2>8, CallbackChanges, NativeChanges
<1>6. ASSUME NEW t \in DOMAIN owner, callback'[t] = "taken"
      PROVE  work'[owner[t]] = [kind |-> "async", stamp |-> t]
  <2>1. t \in Stamp /\ owner[t] \in Process
    BY <1>3
  <2>2. CASE callback[t] # "taken"
    <3>1. TakeCallback(p, s) /\ t = s /\ owner[t] = p
      BY <1>6, <2>1, <2>2, CallbackChanges
    <3>2. QED
      BY <1>2, <3>1 DEF TakeCallback, Enter
  <2>3. CASE callback[t] = "taken" /\ owner[t] # p
    BY <1>2, <2>1, <2>3, OtherStepEffects DEF DumpInv
  <2>4. CASE callback[t] = "taken" /\ owner[t] = p
    <3>1. work[p] = [kind |-> "async", stamp |-> t]
      BY <2>4 DEF DumpInv
    <3>2. pc[p] # "idle"
      BY <3>1 DEF CallInv, CallOf, Idle
    <3>3. ~ TakeCallback(p, s)
      BY <3>2 DEF TakeCallback, Running
    <3>4. ~ GiveUp(p)
      BY <1>2, <1>6, <2>1, <3>1 DEF GiveUp
    <3>5. ~ Report(p)
      BY <1>2, <1>6, <2>1, <3>1 DEF Report
    <3>6. ~ Crash(p)
      BY <1>2, <1>6, <2>1, <2>4 DEF Crash, Pending
    <3>7. work' = work
      BY <3>3, <3>4, <3>5, <3>6 DEF DumpRefused, WriteList, HashAndList, ListOldFiles, Unlink,
         NativeStep, WriteHeap, QueueCallback, AppendMetaData, vars, jsThread
    <3>8. QED
      BY <2>4, <3>1, <3>7
  <2>5. QED
    BY <2>2, <2>3, <2>4
<1>7. ASSUME NEW t \in DOMAIN owner, ~ alive'[owner[t]]
      PROVE  native'[t] \in {"none", "done"} /\ callback'[t] \notin Pending
  <2>1. t \in Stamp /\ owner[t] \in Process
    BY <1>3
  <2>2. CASE Crash(p) /\ owner[t] = p
    BY <1>2, <2>1, <2>2 DEF Crash, Pending
  <2>3. CASE ~ (Crash(p) /\ owner[t] = p)
    <3>1. ~ alive[owner[t]]
      BY <1>2, <1>7, <2>1, <2>3 DEF DumpRefused, TakeCallback, WriteList, ListOldFiles, Unlink,
         Report, Crash, NativeStep, WriteHeap, QueueCallback, AppendMetaData, vars
    <3>2. native[t] \in {"none", "done"} /\ callback[t] \notin Pending
      BY <3>1 DEF DumpInv
    <3>3. native'[t] = native[t]
      BY <2>1, <2>3, <3>2, NativeChanges
    <3>4. callback'[t] = callback[t]
      BY <2>1, <2>3, <3>2, CallbackChanges DEF Pending
    <3>5. QED
      BY <3>2, <3>3, <3>4
  <2>4. QED
    BY <2>2, <2>3
<1>8. QED
  BY <1>1, <1>4, <1>5, <1>6, <1>7 DEF DumpInv

(* The steps that give a stamp leave older dumps alone.  The new one is a   *)
(* raw heap, a list, or a snapshot, or it has failed.                       *)
LEMMA StampStepEffects ==
    ASSUME BaseInv, NEW p \in Process, StampStep(p)
    PROVE  /\ NewStamp(p) /\ clock <= 2 * MaxDumps /\ UNCHANGED <<victims, alive>>
           /\ \A t \in Stamp \ {clock} : native'[t] = native[t] /\ callback'[t] = callback[t]
           /\ \A q \in Process \ {p} : pc'[q] = pc[q] /\ work'[q] = work[q]
           /\ \/ /\ callback'[clock] = "waiting" /\ native'[clock] = "dumping"
                 /\ files' = With(CleanUp(p), RawHeap(clock), {})
                 /\ pc[p] = "idle" /\ UNCHANGED <<pc, work>>
              \/ /\ callback'[clock] \in {"none", "lost"} /\ native'[clock] = "none"
                 /\ \/ files' = CleanUp(p)
                    \/ callback'[clock] = "lost" /\ files' = With(CleanUp(p), RawHeap(clock), {})
                 /\ "create" \in Faults
                 /\ pc[p] = "idle" /\ UNCHANGED <<pc, work>>
              \/ /\ callback'[clock] = "none" /\ native'[clock] = "none"
                 /\ files' = With(CleanUp(p), LeakList(clock), NoHash)
                 /\ pc[p] = "idle" /\ pc'[p] = "trim"
                 /\ work'[p] = [kind |-> "listOnly", stamp |-> clock]
              \/ /\ callback'[clock] = "none" /\ native'[clock] = "none"
                 /\ files' = With(CleanUp(p), HeapSnapshot(clock), {"heap"})
                 /\ pc[p] = "idle" /\ pc'[p] = "list"
                 /\ work'[p] = [kind |-> "sync", stamp |-> clock]
              \/ /\ callback'[clock] = "none" /\ native'[clock] = "none"
                 /\ files' = With(CleanUp(p), LeakList(clock), NoHash)
                 /\ pc[p] = "list" /\ pc'[p] = "trim" /\ UNCHANGED work
                 /\ work[p].kind = "async"
<1>. USE DEF BaseInv
<1>1. NewStamp(p) /\ clock <= 2 * MaxDumps
  BY StampsSuffice DEF DumpRawHeap, DumpListOnly, DumpSync, WriteListOnly, MakeListOnly, MayDump
<1>2. /\ DOMAIN native = Stamp /\ DOMAIN callback = Stamp /\ DOMAIN pc = Process
      /\ DOMAIN work = Process
  BY DEF TypeInv
<1>3. clock \in Stamp /\ native[clock] = "none" /\ callback[clock] = "none"
  BY <1>1, ClockFacts DEF DumpInv
<1>4. CASE DumpRawHeap(p)
  BY <1>1, <1>2, <1>3, <1>4 DEF DumpRawHeap, jsThread, MayDump, Running
<1>5. CASE DumpListOnly(p)
  BY <1>1, <1>2, <1>3, <1>5 DEF DumpListOnly, MakeListOnly, Enter, dumpVars, MayDump, Running
<1>6. CASE DumpSync(p)
  BY <1>1, <1>2, <1>3, <1>6 DEF DumpSync, Enter, dumpVars, MayDump, Running
<1>7. CASE WriteListOnly(p)
  BY <1>1, <1>2, <1>3, <1>7 DEF WriteListOnly, MakeListOnly, dumpVars
<1>8. QED
  BY <1>4, <1>5, <1>6, <1>7

LEMMA CallStepOfStamps ==
    ASSUME BaseInv, NEW p \in Process, StampStep(p)
    PROVE  CallInv'
<1>. USE DEF BaseInv
<1>1. /\ DOMAIN owner' = DOMAIN owner \cup {clock} /\ clock \notin DOMAIN owner
      /\ owner'[clock] = p /\ \A t \in DOMAIN owner : owner'[t] = owner[t]
      /\ curTimeStamp'[p] = clock
      /\ \A q \in Process : q # p => curTimeStamp'[q] = curTimeStamp[q]
  BY StampStepEffects, NewStampFacts
<1>2. \A t \in DOMAIN owner : native'[t] = native[t] /\ callback'[t] = callback[t]
  BY <1>1, StampStepEffects, ClockFacts
<1>3. victims' = victims /\ alive' = alive
  BY StampStepEffects
<1>4. ASSUME NEW q \in Process, q # p
      PROVE  CallOf(q)'
  <2>1. CallOf(q) /\ pc'[q] = pc[q] /\ work'[q] = work[q] /\ curTimeStamp'[q] = curTimeStamp[q]
    BY <1>1, <1>4, StampStepEffects DEF CallInv
  <2>. HIDE DEF BaseInv
  <2>2. QED
    BY <1>1, <1>2, <1>3, <2>1 DEF CallOf
<1>5. CallOf(p)'
  <2>1. CallOf(p) /\ clock # NoStamp
    BY ClockFacts DEF CallInv, NoStamp
  <2>2. alive[p]
    BY <2>1 DEF CallOf, DumpRawHeap, DumpListOnly, DumpSync, WriteListOnly, MayDump, Running
  <2>3. CASE pc[p] = "idle" /\ UNCHANGED <<pc, work>>
    BY <1>3, <2>1, <2>3 DEF CallOf, Idle
  <2>4. CASE /\ callback'[clock] = "none" /\ pc[p] = "idle" /\ pc'[p] \in {"list", "trim"}
             /\ work'[p].kind \in (IF pc'[p] = "list" THEN {"sync"} ELSE {"listOnly"})
             /\ work'[p].stamp = clock
    BY <1>1, <1>3, <2>1, <2>2, <2>4 DEF CallOf
  <2>5. CASE /\ pc[p] = "list" /\ pc'[p] = "trim" /\ UNCHANGED work
             /\ work[p].kind = "async"
    BY <1>1, <1>2, <1>3, <2>1, <2>2, <2>5 DEF CallOf
  <2>6. QED
    BY <2>3, <2>4, <2>5, StampStepEffects
<1>6. QED
  BY <1>4, <1>5 DEF CallInv

LEMMA DumpStepOfStamps ==
    ASSUME BaseInv, NEW p \in Process, StampStep(p)
    PROVE  DumpInv'
<1>. USE DEF BaseInv
<1>1. /\ DOMAIN owner' = DOMAIN owner \cup {clock} /\ clock \notin DOMAIN owner
      /\ owner'[clock] = p /\ \A t \in DOMAIN owner : owner'[t] = owner[t]
  BY StampStepEffects, NewStampFacts
<1>2. \A t \in Stamp \ {clock} : native'[t] = native[t] /\ callback'[t] = callback[t]
  BY StampStepEffects
<1>3. alive' = alive /\ alive[p]
  BY StampStepEffects DEF DumpRawHeap, DumpListOnly, DumpSync, WriteListOnly, MayDump, Running
<1>4. \A t \in Stamp \ DOMAIN owner' : native'[t] = "none" /\ callback'[t] = "none"
  BY <1>1, <1>2 DEF DumpInv
<1>5. \/ callback'[clock] = "waiting" /\ native'[clock] = "dumping"
      \/ callback'[clock] \in {"none", "lost"} /\ native'[clock] = "none"
  BY StampStepEffects
<1>6. ASSUME NEW t \in DOMAIN owner, callback'[t] = "taken"
      PROVE  work'[owner[t]] = [kind |-> "async", stamp |-> t]
  <2>1. t \in Stamp \ {clock} /\ owner[t] \in Process
    BY <1>1, ClockFacts
  <2>2. work[owner[t]] = [kind |-> "async", stamp |-> t]
    BY <1>2, <1>6, <2>1 DEF DumpInv
  <2>3. pc[owner[t]] # "idle"
    BY <2>1, <2>2 DEF CallInv, CallOf, Idle
  <2>4. QED
    BY <2>1, <2>2, <2>3, StampStepEffects
<1>7. ASSUME NEW t \in DOMAIN owner
      PROVE  /\ t # clock
             /\ native'[t] \in {"dumping", "dumped"} <=> callback'[t] = "waiting"
             /\ callback'[t] = "none" => native'[t] \in {"none", "done"}
             /\ ~ alive'[owner'[t]] => native'[t] \in {"none", "done"} /\ callback'[t] \notin Pending
  <2>1. t \in Stamp /\ t # clock
    BY <1>1, ClockFacts
  <2>2. /\ native'[t] = native[t] /\ callback'[t] = callback[t]
        /\ alive'[owner'[t]] = alive[owner[t]]
    BY <1>1, <1>2, <1>3, <2>1
  <2>3. /\ native[t] \in {"dumping", "dumped"} <=> callback[t] = "waiting"
        /\ callback[t] = "none" => native[t] \in {"none", "done"}
        /\ ~ alive[owner[t]] => native[t] \in {"none", "done"} /\ callback[t] \notin Pending
    BY DEF DumpInv
  <2>. HIDE DEF BaseInv
  <2>4. QED
    BY <2>1, <2>2, <2>3
<1>8. QED
  BY <1>1, <1>3, <1>4, <1>5, <1>6, <1>7 DEF DumpInv

LEMMA SnapshotStepOfStamps ==
    ASSUME BaseInv, NEW p \in Process, StampStep(p)
    PROVE  SnapshotInv'
<1>. USE DEF BaseInv
<1>1. clock' = clock + 1 /\ clock \in Stamp /\ clock \in Nat
  BY StampStepEffects, NewStampFacts, ClockFacts
<1>2. victims' = victims /\ \A t \in Stamp \ {clock} : callback'[t] = callback[t]
  BY StampStepEffects
<1>3. \A n \in Names : n \in File /\ n.stamp \in Stamp /\ n.stamp < clock
  BY FileNames DEF TypeInv, IsDirectory
<1>4. ASSUME NEW q \in Process, NEW n \in victims'[q]
      PROVE  n.stamp < clock' /\ (n.kind = "heapsnapshot" => callback'[n.stamp] = "none")
  <2>1. n \in victims[q] /\ n.stamp \in Stamp
    BY <1>2, <1>4, FileNames DEF TypeInv
  <2>2. n.stamp < clock /\ (n.kind = "heapsnapshot" => callback[n.stamp] = "none")
    BY <2>1 DEF SnapshotInv
  <2>3. n.stamp < clock' /\ n.stamp # clock
    BY <1>1, <2>1, <2>2 DEF Stamp
  <2>4. QED
    BY <1>2, <2>1, <2>2, <2>3
<1>5. ASSUME NEW n \in DOMAIN files', n.kind = "heapsnapshot"
      PROVE  callback'[n.stamp] = "none"
  <2>1. CASE n \in DOMAIN CleanUp(p)
    <3>1. n \in Names
      BY <2>1, CleanUpProperties
    <3>2. n.stamp \in Stamp \ {clock} /\ callback[n.stamp] = "none"
      BY <1>1, <1>3, <1>5, <3>1 DEF SnapshotInv
    <3>3. QED
      BY <1>2, <3>2
  <2>2. CASE n \notin DOMAIN CleanUp(p)
    <3>1. n = HeapSnapshot(clock) /\ callback'[clock] = "none"
      <4>1. \/ DOMAIN files' = DOMAIN CleanUp(p)
            \/ DOMAIN files' = DOMAIN CleanUp(p) \cup {RawHeap(clock)}
            \/ DOMAIN files' = DOMAIN CleanUp(p) \cup {LeakList(clock)}
            \/ /\ DOMAIN files' = DOMAIN CleanUp(p) \cup {HeapSnapshot(clock)}
               /\ callback'[clock] = "none"
        BY StampStepEffects DEF With
      <4>2. RawHeap(clock).kind # "heapsnapshot" /\ LeakList(clock).kind # "heapsnapshot"
        BY FileNames
      <4>3. QED
        BY <1>5, <2>2, <4>1, <4>2
    <3>2. QED
      BY <3>1, FileNames
  <2>3. QED
    BY <2>1, <2>2
<1>6. QED
  BY <1>4, <1>5 DEF SnapshotInv

LEMMA SnapshotStepOfOthers ==
    ASSUME BaseInv, NEW p \in Process, NEW s \in Stamp, OtherStep(p, s)
    PROVE  SnapshotInv'
<1>. USE DEF BaseInv
<1>1. clock' = clock
  BY OtherStepFrame
<1>2. ASSUME NEW t \in Stamp, callback[t] = "none"
      PROVE  callback'[t] = "none"
  BY <1>2, CallbackChanges DEF Pending
<1>3. \A n \in Names : n \in File /\ n.stamp \in Stamp /\ n.stamp < clock
  BY FileNames DEF TypeInv, IsDirectory
<1>4. ASSUME NEW n \in DOMAIN files', n.kind = "heapsnapshot"
      PROVE  n \in Names
  <2>1. \/ DOMAIN files' \subseteq Names
        \/ WriteList(p) /\ DOMAIN files' \subseteq Names \cup {LeakList(curTimeStamp[p])}
        \/ NativeStep(s) /\ DOMAIN files' \subseteq Names \cup {RawHeap(s)}
    BY DEF DumpRefused, TakeCallback, WriteList, ListOldFiles, Unlink, Report, Crash,
       NativeStep, WriteHeap, QueueCallback, AppendMetaData, vars, HashAndList,
       With, Without, Restrict
  <2>2. LeakList(curTimeStamp[p]).kind # "heapsnapshot" /\ RawHeap(s).kind # "heapsnapshot"
    BY FileNames
  <2>3. QED
    BY <1>4, <2>1, <2>2
<1>5. ASSUME NEW n \in DOMAIN files', n.kind = "heapsnapshot"
      PROVE  callback'[n.stamp] = "none"
  BY <1>2, <1>3, <1>4, <1>5 DEF SnapshotInv
<1>6. ASSUME NEW q \in Process, NEW n \in victims'[q]
      PROVE  n.stamp < clock /\ (n.kind = "heapsnapshot" => callback'[n.stamp] = "none")
  <2>1. victims[q] \subseteq File /\ DOMAIN victims = Process
    BY DEF TypeInv
  <2>2. n \in victims[q] \/ n \in Names
    BY <2>1, <1>6 DEF OldFiles, DumpRefused, TakeCallback, WriteList, ListOldFiles, Unlink,
       Report, Crash, NativeStep, WriteHeap, QueueCallback, AppendMetaData, vars, jsThread
  <2>3. n.stamp \in Stamp /\ n.stamp < clock /\ (n.kind = "heapsnapshot" => callback[n.stamp] = "none")
    BY <1>3, <2>1, <2>2, FileNames DEF SnapshotInv
  <2>4. QED
    BY <1>2, <2>3
<1>7. QED
  BY <1>1, <1>5, <1>6 DEF SnapshotInv

(* Each stamp that WriteListOnly takes is one of a callback less.          *)
LEMMA BoundStep ==
    ASSUME BaseInv, TypeInv', CallInv', DumpInv', [Next]_vars
    PROVE  BoundInv'
<1>. USE DEF BaseInv
<1>1. /\ IsFiniteSet(ListsToCome) /\ Cardinality(ListsToCome) \in Nat
      /\ IsFiniteSet(ListsToCome') /\ Cardinality(ListsToCome') \in Nat
      /\ ListsToCome' \subseteq DOMAIN owner'
  <2>1. /\ ListsToCome' \subseteq DOMAIN owner'
    BY DEF ListsToCome, CallInv, CallOf, DumpInv
  <2>2. IsFiniteSet(Stamp) /\ ListsToCome \in SUBSET Stamp /\ ListsToCome' \in SUBSET Stamp
    BY FS_Interval, BoundAssumption DEF Stamp, ListsToCome
  <2>3. QED
    BY <2>1, <2>2, FS_Subset, FS_CardinalityType
<1>2. clock \in Nat /\ MaxDumps \in Nat
  BY ClockFacts
<1>3. ASSUME NEW p \in Process, NEW s \in Stamp, OtherStep(p, s)
      PROVE  BoundInv'
  <2>1. ASSUME NEW t \in ListsToCome'
        PROVE  t \in ListsToCome
    <3>1. t \in Stamp
      BY DEF ListsToCome
    <3>2. CASE callback'[t] \in {"waiting", "queued"}
      <4>1. callback[t] \in {"waiting", "queued"}
        BY <1>3, <3>1, <3>2, CallbackChanges
      <4>2. QED
        BY <3>1, <4>1 DEF ListsToCome
    <3>3. CASE \E q \in Process : pc'[q] = "list" /\ work'[q] = [kind |-> "async", stamp |-> t]
      <4>1. PICK q \in Process : pc'[q] = "list" /\ work'[q] = [kind |-> "async", stamp |-> t]
        BY <3>3
      <4>2. CASE pc[q] = "list" /\ work[q] = [kind |-> "async", stamp |-> t]
        BY <3>1, <4>2 DEF ListsToCome
      <4>3. CASE TakeCallback(p, s)
        <5>1. CASE q = p
          BY <3>1, <4>1, <4>3, <5>1 DEF TakeCallback, Enter, ListsToCome, TypeInv
        <5>2. CASE q # p
          BY <4>1, <4>2, <4>3, <5>2 DEF TakeCallback, Enter, TypeInv
        <5>3. QED
          BY <5>1, <5>2
      <4>4. CASE ~ TakeCallback(p, s)
        <5>1. pc[q] = "list"
          <6>1. \E where \in {"idle", "trim", "unlink"} : pc' \in {pc, [pc EXCEPT ![p] = where]}
            BY <1>3, <4>4, OtherStepEffects
          <6>2. DOMAIN pc = Process
            BY DEF TypeInv
          <6>. HIDE DEF BaseInv
          <6>3. QED
            BY <4>1, <6>1, <6>2
        <5>2. work'[q] \in {work[q], Idle}
          <6>1. work' \in {work, [work EXCEPT ![p] = Idle]}
            BY <1>3, <4>4, OtherStepEffects
          <6>2. DOMAIN work = Process
            BY DEF TypeInv
          <6>. HIDE DEF BaseInv
          <6>3. QED
            BY <6>1, <6>2
        <5>3. QED
          BY <4>1, <4>2, <5>1, <5>2 DEF Idle
      <4>5. QED
        BY <4>3, <4>4
    <3>4. QED
      BY <3>2, <3>3 DEF ListsToCome
  <2>2. Cardinality(ListsToCome') <= Cardinality(ListsToCome)
    BY <1>1, <2>1, FS_Subset
  <2>3. clock' = clock
    BY <1>3, OtherStepFrame
  <2>4. QED
    BY <1>1, <1>2, <2>2, <2>3 DEF BoundInv
<1>4. ASSUME NEW p \in Process, DumpRawHeap(p) \/ DumpListOnly(p) \/ DumpSync(p)
      PROVE  BoundInv'
  <2>1. clock <= MaxDumps /\ clock' = clock + 1
    BY <1>4, StampStepEffects, NewStampFacts DEF DumpRawHeap, DumpListOnly, DumpSync, MayDump
  <2>2. ListsToCome' \in SUBSET (1..clock) /\ IsFiniteSet(1..clock) /\ Cardinality(1..clock) = clock
    <3>1. DOMAIN owner' = 1..clock
      BY <1>2, <2>1 DEF TypeInv
    <3>2. IsFiniteSet(1..clock) /\ Cardinality(1..clock) = clock
      BY <1>2, FS_Interval
    <3>3. QED
      BY <1>1, <3>1, <3>2
  <2>3. Cardinality(ListsToCome') <= clock
    BY <2>2, FS_Subset
  <2>4. QED
    BY <1>1, <1>2, <2>1, <2>3 DEF BoundInv
<1>5. ASSUME NEW p \in Process, WriteListOnly(p)
      PROVE  BoundInv'
  <2>. DEFINE answered == work[p].stamp
  <2>1. /\ pc[p] = "list" /\ work[p].kind = "async" /\ UNCHANGED <<work, native, callback>>
        /\ pc' = [pc EXCEPT ![p] = "trim"] /\ clock' = clock + 1
    BY <1>5, StampStepEffects, NewStampFacts DEF WriteListOnly, dumpVars
  <2>2. /\ answered \in DOMAIN owner /\ owner[answered] = p /\ callback[answered] = "taken"
        /\ answered \in Stamp /\ work[p] = [kind |-> "async", stamp |-> answered]
    <3>1. CallOf(p) /\ DOMAIN owner \subseteq Stamp
      BY ClockFacts DEF CallInv
    <3>2. work[p] \in [kind : {"none", "sync", "async", "listOnly"}, stamp : 0..(clock - 1)]
      BY DEF TypeInv
    <3>. HIDE DEF BaseInv
    <3>3. QED
      BY <2>1, <3>1, <3>2 DEF CallOf
  <2>3. answered \in ListsToCome
    BY <2>1, <2>2 DEF ListsToCome
  <2>4. ASSUME NEW t \in ListsToCome'
        PROVE  t \in ListsToCome /\ t # answered
    <3>1. CASE callback[t] \in {"waiting", "queued"}
      BY <2>1, <2>2, <3>1 DEF ListsToCome
    <3>2. CASE callback[t] \notin {"waiting", "queued"}
      <4>1. PICK q \in Process : pc'[q] = "list" /\ work'[q] = [kind |-> "async", stamp |-> t]
        BY <2>1, <3>2 DEF ListsToCome
      <4>2. q # p /\ pc[q] = "list" /\ work[q] = [kind |-> "async", stamp |-> t]
        BY <2>1, <4>1 DEF TypeInv
      <4>3. owner[t] = q
        BY <4>2 DEF CallInv, CallOf
      <4>4. QED
        BY <2>2, <4>2, <4>3 DEF ListsToCome
    <3>3. QED
      BY <3>1, <3>2
  <2>. HIDE DEF answered
  <2>5. ListsToCome' \in SUBSET (ListsToCome \ {answered})
    BY <2>4
  <2>6. /\ IsFiniteSet(ListsToCome \ {answered})
        /\ Cardinality(ListsToCome \ {answered}) = Cardinality(ListsToCome) - 1
    BY <1>1, <2>3, FS_RemoveElement
  <2>7. Cardinality(ListsToCome') <= Cardinality(ListsToCome) - 1
    BY <2>5, <2>6, FS_Subset
  <2>8. QED
    BY <1>1, <1>2, <2>1, <2>7 DEF BoundInv
<1>6. QED
  BY <1>3, <1>4, <1>5, StepCases

-----------------------------------------------------------------------------
(* The invariant that all the others rest on.                              *)

LEMMA BaseInit == Init => BaseInv
<1>. SUFFICES ASSUME Init
              PROVE  BaseInv
  OBVIOUS
<1>. USE DEF Init
<1>1. MaxDumps \in Nat /\ Stamp = 1..(2 * MaxDumps) /\ 1..(clock - 1) = {}
  BY BoundAssumption DEF Stamp
<1>2. TypeInv
  <2>1. clock \in 1..(2 * MaxDumps + 1)
    BY <1>1
  <2>2. owner \in [1..(clock - 1) -> Process] /\ overlap \subseteq 1..(clock - 1)
    BY <1>1
  <2>3. IsDirectory(files, clock)
    BY DEF IsDirectory
  <2>4. work \in [Process -> [kind : {"none", "sync", "async", "listOnly"},
                              stamp : 0..(clock - 1)]]
    BY DEF Idle, NoStamp
  <2>5. QED
    BY <2>1, <2>2, <2>3, <2>4 DEF TypeInv, NoStamp
<1>3. OwnerInv /\ CallInv /\ DumpInv /\ SnapshotInv
  BY DEF OwnerInv, CallInv, CallOf, DumpInv, SnapshotInv, Idle
<1>4. ListsToCome = {}
  BY DEF ListsToCome, Idle
<1>5. BoundInv
  BY <1>1, <1>4, FS_EmptySet DEF BoundInv
<1>6. QED
  BY <1>2, <1>3, <1>5 DEF BaseInv

LEMMA BaseStep == BaseInv /\ [Next]_vars => BaseInv'
<1>. SUFFICES ASSUME BaseInv, [Next]_vars
              PROVE  BaseInv'
  OBVIOUS
<1>1. TypeInv' /\ OwnerInv' /\ CallInv' /\ DumpInv' /\ SnapshotInv'
  <2>1. ASSUME NEW p \in Process, StampStep(p)
        PROVE  TypeInv' /\ OwnerInv' /\ CallInv' /\ DumpInv' /\ SnapshotInv'
    BY <2>1, TypeStepOfStamps, CallStepOfStamps, DumpStepOfStamps, SnapshotStepOfStamps
  <2>2. ASSUME NEW p \in Process, NEW s \in Stamp, OtherStep(p, s)
        PROVE  TypeInv' /\ OwnerInv' /\ CallInv' /\ DumpInv' /\ SnapshotInv'
    BY <2>2, TypeStepOfOthers, CallStepOfOthers, DumpStepOfOthers, SnapshotStepOfOthers
  <2>3. QED
    BY <2>1, <2>2, StepCases
<1>2. BoundInv'
  BY <1>1, BoundStep
<1>3. QED
  BY <1>1, <1>2 DEF BaseInv

(* BaseInv holds always: the calls, the native threads and the callbacks go *)
(* together, whatever fails and whoever dies.                               *)
THEOREM BaseInvariance == Spec => []BaseInv
BY BaseInit, BaseStep, PTL DEF Spec

(* TypeOK: a stamp is a number that was given, a list holds a hash or none, *)
(* and only who is alive is in a call (js_leak_watcher.ts:677-740).         *)
THEOREM TypeCorrect == Spec => []TypeOK
<1>1. BaseInv => TypeOK
  <2>. SUFFICES ASSUME BaseInv
                PROVE  TypeOK
    OBVIOUS
  <2>1. /\ clock \in 1..(2 * MaxDumps + 1)
        /\ DOMAIN owner = 1..(clock - 1) /\ Range(owner) \subseteq Process
    BY DEF BaseInv, TypeInv, Range
  <2>2. ASSUME NEW n \in Names
        PROVE  /\ n.stamp \in DOMAIN owner
               /\ IF n.kind = "jsleaklist"
                  THEN files[n] \in {NoHash, Unwritten} \cup {Hashed(parts) : parts \in SUBSET Parts}
                  ELSE files[n] \subseteq Parts
    <3>1. n \in File /\ n.stamp < clock /\ files[n] \in Contents(n)
      BY DEF BaseInv, TypeInv, IsDirectory
    <3>2. n.stamp \in Stamp
      BY <3>1, FileNames
    <3>3. n.stamp \in DOMAIN owner
      BY <2>1, <3>1, <3>2, BoundAssumption DEF Stamp
    <3>4. QED
      BY <3>1, <3>3 DEF Contents
  <2>3. curTimeStamp \in [Process -> Stamp \cup {NoStamp}]
    <3>1. 0..(clock - 1) \subseteq Stamp \cup {NoStamp}
      BY <2>1, BoundAssumption DEF Stamp, NoStamp
    <3>2. QED
      BY <3>1 DEF BaseInv, TypeInv
  <2>4. overlap \subseteq DOMAIN owner
    BY <2>1 DEF BaseInv, TypeInv
  <2>5. \A p \in Process : pc[p] # "idle" => alive[p] /\ work[p].kind # "none"
    BY DEF BaseInv, CallInv, CallOf
  <2>6. QED
    BY <2>1, <2>2, <2>3, <2>4, <2>5 DEF BaseInv, TypeInv, TypeOK
<1>2. QED
  BY <1>1, BaseInvariance, PTL

(* OthersKept: what precedes a dump deletes no listed dump of another       *)
(* process; only deleteOldFile does (js_leak_watcher.ts:437-512).           *)
THEOREM OthersAreKept == Spec => OthersKept
<1>. DEFINE Kept ==
         \A n \in Names \ DOMAIN files' :
             LeakList(n.stamp) \in Names =>
                 \/ \E p \in Process : pc[p] = "unlink"
                 \/ curTimeStamp'[owner[n.stamp]] # curTimeStamp[owner[n.stamp]]
<1>1. ASSUME BaseInv, [Next]_vars
      PROVE  Kept
  <2>1. ASSUME NEW p \in Process, StampStep(p),
               NEW n \in Names \ DOMAIN files', LeakList(n.stamp) \in Names
        PROVE  curTimeStamp'[owner[n.stamp]] # curTimeStamp[owner[n.stamp]]
    <3>1. DOMAIN CleanUp(p) \subseteq DOMAIN files'
      <4>. HIDE DEF Kept
      <4>1. \/ files' = CleanUp(p)
            \/ files' = With(CleanUp(p), RawHeap(clock), {})
            \/ files' = With(CleanUp(p), LeakList(clock), NoHash)
            \/ files' = With(CleanUp(p), HeapSnapshot(clock), {"heap"})
        BY <2>1, Zenon DEF DumpRawHeap, DumpListOnly, DumpSync, WriteListOnly, MakeListOnly
      <4>2. \/ DOMAIN files' = DOMAIN CleanUp(p)
            \/ DOMAIN files' = DOMAIN CleanUp(p) \cup {RawHeap(clock)}
            \/ DOMAIN files' = DOMAIN CleanUp(p) \cup {LeakList(clock)}
            \/ DOMAIN files' = DOMAIN CleanUp(p) \cup {HeapSnapshot(clock)}
        BY <4>1 DEF With
      <4>3. QED
        BY <4>2
    <3>2. owner[n.stamp] = p
      BY <1>1, <2>1, <3>1, CleanUpProperties DEF BaseInv
    <3>3. curTimeStamp'[p] = clock /\ curTimeStamp[p] < clock /\ curTimeStamp[p] \in Nat
      BY <1>1, <2>1, StampStepEffects, NewStampFacts, ClockFacts DEF BaseInv
    <3>4. QED
      BY <3>2, <3>3
  <2>2. ASSUME NEW p \in Process, NEW s \in Stamp, OtherStep(p, s)
        PROVE  (\E q \in Process : pc[q] = "unlink") \/ Names \subseteq DOMAIN files'
    BY <2>2 DEF DumpRefused, TakeCallback, WriteList, ListOldFiles, Unlink, Report, Crash,
       NativeStep, WriteHeap, QueueCallback, AppendMetaData, vars, HashAndList, With
  <2>3. QED
    BY <1>1, <2>1, <2>2, StepCases
<1>2. QED
  BY <1>1, BaseInvariance, PTL DEF Spec, OthersKept

(* Each list of the only process is that of its last stamp.                *)
OneInv ==
    Cardinality(Process) = 1 =>
        \A p \in Process : \A n \in Names : n.kind = "jsleaklist" => n.stamp = curTimeStamp[p]

LEMMA OneStep == BaseInv /\ OneInv /\ [Next]_vars => OneInv'
<1>. SUFFICES ASSUME BaseInv, OneInv, [Next]_vars, Cardinality(Process) = 1
              PROVE  OneInv'
  BY DEF OneInv
<1>. USE DEF BaseInv
<1>1. PICK p : Process = {p}
  BY ProcessAssumption, FS_Singleton
<1>2. \A n \in Names : n.kind = "jsleaklist" => n.stamp = curTimeStamp[p]
  BY <1>1 DEF OneInv
<1>3. \A n \in Names : n \in File /\ n.stamp \in Nat \ {0}
  BY FileNames, BoundAssumption DEF TypeInv, IsDirectory, Stamp
<1>4. ASSUME StampStep(p),
             NEW n \in DOMAIN files', n.kind = "jsleaklist"
      PROVE  n.stamp = curTimeStamp'[p]
  <2>1. n \notin DOMAIN CleanUp(p)
    <3>1. CASE firstDump[p]
      <4>1. curTimeStamp[p] = 0
        BY <1>1, <3>1 DEF OwnerInv, NoStamp
      <4>2. \A m \in Names : m.kind # "jsleaklist"
        BY <1>2, <1>3, <4>1
      <4>3. QED
        BY <1>1, <1>4, <4>2, CleanUpProperties
    <3>2. CASE ~ firstDump[p]
      <4>1. \A m \in Names : m.kind = "jsleaklist" =>
                m.stamp = curTimeStamp[p] /\ owner[m.stamp] = p
        BY <1>1, <1>2, <3>2 DEF OwnerInv
      <4>2. QED
        BY <1>1, <1>4, <3>2, <4>1, CleanUpProperties
    <3>3. QED
      BY <3>1, <3>2
  <2>2. n.stamp = clock
    BY <1>1, <1>4, <2>1, StampStepEffects, FileNames DEF With
  <2>3. QED
    BY <1>1, <1>4, <2>2, StampStepEffects, NewStampFacts
<1>5. ASSUME NEW s \in Stamp, OtherStep(p, s),
             NEW n \in DOMAIN files', n.kind = "jsleaklist"
      PROVE  n.stamp = curTimeStamp'[p]
  <2>1. curTimeStamp' = curTimeStamp
    BY <1>1, <1>5, OtherStepFrame
  <2>2. n \in Names \/ n = LeakList(curTimeStamp[p]) \/ n = RawHeap(s)
    BY <1>5 DEF DumpRefused, TakeCallback, WriteList, ListOldFiles, Unlink, Report, Crash,
       NativeStep, WriteHeap, QueueCallback, AppendMetaData, vars, HashAndList,
       With, Without, Restrict
  <2>3. QED
    BY <1>2, <1>5, <2>1, <2>2, FileNames
<1>6. QED
  BY <1>1, <1>4, <1>5, StepCases DEF OneInv

(* OneDumpKept: a process that has the directory to itself keeps one dump   *)
(* (deleteLastOldFile, js_leak_watcher.ts:437-479).                         *)
THEOREM OneDumpIsKept == Spec => []OneDumpKept
<1>1. Init => OneInv
  BY DEF Init, OneInv
<1>2. BaseInv /\ OneInv => OneDumpKept
  <2>. SUFFICES ASSUME BaseInv, OneInv, Cardinality(Process) = 1
                PROVE  Cardinality({n \in Names : n.kind = "jsleaklist"}) <= 1
    BY DEF OneDumpKept
  <2>1. PICK p : p \in Process
    BY ProcessAssumption
  <2>2. ASSUME NEW n \in Names, n.kind = "jsleaklist"
        PROVE  n = LeakList(curTimeStamp[p])
    BY <2>1, <2>2, FileNames DEF OneInv, BaseInv, TypeInv, IsDirectory, LeakList
  <2>3. {n \in Names : n.kind = "jsleaklist"} \in SUBSET {LeakList(curTimeStamp[p])}
    BY <2>2
  <2>4. /\ IsFiniteSet({LeakList(curTimeStamp[p])})
        /\ Cardinality({LeakList(curTimeStamp[p])}) = 1
    BY FS_Singleton
  <2>5. QED
    BY <2>3, <2>4, FS_Subset
<1>3. QED
  BY <1>1, <1>2, OneStep, BaseInvariance, PTL DEF Spec

=============================================================================
