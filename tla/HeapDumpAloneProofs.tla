-------------------------- MODULE HeapDumpAloneProofs --------------------------
(***************************************************************************)
(* Proofs about HeapDump: what a raw heap dump that runs alone leaves in   *)
(* the directory, however many processes use it.                           *)
(***************************************************************************)
EXTENDS HeapDumpProofs, SequenceLemmas

USE DEF Names

-----------------------------------------------------------------------------
(* What the steps change that give no stamp.                               *)

LEMMA ThreadChanges ==
    ASSUME BaseInv, NEW p \in Process, NEW s \in Stamp, OtherStep(p, s),
           NEW q \in Process, pc'[q] # pc[q] \/ work'[q] # work[q]
    PROVE  /\ q = p
           /\ \/ /\ TakeCallback(p, s) /\ pc[p] = "idle" /\ pc'[p] = "list"
                 /\ callback[s] = "queued" /\ owner[s] = p
                 /\ work'[p] = [kind |-> "async", stamp |-> s]
              \/ WriteList(p) /\ pc[p] = "list" /\ pc'[p] = "trim" /\ work'[p] = work[p]
              \/ ListOldFiles(p) /\ pc[p] = "trim" /\ pc'[p] = "unlink" /\ work'[p] = work[p]
              \/ /\ WriteList(p) \/ Unlink(p) \/ Report(p) \/ Crash(p)
                 /\ pc'[p] = "idle" /\ work'[p] = Idle
<1>0. DOMAIN pc = Process /\ DOMAIN work = Process
  BY DEF BaseInv, TypeInv
<1>1. CASE DumpRefused(p) \/ UNCHANGED vars
  BY <1>1 DEF DumpRefused, vars, jsThread
<1>2. CASE TakeCallback(p, s)
  BY <1>0, <1>2 DEF TakeCallback, Enter, Running
<1>3. CASE WriteList(p)
  <2>1. /\ pc[p] = "list"
        /\ (pc' = [pc EXCEPT ![p] = "trim"] /\ work' = work) \/ GiveUp(p)
    BY <1>3 DEF WriteList, HashAndList
  <2>2. QED
    BY <1>0, <1>3, <2>1 DEF GiveUp, Enter, Idle
<1>4. CASE ListOldFiles(p)
  BY <1>0, <1>4 DEF ListOldFiles
<1>5. CASE Unlink(p)
  <2>1. (pc' = pc /\ work' = work) \/ GiveUp(p)
    BY <1>5 DEF Unlink
  <2>2. QED
    BY <1>0, <1>5, <2>1 DEF GiveUp, Enter, Idle
<1>6. CASE Report(p)
  BY <1>0, <1>6 DEF Report, Enter, Idle
<1>7. CASE Crash(p)
  BY <1>0, <1>7 DEF Crash, Enter, Idle
<1>8. CASE NativeStep(s)
  BY <1>8 DEF NativeStep, WriteHeap, QueueCallback, AppendMetaData, jsThread
<1>9. QED
  BY <1>1, <1>2, <1>3, <1>4, <1>5, <1>6, <1>7, <1>8 DEF OtherStep

(* Only deleteOldFile unlinks, one of its victims.                          *)
LEMMA FilesGone ==
    ASSUME BaseInv, NEW p \in Process, NEW s \in Stamp, OtherStep(p, s),
           NEW n \in Names, n \notin DOMAIN files'
    PROVE  /\ Unlink(p) /\ pc[p] = "unlink" /\ n \in victims[p]
           /\ \A m \in victims[p] : n.stamp <= m.stamp
           /\ DOMAIN files' = Names \ {n} /\ victims'[p] = victims[p] \ {n} /\ pc' = pc
<1>1. ASSUME ~ Unlink(p)
      PROVE  Names \subseteq DOMAIN files'
  BY <1>1 DEF OtherStep, DumpRefused, TakeCallback, WriteList, ListOldFiles, Report, Crash,
     NativeStep, WriteHeap, QueueCallback, AppendMetaData, vars, HashAndList, With, Names
<1>2. CASE Unlink(p)
  <2>1. PICK v \in victims[p] :
            /\ pc[p] = "unlink" /\ \A m \in victims[p] : v.stamp <= m.stamp
            /\ \/ /\ files' = Without(files, {v}) /\ pc' = pc
                  /\ victims' = [victims EXCEPT ![p] = @ \ {v}]
               \/ files' = files
    BY <1>2 DEF Unlink
  <2>2. /\ DOMAIN files' = Names \ {v} /\ pc' = pc
        /\ victims' = [victims EXCEPT ![p] = @ \ {v}]
    BY <2>1, WithoutProperties DEF Names
  <2>3. n = v /\ DOMAIN victims = Process
    BY <2>2 DEF BaseInv, TypeInv
  <2>4. QED
    BY <1>2, <2>1, <2>2, <2>3
<1>3. QED
  BY <1>1, <1>2

(* What is written into a file, and by whom.                                *)
LEMMA FilesWritten ==
    ASSUME BaseInv, NEW p \in Process, NEW s \in Stamp, OtherStep(p, s),
           NEW n \in DOMAIN files', n \notin Names \/ files'[n] # files[n]
    PROVE  \/ WriteHeap(s) /\ n = RawHeap(s) /\ n \in Names /\ files'[n] = {"heap"}
           \/ /\ AppendMetaData(s) /\ n = RawHeap(s) /\ native[s] = "append"
              /\ n \in Names => files'[n] = files[n] \cup {"meta"}
           \/ /\ WriteList(p) /\ pc[p] = "list" /\ n = LeakList(curTimeStamp[p])
              /\ \/ /\ pc'[p] = "trim"
                    /\ \E data \in Names :
                         /\ data = IF work[p].kind = "sync" THEN HeapSnapshot(curTimeStamp[p])
                                   ELSE RawHeap(curTimeStamp[p])
                         /\ files'[n] = Hashed(files[data])
                 \/ /\ n \notin Names /\ pc'[p] = "idle"
                    /\ (IF work[p].kind = "sync" THEN HeapSnapshot(curTimeStamp[p])
                        ELSE RawHeap(curTimeStamp[p])) \notin Names
<1>1. CASE DumpRefused(p) \/ TakeCallback(p, s) \/ ListOldFiles(p) \/ Report(p) \/ Crash(p)
           \/ QueueCallback(s) \/ UNCHANGED vars
  BY <1>1 DEF DumpRefused, TakeCallback, ListOldFiles, Report, Crash, QueueCallback, vars, Names
<1>2. CASE Unlink(p)
  BY <1>2 DEF Unlink, Without, Restrict, Names
<1>3. CASE WriteHeap(s)
  <2>1. files' = files \/ (RawHeap(s) \in Names /\ files' = With(files, RawHeap(s), {"heap"}))
    BY <1>3 DEF WriteHeap
  <2>2. QED
    BY <1>3, <2>1 DEF With, Names
<1>4. CASE AppendMetaData(s)
  <2>. DEFINE opened == IF RawHeap(s) \in Names THEN files ELSE With(files, RawHeap(s), {})
  <2>1. /\ native[s] = "append"
        /\ \/ files' = With(opened, RawHeap(s), opened[RawHeap(s)] \cup {"meta"})
           \/ files' = opened
    BY <1>4, Zenon DEF AppendMetaData
  <2>2. /\ DOMAIN opened = Names \cup {RawHeap(s)}
        /\ \A m \in Names : opened[m] = files[m]
    BY DEF With, Names
  <2>. HIDE DEF opened
  <2>3. /\ DOMAIN files' = Names \cup {RawHeap(s)}
        /\ \A m \in Names \ {RawHeap(s)} : files'[m] = files[m]
        /\ RawHeap(s) \in Names => files'[RawHeap(s)] \in
              {files[RawHeap(s)], files[RawHeap(s)] \cup {"meta"}}
    BY <2>1, <2>2 DEF With
  <2>4. QED
    BY <1>4, <2>1, <2>3
<1>5. CASE WriteList(p)
  <2>. DEFINE data == IF work[p].kind = "sync" THEN HeapSnapshot(curTimeStamp[p])
                      ELSE RawHeap(curTimeStamp[p])
              list == LeakList(curTimeStamp[p])
  <2>1. pc[p] = "list" /\ HashAndList(p, data)
    BY <1>5 DEF WriteList
  <2>. HIDE DEF data
  <2>2. \/ /\ data \in Names /\ files' = With(files, list, Hashed(files[data]))
           /\ pc' = [pc EXCEPT ![p] = "trim"]
        \/ /\ data \notin Names /\ GiveUp(p)
           /\ files' = IF list \in Names THEN files ELSE With(files, list, Unwritten)
    BY <2>1, Zenon DEF HashAndList
  <2>. HIDE DEF list
  <2>3. DOMAIN pc = Process
    BY DEF BaseInv, TypeInv
  <2>4. CASE data \in Names
    <3>1. n = list /\ files'[n] = Hashed(files[data]) /\ pc'[p] = "trim"
      BY <2>2, <2>3, <2>4 DEF With, Names
    <3>2. QED
      BY <1>5, <2>1, <2>4, <3>1 DEF data, list
  <2>5. CASE data \notin Names
    <3>1. n = list /\ n \notin Names /\ pc'[p] = "idle"
      BY <2>2, <2>3, <2>5 DEF With, Names, GiveUp, Enter
    <3>2. QED
      BY <1>5, <2>1, <2>5, <3>1 DEF data, list
  <2>6. QED
    BY <2>4, <2>5
<1>6. QED
  BY <1>1, <1>2, <1>3, <1>4, <1>5 DEF OtherStep, NativeStep

-----------------------------------------------------------------------------
(* What overlaps.                                                          *)

(* The dump s is under way.                                                *)
Active(s) ==
    \/ native[s] \notin {"none", "done"} \/ callback[s] \in Pending
    \/ \E q \in Process : pc[q] # "idle" /\ curTimeStamp[q] = s

(* A dump that overlaps no other is the only one under way, and the last    *)
(* that got a stamp; a dump is overtaken by its own process only if both    *)
(* overlap.                                                                 *)
AloneInv ==
    /\ \A s, t \in DOMAIN owner :
          Active(s) /\ Active(t) /\ s \notin overlap => s = clock - 1 /\ t = s
    /\ \A s \in DOMAIN owner :
          callback[s] \in Pending /\ curTimeStamp[owner[s]] # s =>
              s \in overlap /\ curTimeStamp[owner[s]] \in overlap

LEMMA StampStepFrame ==
    ASSUME BaseInv, NEW p \in Process, StampStep(p)
    PROVE  /\ clock \in Stamp /\ clock \in Nat /\ clock' = clock + 1
           /\ DOMAIN owner' = DOMAIN owner \cup {clock} /\ clock \notin DOMAIN owner
           /\ owner'[clock] = p /\ \A t \in DOMAIN owner : owner'[t] = owner[t]
           /\ curTimeStamp'[p] = clock
           /\ \A q \in Process : q # p => curTimeStamp'[q] = curTimeStamp[q]
           /\ overlap \subseteq overlap'
           /\ UnderWay(p) # {} => UnderWay(p) \subseteq overlap' /\ clock \in overlap'
           /\ \A s \in DOMAIN owner' : s # clock =>
                  /\ s \in DOMAIN owner /\ s \in Stamp
                  /\ native'[s] = native[s] /\ callback'[s] = callback[s]
<1>1. NewStamp(p) /\ clock <= 2 * MaxDumps
  BY StampStepEffects
<1>2. /\ clock \in Stamp /\ clock' = clock + 1
      /\ DOMAIN owner' = DOMAIN owner \cup {clock} /\ clock \notin DOMAIN owner
      /\ owner'[clock] = p /\ \A t \in DOMAIN owner : owner'[t] = owner[t]
      /\ curTimeStamp'[p] = clock
      /\ \A q \in Process : q # p => curTimeStamp'[q] = curTimeStamp[q]
  BY <1>1, NewStampFacts DEF BaseInv
<1>3. /\ overlap \subseteq overlap'
      /\ UnderWay(p) # {} => UnderWay(p) \subseteq overlap' /\ clock \in overlap'
  BY <1>1 DEF NewStamp
<1>4. ASSUME NEW s \in DOMAIN owner', s # clock
      PROVE  /\ s \in DOMAIN owner /\ s \in Stamp
             /\ native'[s] = native[s] /\ callback'[s] = callback[s]
  <2>1. s \in DOMAIN owner /\ s \in Stamp
    BY <1>2, <1>4, ClockFacts DEF BaseInv
  <2>2. QED
    BY <1>4, <2>1, StampStepEffects
<1>5. clock \in Nat
  BY ClockFacts DEF BaseInv
<1>6. QED
  BY <1>2, <1>3, <1>4, <1>5

LEMMA StampStepOverlaps ==
    ASSUME BaseInv, NEW p \in Process, StampStep(p),
           NEW t \in DOMAIN owner', t # clock, Active(t)'
    PROVE  t \in DOMAIN owner /\ t \in overlap' /\ clock \in overlap'
<1>. USE DEF BaseInv
<1>1. t \in DOMAIN owner /\ native'[t] = native[t] /\ callback'[t] = callback[t]
  BY StampStepFrame
<1>2. ASSUME NEW q \in Process, pc'[q] # "idle", curTimeStamp'[q] = t
      PROVE  q # p /\ pc[q] # "idle" /\ curTimeStamp[q] = t
  BY <1>2, StampStepFrame, StampStepEffects
<1>3. t \in UnderWay(p)
  BY <1>1, <1>2 DEF UnderWay, Active
<1>4. QED
  BY <1>1, <1>3, StampStepFrame

LEMMA ActiveBefore ==
    ASSUME BaseInv, NEW p \in Process, NEW s \in Stamp, OtherStep(p, s),
           NEW t \in DOMAIN owner, Active(t)'
    PROVE  Active(t) \/ (TakeCallback(p, s) /\ callback[s] = "queued" /\ owner[s] = p
                         /\ t = curTimeStamp[p])
<1>1. curTimeStamp' = curTimeStamp /\ t \in Stamp
  BY OtherStepFrame, ClockFacts DEF BaseInv
<1>2. CASE native'[t] \notin {"none", "done"}
  <2>1. native[t] \notin {"none", "done"}
    BY <1>1, <1>2, NativeChanges
  <2>2. QED
    BY <2>1 DEF Active
<1>3. CASE callback'[t] \in Pending
  <2>1. callback[t] \in Pending
    BY <1>1, <1>3, CallbackChanges DEF Pending
  <2>2. QED
    BY <2>1 DEF Active
<1>4. ASSUME NEW q \in Process, pc'[q] # "idle", curTimeStamp[q] = t, pc[q] = "idle"
      PROVE  TakeCallback(p, s) /\ callback[s] = "queued" /\ owner[s] = p /\ q = p
  BY <1>4, ThreadChanges
<1>5. QED
  BY <1>1, <1>2, <1>3, <1>4 DEF Active

LEMMA AloneStep == BaseInv /\ AloneInv /\ [Next]_vars => AloneInv'
<1>. SUFFICES ASSUME BaseInv, AloneInv, [Next]_vars
              PROVE  AloneInv'
  OBVIOUS
<1>1. ASSUME NEW p \in Process, StampStep(p)
      PROVE  AloneInv'
  <2>1. /\ clock' = clock + 1 /\ curTimeStamp'[p] = clock /\ clock \in Nat
        /\ DOMAIN owner' = DOMAIN owner \cup {clock} /\ clock \notin DOMAIN owner
        /\ owner'[clock] = p /\ \A t \in DOMAIN owner : owner'[t] = owner[t]
        /\ \A q \in Process : q # p => curTimeStamp'[q] = curTimeStamp[q]
    BY <1>1, StampStepFrame
  <2>2. ASSUME NEW s \in DOMAIN owner', NEW t \in DOMAIN owner',
               Active(s)', Active(t)', s \notin overlap'
        PROVE  s = clock /\ t = clock
    BY <1>1, <2>2, StampStepOverlaps
  <2>3. ASSUME NEW s \in DOMAIN owner', callback'[s] \in Pending, curTimeStamp'[owner'[s]] # s
        PROVE  s \in overlap' /\ curTimeStamp'[owner'[s]] \in overlap'
    <3>1. s # clock /\ s \in DOMAIN owner /\ s \in Stamp /\ owner[s] \in Process
      BY <2>1, <2>3, ClockFacts DEF BaseInv
    <3>2. callback[s] \in Pending
      BY <1>1, <2>3, <3>1, StampStepEffects
    <3>3. s \in overlap' /\ clock \in overlap'
      BY <1>1, <2>3, <3>1, StampStepOverlaps DEF Active
    <3>4. CASE owner[s] = p
      BY <2>1, <3>1, <3>3, <3>4
    <3>5. CASE owner[s] # p
      <4>1. curTimeStamp'[owner'[s]] = curTimeStamp[owner[s]]
        BY <2>1, <3>1, <3>5
      <4>2. curTimeStamp[owner[s]] \in overlap
        BY <2>3, <3>1, <3>2, <4>1 DEF AloneInv
      <4>3. overlap \subseteq overlap'
        BY <1>1, StampStepFrame
      <4>4. QED
        BY <3>3, <4>1, <4>2, <4>3
    <3>6. QED
      BY <3>4, <3>5
  <2>4. clock' - 1 = clock
    BY <2>1
  <2>5. QED
    BY <2>2, <2>3, <2>4 DEF AloneInv
<1>2. ASSUME NEW p \in Process, NEW s0 \in Stamp, OtherStep(p, s0)
      PROVE  AloneInv'
  <2>1. UNCHANGED <<clock, owner, curTimeStamp, overlap>>
    BY <1>2, OtherStepFrame
  <2>2. ASSUME NEW s \in DOMAIN owner, NEW t \in DOMAIN owner,
               Active(s)', Active(t)', s \notin overlap
        PROVE  s = clock - 1 /\ t = s
    <3>1. ASSUME TakeCallback(p, s0), callback[s0] = "queued", owner[s0] = p,
                 curTimeStamp[p] # s0
          PROVE  s0 \in overlap /\ curTimeStamp[p] \in overlap /\ s0 \in DOMAIN owner /\ Active(s0)
      BY <3>1 DEF AloneInv, Active, Pending, BaseInv, DumpInv
    <3>2. ASSUME TakeCallback(p, s0), callback[s0] = "queued", owner[s0] = p,
                 curTimeStamp[p] = s0
          PROVE  Active(curTimeStamp[p])
      BY <3>2 DEF Active, Pending
    <3>3. Active(s)
      BY <1>2, <2>2, <3>1, <3>2, ActiveBefore
    <3>4. ~ (TakeCallback(p, s0) /\ callback[s0] = "queued" /\ owner[s0] = p
             /\ curTimeStamp[p] # s0)
      BY <2>2, <3>1, <3>3 DEF AloneInv
    <3>5. Active(t)
      BY <1>2, <2>2, <3>2, <3>4, ActiveBefore
    <3>6. QED
      BY <2>2, <3>3, <3>5 DEF AloneInv
  <2>3. ASSUME NEW s \in DOMAIN owner, callback'[s] \in Pending, curTimeStamp[owner[s]] # s
        PROVE  s \in overlap /\ curTimeStamp[owner[s]] \in overlap
    <3>1. s \in Stamp
      BY ClockFacts DEF BaseInv
    <3>2. callback[s] \in Pending
      BY <1>2, <2>3, <3>1, CallbackChanges DEF Pending
    <3>3. QED
      BY <2>3, <3>2 DEF AloneInv
  <2>4. QED
    BY <2>1, <2>2, <2>3 DEF AloneInv
<1>3. QED
  BY <1>1, <1>2, StepCases

(* DumpRawHeap, getJsleaklistFile and dump: once a later stamp is given,    *)
(* nobody works on the dump before unless the two overlap.                 *)
THEOREM AloneInvariance == Spec => [](BaseInv /\ AloneInv)
<1>1. Init => AloneInv
  BY DEF Init, AloneInv
<1>2. QED
  BY <1>1, AloneStep, BaseInvariance, PTL DEF Spec

(* The native thread or the callback of a raw heap dump is under way.       *)
RawDump(s) == native[s] \notin {"none", "done"} \/ callback[s] \in Pending

(* Alone, it is the last, and nobody is in a call but for its callback.     *)
LEMMA AloneFacts ==
    ASSUME BaseInv, AloneInv, NEW s \in DOMAIN owner \ overlap, RawDump(s)
    PROVE  /\ s = clock - 1 /\ curTimeStamp[owner[s]] = s /\ callback[s] # "none"
           /\ \A q \in Process : pc[q] # "idle" =>
                  /\ q = owner[s] /\ curTimeStamp[q] = s
                  /\ work[q] = [kind |-> "async", stamp |-> s] /\ callback[s] = "taken"
<1>. USE DEF BaseInv
<1>1. s \in Stamp /\ owner[s] \in Process /\ s \in DOMAIN owner
  BY ClockFacts
<1>2. s = clock - 1 /\ \A t \in DOMAIN owner : Active(t) => t = s
  BY DEF AloneInv, Active, RawDump
<1>3. callback[s] # "none"
  BY <1>1 DEF DumpInv, RawDump, Pending
<1>4. curTimeStamp[owner[s]] = s
  <2>1. /\ curTimeStamp[owner[s]] \in Nat /\ curTimeStamp[owner[s]] < clock
        /\ s <= curTimeStamp[owner[s]] /\ clock \in Nat /\ s \in Nat
    BY <1>1, ClockFacts DEF OwnerInv
  <2>2. QED
    BY <1>2, <2>1
<1>5. ASSUME NEW q \in Process, pc[q] # "idle"
      PROVE  /\ q = owner[s] /\ curTimeStamp[q] = s
             /\ work[q] = [kind |-> "async", stamp |-> s] /\ callback[s] = "taken"
  <2>1. /\ curTimeStamp[q] # NoStamp /\ curTimeStamp[q] \in Nat /\ curTimeStamp[q] < clock
        /\ work[q] \in [kind : {"none", "sync", "async", "listOnly"}, stamp : 0..(clock - 1)]
        /\ work[q].kind # "none"
    BY <1>5, ClockFacts DEF CallInv, CallOf, TypeInv
  <2>2. curTimeStamp[q] \in DOMAIN owner /\ owner[curTimeStamp[q]] = q
    BY <2>1, ClockFacts DEF OwnerInv, NoStamp
  <2>3. curTimeStamp[q] = s
    BY <1>2, <1>5, <2>2 DEF Active
  <2>4. work[q].kind = "async"
    BY <1>3, <2>1, <2>3 DEF CallInv, CallOf
  <2>5. work[q].stamp \in DOMAIN owner /\ callback[work[q].stamp] = "taken"
    BY <2>4 DEF CallInv, CallOf
  <2>6. work[q].stamp = s
    BY <1>2, <2>5 DEF Active, Pending
  <2>7. work[q] = [kind |-> "async", stamp |-> s]
    BY <2>1, <2>4, <2>6
  <2>8. QED
    BY <2>2, <2>3, <2>5, <2>6, <2>7
<1>6. QED
  BY <1>2, <1>3, <1>4, <1>5

-----------------------------------------------------------------------------
(* Its files.                                                              *)

(* It has its list.                                                        *)
Listed(s) ==
    \/ callback[s] = "answered"
    \/ \E p \in Process : pc[p] \in {"trim", "unlink"}
                          /\ work[p] = [kind |-> "async", stamp |-> s]

FilesInv ==
    \A s \in DOMAIN owner \ overlap :
        RawDump(s) =>
            /\ RawHeap(s) \in Names
            /\ Listed(s) => LeakList(s) \in Names
            /\ \A q \in Process : RawHeap(s) \notin victims[q] /\ LeakList(s) \notin victims[q]

LEMMA OneMore ==
    ASSUME NEW S, IsFiniteSet(S), NEW x
    PROVE  /\ IsFiniteSet(S \cup {x}) /\ Cardinality(S \cup {x}) \in Nat
           /\ Cardinality(S) \in Nat /\ Cardinality(S \cup {x}) <= Cardinality(S) + 1
<1>1. /\ IsFiniteSet(S \cup {x})
      /\ x \in S \/ Cardinality(S \cup {x}) = Cardinality(S) + 1
      /\ x \notin S \/ Cardinality(S \cup {x}) = Cardinality(S)
  <2>1. x \in S => S \cup {x} = S
    OBVIOUS
  <2>2. QED
    BY <2>1, FS_AddElement
<1>2. Cardinality(S) \in Nat
  BY FS_CardinalityType
<1>3. QED
  BY <1>1, <1>2

(* The two files of the newest dump are never too old: maxFileNum is two at *)
(* least.                                                                   *)
LEMMA NewestIsKept ==
    ASSUME TypeInv, NEW s \in Stamp, s = clock - 1, HeapSnapshot(s) \notin Names
    PROVE  \A n \in OldFiles(files) : n.stamp # s
<1>. DEFINE older == {m \in Names : m.stamp < s}
<1>1. \A n \in Names : n \in File /\ n.stamp \in Nat /\ n.stamp <= s
  <2>1. s \in Nat /\ clock \in Nat /\ \A t \in Stamp : t \in Nat
    BY BoundAssumption, ClockFacts DEF Stamp
  <2>2. ASSUME NEW n \in Names
        PROVE  n \in File /\ n.stamp \in Nat /\ n.stamp <= s
    <3>1. n \in File /\ n.stamp < clock /\ n.stamp \in Nat
      BY <2>1, FileNames DEF TypeInv, IsDirectory
    <3>2. QED
      BY <2>1, <3>1
  <2>3. QED
    BY <2>2
<1>2. IsFiniteSet(Names) /\ IsFiniteSet(older)
  BY <1>1, FilesAreFinite, FS_Subset
<1>3. Names \subseteq older \cup {RawHeap(s), LeakList(s)}
  <2>1. ASSUME NEW n \in Names, n.stamp = s
        PROVE  n \in {RawHeap(s), LeakList(s)}
    BY <1>1, <2>1, FileNames DEF Kinds, RawHeap, LeakList, HeapSnapshot
  <2>2. ASSUME NEW n \in Names, n.stamp # s
        PROVE  n \in older
    BY <1>1, <2>2 DEF Stamp
  <2>3. QED
    BY <2>1, <2>2
<1>. HIDE DEF older
<1>4. /\ IsFiniteSet(older \cup {RawHeap(s)})
      /\ Cardinality(older \cup {RawHeap(s)}) \in Nat /\ Cardinality(older) \in Nat
      /\ Cardinality(older \cup {RawHeap(s)}) <= Cardinality(older) + 1
  BY <1>2, OneMore
<1>5. /\ IsFiniteSet((older \cup {RawHeap(s)}) \cup {LeakList(s)})
      /\ Cardinality((older \cup {RawHeap(s)}) \cup {LeakList(s)}) \in Nat
      /\ Cardinality((older \cup {RawHeap(s)}) \cup {LeakList(s)})
            <= Cardinality(older \cup {RawHeap(s)}) + 1
  BY <1>4, OneMore
<1>6. /\ Cardinality(Names) <= Cardinality((older \cup {RawHeap(s)}) \cup {LeakList(s)})
      /\ Cardinality(Names) \in Nat
  <2>1. Names \in SUBSET ((older \cup {RawHeap(s)}) \cup {LeakList(s)})
    BY <1>3
  <2>2. QED
    BY <1>2, <1>5, <2>1, FS_Subset, FS_CardinalityType
<1>7. ~ (Cardinality(older) < Cardinality(Names) - MaxFileNum)
  BY <1>4, <1>5, <1>6, MaxFileNumAssumption
<1>8. ASSUME NEW n \in OldFiles(files), n.stamp = s
      PROVE  FALSE
  <2>1. Cardinality({m \in DOMAIN files : m.stamp < n.stamp})
            < Cardinality(DOMAIN files) - MaxFileNum
    BY Zenon DEF OldFiles
  <2>2. {m \in DOMAIN files : m.stamp < n.stamp} = older
    BY <1>8 DEF older, Names
  <2>3. QED
    BY <1>7, <2>1, <2>2 DEF Names
<1>9. QED
  BY <1>8

(* What a step that gives a stamp does to the files of the others.          *)
LEMMA StampStepFiles ==
    ASSUME BaseInv, NEW p \in Process, StampStep(p)
    PROVE  /\ DOMAIN CleanUp(p) \subseteq DOMAIN files'
           /\ \A n \in DOMAIN files' : n.stamp # clock =>
                  n \in DOMAIN CleanUp(p) /\ n \in Names /\ files'[n] = files[n]
           /\ \A n \in DOMAIN CleanUp(p) : n \in Names /\ n.stamp < clock /\ n.stamp # clock
<1>1. PICK name, content :
          /\ name.stamp = clock
          /\ files' \in {CleanUp(p), With(CleanUp(p), name, content)}
  BY StampStepEffects, FileNames
<1>2. /\ DOMAIN CleanUp(p) \subseteq Names
      /\ \A n \in DOMAIN CleanUp(p) : CleanUp(p)[n] = files[n]
  BY CleanUpProperties DEF BaseInv
<1>3. ASSUME NEW n \in Names
      PROVE  n.stamp < clock /\ n.stamp # clock
  BY <1>3, ClockFacts, FileNames DEF BaseInv, TypeInv, IsDirectory, Stamp
<1>4. /\ DOMAIN CleanUp(p) \subseteq DOMAIN files'
      /\ DOMAIN files' \subseteq DOMAIN CleanUp(p) \cup {name}
      /\ \A n \in DOMAIN CleanUp(p) : n # name => files'[n] = CleanUp(p)[n]
  BY <1>1 DEF With
<1>5. QED
  BY <1>1, <1>2, <1>3, <1>4

LEMMA FilesStep == BaseInv /\ AloneInv /\ FilesInv /\ [Next]_vars => FilesInv'
<1>. SUFFICES ASSUME BaseInv, AloneInv, FilesInv, [Next]_vars
              PROVE  FilesInv'
  OBVIOUS
<1>1. ASSUME NEW p \in Process, StampStep(p),
             NEW s \in DOMAIN owner' \ overlap', RawDump(s)'
      PROVE  /\ RawHeap(s) \in DOMAIN files' /\ ~ Listed(s)'
             /\ \A q \in Process : RawHeap(s) \notin victims'[q] /\ LeakList(s) \notin victims'[q]
  <2>1. s = clock
    <3>1. Active(s)'
      BY <1>1 DEF RawDump, Active
    <3>2. QED
      BY <1>1, <3>1, StampStepOverlaps
  <2>2. /\ callback'[s] = "waiting" /\ UNCHANGED <<victims, work>>
        /\ files' = With(CleanUp(p), RawHeap(s), {})
    BY <1>1, <2>1, StampStepEffects DEF RawDump, Pending
  <2>3. RawHeap(s) \in DOMAIN files'
    BY <2>2 DEF With
  <2>4. clock \in Nat
    BY ClockFacts DEF BaseInv
  <2>5. ASSUME NEW q \in Process
        PROVE  RawHeap(s) \notin victims'[q] /\ LeakList(s) \notin victims'[q]
    <3>1. \A n \in victims[q] : n.stamp < clock
      BY DEF BaseInv, SnapshotInv
    <3>2. QED
      BY <2>1, <2>2, <2>4, <3>1, FileNames
  <2>6. ASSUME NEW q \in Process, work'[q] = [kind |-> "async", stamp |-> s]
        PROVE  FALSE
    <3>1. work[q].stamp \in 0..(clock - 1)
      BY DEF BaseInv, TypeInv
    <3>2. QED
      BY <2>1, <2>2, <2>4, <2>6, <3>1
  <2>7. QED
    BY <2>2, <2>3, <2>5, <2>6 DEF Listed
<1>2. ASSUME NEW p \in Process, NEW s0 \in Stamp, OtherStep(p, s0),
             NEW s \in DOMAIN owner \ overlap, RawDump(s)'
      PROVE  /\ RawHeap(s) \in DOMAIN files'
             /\ Listed(s)' => LeakList(s) \in DOMAIN files'
             /\ \A q \in Process : RawHeap(s) \notin victims'[q] /\ LeakList(s) \notin victims'[q]
  <2>1. s \in DOMAIN owner /\ s \in Stamp /\ RawDump(s)
    <3>1. s \in Stamp
      BY ClockFacts DEF BaseInv
    <3>2. CASE native'[s] \notin {"none", "done"}
      BY <1>2, <3>1, <3>2, NativeChanges DEF RawDump
    <3>3. CASE callback'[s] \in Pending
      BY <1>2, <3>1, <3>3, CallbackChanges DEF RawDump, Pending
    <3>4. QED
      BY <1>2, <3>1, <3>2, <3>3 DEF RawDump
  <2>2. /\ RawHeap(s) \in Names
        /\ Listed(s) => LeakList(s) \in Names
        /\ \A q \in Process : RawHeap(s) \notin victims[q] /\ LeakList(s) \notin victims[q]
    BY <2>1 DEF FilesInv
  <2>3. /\ s = clock - 1 /\ callback[s] # "none"
        /\ \A q \in Process : pc[q] # "idle" =>
               /\ q = owner[s] /\ curTimeStamp[q] = s
               /\ work[q] = [kind |-> "async", stamp |-> s] /\ callback[s] = "taken"
    BY <2>1, AloneFacts
  <2>4. RawHeap(s) \in DOMAIN files'
    BY <1>2, <2>2, FilesGone
  <2>5. LeakList(s) \in Names => LeakList(s) \in DOMAIN files'
    BY <1>2, <2>2, FilesGone
  <2>6. ASSUME Listed(s)', ~ Listed(s)
        PROVE  LeakList(s) \in DOMAIN files'
    <3>1. ASSUME callback'[s] = "answered"
          PROVE  FALSE
      <4>1. Report(p) /\ work[p].kind = "async" /\ work[p].stamp = s
        BY <1>2, <2>1, <2>6, <3>1, CallbackChanges DEF Listed, Pending
      <4>2. pc[p] = "unlink"
        BY <4>1 DEF Report
      <4>3. QED
        BY <2>3, <2>6, <4>2 DEF Listed
    <3>2. PICK q \in Process : /\ pc'[q] \in {"trim", "unlink"}
                               /\ work'[q] = [kind |-> "async", stamp |-> s]
      BY <2>6, <3>1 DEF Listed
    <3>3. ~ (pc[q] \in {"trim", "unlink"} /\ work[q] = [kind |-> "async", stamp |-> s])
      BY <2>6 DEF Listed
    <3>4. q = p /\ WriteList(p) /\ pc[p] = "list" /\ pc'[p] = "trim"
      BY <1>2, <3>2, <3>3, ThreadChanges
    <3>5. curTimeStamp[p] = s
      BY <2>3, <3>4
    <3>6. files' = With(files, LeakList(s), Hashed(files[RawHeap(s)]))
          \/ files' = With(files, LeakList(s), Hashed(files[HeapSnapshot(s)]))
      <4>1. ~ GiveUp(p)
        <5>1. DOMAIN pc = Process
          BY DEF BaseInv, TypeInv
        <5>2. QED
          BY <3>4, <5>1 DEF GiveUp, Enter
      <4>2. QED
        BY <3>4, <3>5, <4>1 DEF WriteList, HashAndList
    <3>7. QED
      BY <3>6 DEF With
  <2>7. ASSUME NEW q \in Process
        PROVE  RawHeap(s) \notin victims'[q] /\ LeakList(s) \notin victims'[q]
    <3>1. DOMAIN victims = Process
      BY DEF BaseInv, TypeInv
    <3>2. CASE ListOldFiles(p)
      <4>1. HeapSnapshot(s) \notin Names
        BY <2>3, FileNames DEF BaseInv, SnapshotInv
      <4>2. \A n \in OldFiles(files) : n.stamp # s
        BY <2>1, <2>3, <4>1, NewestIsKept DEF BaseInv
      <4>3. RawHeap(s) \notin OldFiles(files) /\ LeakList(s) \notin OldFiles(files)
        BY <4>2, FileNames
      <4>4. victims' = [victims EXCEPT ![p] = OldFiles(files)]
        BY <3>2 DEF ListOldFiles
      <4>5. QED
        BY <2>2, <3>1, <4>3, <4>4
    <3>3. CASE ~ ListOldFiles(p)
      <4>1. victims'[q] \subseteq victims[q]
        BY <1>2, <3>1, <3>3 DEF OtherStep, DumpRefused, TakeCallback, WriteList, Unlink, Report,
           Crash, NativeStep, WriteHeap, QueueCallback, AppendMetaData, vars, jsThread
      <4>2. QED
        BY <2>2, <4>1
    <3>4. QED
      BY <3>2, <3>3
  <2>8. QED
    BY <2>2, <2>4, <2>5, <2>6, <2>7
<1>3. ASSUME NEW p \in Process, NEW s0 \in Stamp, OtherStep(p, s0)
      PROVE  owner' = owner /\ overlap' = overlap
  BY <1>3, OtherStepFrame
<1>4. QED
  BY <1>1, <1>2, <1>3, StepCases DEF FilesInv

LEMMA FilesInvariance == Spec => [](BaseInv /\ AloneInv /\ FilesInv)
<1>1. Init => FilesInv
  BY DEF Init, FilesInv
<1>2. QED
  BY <1>1, FilesStep, AloneInvariance, PTL DEF Spec

(* ReportedFilesExist: the callback is given the names of two files that    *)
(* exist, unless dumps overlap (js_leak_watcher.ts:233-248).                *)
THEOREM ReportedFilesAreThere == Spec => ReportedFilesExist
<1>. DEFINE Exist ==
         \A p \in Process :
             (Report(p) /\ curTimeStamp[p] \notin overlap /\ work[p].kind = "async")
                 => RawHeap(curTimeStamp[p]) \in Names /\ LeakList(curTimeStamp[p]) \in Names
<1>1. BaseInv /\ AloneInv /\ FilesInv => Exist
  <2>. SUFFICES ASSUME BaseInv, AloneInv, FilesInv, NEW p \in Process, Report(p),
                       curTimeStamp[p] \notin overlap, work[p].kind = "async"
                PROVE  RawHeap(curTimeStamp[p]) \in Names /\ LeakList(curTimeStamp[p]) \in Names
    OBVIOUS
  <2>. DEFINE s == work[p].stamp
  <2>1. /\ s \in DOMAIN owner /\ owner[s] = p /\ callback[s] = "taken"
        /\ work[p] = [kind |-> "async", stamp |-> s]
    <3>1. work[p] \in [kind : {"none", "sync", "async", "listOnly"}, stamp : 0..(clock - 1)]
      BY DEF BaseInv, TypeInv
    <3>2. QED
      BY <3>1 DEF BaseInv, CallInv, CallOf
  <2>2. curTimeStamp[p] = s
    BY <2>1 DEF AloneInv, Pending
  <2>3. RawDump(s) /\ Listed(s)
    BY <2>1 DEF RawDump, Listed, Pending, Report
  <2>. HIDE DEF s
  <2>4. QED
    BY <2>1, <2>2, <2>3 DEF FilesInv
<1>2. QED
  BY <1>1, FilesInvariance, PTL DEF ReportedFilesExist

-----------------------------------------------------------------------------
(* Its hash.                                                               *)

CoversHeap(content) ==
    \E parts \in SUBSET Parts : "heap" \in parts /\ content = Hashed(parts)

(* The heap is in its file before the callback is queued, and in every hash *)
(* that a list of it has.                                                   *)
HeapInv ==
    \A s \in DOMAIN owner \ overlap :
        /\ callback[s] \in Pending /\ native[s] # "dumping" => "heap" \in files[RawHeap(s)]
        /\ callback[s] \in Pending \cup {"answered"} /\ LeakList(s) \in Names =>
               CoversHeap(files[LeakList(s)])

LEMMA HeapStep ==
    ASSUME "dump" \notin Faults, BaseInv, AloneInv, FilesInv, HeapInv, [Next]_vars
    PROVE  HeapInv'
<1>1. ASSUME NEW p \in Process, StampStep(p)
      PROVE  HeapInv'
  <2>1. /\ overlap \subseteq overlap' /\ DOMAIN owner' = DOMAIN owner \cup {clock}
    BY <1>1, StampStepFrame
  <2>2. ASSUME NEW s \in DOMAIN owner' \ overlap', s # clock
        PROVE  /\ callback'[s] \notin Pending
               /\ callback'[s] = "answered" /\ LeakList(s) \in DOMAIN files' =>
                      CoversHeap(files'[LeakList(s)])
    <3>1. s \in DOMAIN owner \ overlap /\ s \in Stamp
      BY <2>1, <2>2, ClockFacts DEF BaseInv
    <3>2. ~ Active(s)'
      BY <1>1, <2>2, StampStepOverlaps
    <3>3. callback'[s] = callback[s]
      BY <1>1, <2>2, <3>1, StampStepEffects
    <3>4. ASSUME callback[s] = "answered", LeakList(s) \in DOMAIN files'
          PROVE  CoversHeap(files'[LeakList(s)])
      <4>1. LeakList(s) \in Names /\ files'[LeakList(s)] = files[LeakList(s)]
        BY <1>1, <2>2, <3>4, StampStepFiles, FileNames
      <4>2. CoversHeap(files[LeakList(s)])
        BY <3>1, <3>4, <4>1 DEF HeapInv
      <4>3. QED
        BY <4>1, <4>2
    <3>5. QED
      BY <3>2, <3>3, <3>4 DEF Active
  <2>3. /\ callback'[clock] \in Pending => native'[clock] = "dumping"
        /\ callback'[clock] \in Pending \cup {"answered"} => LeakList(clock) \notin DOMAIN files'
    <3>1. callback'[clock] \in {"waiting", "none", "lost"}
      BY <1>1, StampStepEffects
    <3>2. ASSUME callback'[clock] = "waiting"
          PROVE  native'[clock] = "dumping" /\ LeakList(clock) \notin DOMAIN files'
      <4>1. native'[clock] = "dumping" /\ files' = With(CleanUp(p), RawHeap(clock), {})
        BY <1>1, <3>2, StampStepEffects
      <4>2. LeakList(clock) \notin DOMAIN CleanUp(p)
        BY <1>1, StampStepFiles, FileNames
      <4>3. LeakList(clock) # RawHeap(clock)
        BY FileNames
      <4>4. QED
        BY <4>1, <4>2, <4>3 DEF With
    <3>3. QED
      BY <3>1, <3>2 DEF Pending
  <2>4. ASSUME NEW s \in DOMAIN owner' \ overlap'
        PROVE  /\ callback'[s] \in Pending /\ native'[s] # "dumping" =>
                      "heap" \in files'[RawHeap(s)]
               /\ callback'[s] \in Pending \cup {"answered"} /\ LeakList(s) \in DOMAIN files' =>
                      CoversHeap(files'[LeakList(s)])
    BY <2>2, <2>3
  <2>5. QED
    BY <2>4 DEF HeapInv, CoversHeap
<1>2. ASSUME NEW p \in Process, NEW s0 \in Stamp, OtherStep(p, s0),
             NEW s \in DOMAIN owner \ overlap
      PROVE  /\ callback'[s] \in Pending /\ native'[s] # "dumping" =>
                    "heap" \in files'[RawHeap(s)]
             /\ callback'[s] \in Pending \cup {"answered"} /\ LeakList(s) \in DOMAIN files' =>
                    CoversHeap(files'[LeakList(s)])
  <2>1. s \in DOMAIN owner /\ s \in Stamp
    BY ClockFacts DEF BaseInv
  <2>2. callback'[s] \in Pending => callback[s] \in Pending
    BY <1>2, <2>1, CallbackChanges DEF Pending
  <2>3. callback'[s] = "answered" => callback[s] \in Pending \cup {"answered"}
    BY <1>2, <2>1, CallbackChanges DEF Pending
  <2>4. ASSUME callback[s] \in Pending
        PROVE  /\ RawHeap(s) \in Names /\ RawHeap(s) \in DOMAIN files'
    <3>1. RawHeap(s) \in Names /\ \A q \in Process : RawHeap(s) \notin victims[q]
      BY <2>1, <2>4 DEF FilesInv, RawDump
    <3>2. QED
      BY <1>2, <3>1, FilesGone
  <2>5. ASSUME callback'[s] \in Pending, native'[s] # "dumping"
        PROVE  "heap" \in files'[RawHeap(s)]
    <3>1. CASE native[s] = "dumping"
      <4>1. WriteHeap(s0) /\ s = s0
        <5>1. callback'[s] # "lost"
          BY <2>5 DEF Pending
        <5>2. ~ (Crash(p) /\ owner[s] = p)
          <6>1. ASSUME Crash(p), owner[s] = p
                PROVE  callback'[s] = "lost"
            BY <2>1, <2>2, <2>5, <6>1 DEF Crash
          <6>2. QED
            BY <5>1, <6>1
        <5>3. QED
          BY <1>2, <2>1, <2>5, <3>1, <5>2, NativeChanges
      <4>2. files' = With(files, RawHeap(s), {"heap"})
        BY <2>2, <2>4, <2>5, <4>1 DEF WriteHeap
      <4>3. QED
        BY <4>2 DEF With
    <3>2. CASE native[s] # "dumping"
      <4>1. "heap" \in files[RawHeap(s)] /\ RawHeap(s) \in Names /\ RawHeap(s) \in DOMAIN files'
        BY <2>1, <2>2, <2>4, <2>5, <3>2 DEF HeapInv
      <4>2. CASE files'[RawHeap(s)] = files[RawHeap(s)]
        BY <4>1, <4>2
      <4>3. CASE files'[RawHeap(s)] # files[RawHeap(s)]
        <5>1. \/ files'[RawHeap(s)] = {"heap"}
              \/ files'[RawHeap(s)] = files[RawHeap(s)] \cup {"meta"}
              \/ RawHeap(s) = LeakList(curTimeStamp[p])
          BY <1>2, <4>1, <4>3, FilesWritten
        <5>2. RawHeap(s) # LeakList(curTimeStamp[p])
          BY FileNames
        <5>3. QED
          BY <4>1, <5>1, <5>2
      <4>4. QED
        BY <4>2, <4>3
    <3>3. QED
      BY <3>1, <3>2
  <2>6. ASSUME callback[s] \in Pending \cup {"answered"}, LeakList(s) \in DOMAIN files'
        PROVE  CoversHeap(files'[LeakList(s)])
    <3>1. CASE LeakList(s) \in Names /\ files'[LeakList(s)] = files[LeakList(s)]
      <4>1. CoversHeap(files[LeakList(s)])
        BY <2>1, <2>6, <3>1 DEF HeapInv
      <4>2. QED
        BY <3>1, <4>1
    <3>2. CASE LeakList(s) \notin Names \/ files'[LeakList(s)] # files[LeakList(s)]
      <4>. DEFINE data == IF work[p].kind = "sync" THEN HeapSnapshot(curTimeStamp[p])
                          ELSE RawHeap(curTimeStamp[p])
      <4>1. \A t : LeakList(s) # RawHeap(t) /\ (LeakList(s) = LeakList(t) => t = s)
        BY FileNames
      <4>2. /\ pc[p] = "list" /\ curTimeStamp[p] = s
            /\ data \notin Names \/ files'[LeakList(s)] = Hashed(files[data])
        BY <1>2, <2>6, <3>2, <4>1, FilesWritten
      <4>3. work[p].kind = "async"
        BY <2>6, <4>2 DEF BaseInv, CallInv, CallOf, Pending
      <4>4. /\ work[p].stamp \in DOMAIN owner /\ owner[work[p].stamp] = p
            /\ callback[work[p].stamp] = "taken"
        BY <4>3 DEF BaseInv, CallInv, CallOf
      <4>5. callback[s] = "taken"
        BY <2>1, <4>2, <4>4 DEF AloneInv, Pending
      <4>6. data = RawHeap(s) /\ RawHeap(s) \in Names
        BY <2>4, <4>2, <4>3, <4>5 DEF Pending
      <4>7. native[s] # "dumping"
        BY <2>1, <4>5 DEF BaseInv, DumpInv
      <4>8. "heap" \in files[RawHeap(s)]
        BY <2>1, <4>5, <4>7 DEF HeapInv, Pending
      <4>9. files[RawHeap(s)] \in SUBSET Parts
        BY <4>6, FileNames DEF BaseInv, TypeInv, IsDirectory, Contents
      <4>. HIDE DEF data
      <4>10. files'[LeakList(s)] = Hashed(files[RawHeap(s)])
        BY <4>2, <4>6
      <4>11. QED
        BY <4>8, <4>9, <4>10 DEF CoversHeap
    <3>3. QED
      BY <3>1, <3>2
  <2>7. QED
    BY <2>2, <2>3, <2>5, <2>6
<1>3. ASSUME NEW p \in Process, NEW s0 \in Stamp, OtherStep(p, s0)
      PROVE  owner' = owner /\ overlap' = overlap
  BY <1>3, OtherStepFrame
<1>4. ASSUME NEW p \in Process, NEW s0 \in Stamp, OtherStep(p, s0)
      PROVE  HeapInv'
  BY <1>2, <1>3, <1>4 DEF HeapInv, CoversHeap
<1>5. QED
  BY <1>1, <1>4, StepCases

(* ListCoversHeap: if the native dumps do not fail, the list of a dump that *)
(* ran alone carries a hash of at least the whole heap                      *)
(* (js_leak_watcher.ts:209-224, js_leak_watcher_napi.cpp:429-453).          *)
THEOREM ListsCoverHeaps ==
    ASSUME "dump" \notin Faults
    PROVE  Spec => []ListCoversHeap
<1>1. Init => HeapInv
  BY DEF Init, HeapInv
<1>2. BaseInv /\ AloneInv /\ FilesInv /\ HeapInv /\ [Next]_vars => HeapInv'
  BY HeapStep
<1>3. HeapInv => ListCoversHeap
  BY DEF HeapInv, ListCoversHeap, CoversHeap, Through
<1>4. QED
  BY <1>1, <1>2, <1>3, FilesInvariance, PTL DEF Spec

-----------------------------------------------------------------------------
(* Kept or deleted whole.                                                  *)

(* A raw heap dump that ran alone, and that nobody works on any more.       *)
Settled(s) ==
    /\ s \in DOMAIN owner \ overlap
    /\ native[s] \in {"none", "done"} /\ callback[s] \in {"answered", "lost"}

(* deleteOldFile takes both files of a dump or neither.                     *)
VictimPairs ==
    \A s \in Stamp :
        Settled(s) /\ RawHeap(s) \in Names /\ LeakList(s) \in Names =>
            \A q \in Process : RawHeap(s) \in victims[q] <=> LeakList(s) \in victims[q]

(* While somebody deletes files, none of them is deleted by another, unless *)
(* dumps overlap.                                                           *)
WhollyInv ==
    \A p \in Process :
        pc[p] = "unlink" /\ curTimeStamp[p] \notin overlap => victims[p] \subseteq Names

(* A list is written after all that can fail alone.                        *)
LostInv ==
    \A s \in DOMAIN owner \ overlap :
        callback[s] = "lost" /\ alive[owner[s]] => LeakList(s) \notin Names

(* q deletes n, of which m was the other file, before anything else.        *)
Finishes(q, n, m) ==
    /\ pc[q] = "unlink" /\ n \in victims[q] /\ m \notin victims[q]
    /\ \A k \in victims[q] : n.stamp <= k.stamp

PairOf(s) == {RawHeap(s), LeakList(s)}

PairInv ==
    \A s \in Stamp :
        Through(s) /\ (\A p \in Process : alive[p]) =>
            \A n, m \in PairOf(s) : n \in Names /\ m \notin Names =>
                \E q \in Process : Finishes(q, n, m)

OrphanInv ==
    \A s, t \in DOMAIN owner :
        /\ s < t /\ IsFirstDump(t) /\ s \notin overlap /\ callback[s] = "lost"
        /\ \A p \in Process \ {owner[s]} : alive[p]
        => (RawHeap(s) \in Names /\ LeakList(s) \notin Names =>
                \E q \in Process \ {owner[s]} : Finishes(q, RawHeap(s), LeakList(s)))

LEMMA ListNotRemade ==
    ASSUME BaseInv, AloneInv, NEW p \in Process, NEW s0 \in Stamp, OtherStep(p, s0),
           NEW s \in DOMAIN owner \ overlap, callback[s] \in {"answered", "lost"},
           LeakList(s) \in DOMAIN files'
    PROVE  LeakList(s) \in Names
<1>1. SUFFICES ASSUME LeakList(s) \notin Names
               PROVE  FALSE
  OBVIOUS
<1>2. \A t : LeakList(s) # RawHeap(t) /\ (LeakList(s) = LeakList(t) => t = s)
  BY FileNames
<1>3. pc[p] = "list" /\ curTimeStamp[p] = s
  BY <1>1, <1>2, FilesWritten
<1>4. s \in DOMAIN owner /\ work[p].kind \in {"sync", "async"}
  BY <1>3 DEF BaseInv, CallInv, CallOf
<1>5. work[p].kind # "sync"
  BY <1>3 DEF BaseInv, CallInv, CallOf
<1>6. /\ work[p].stamp \in DOMAIN owner /\ owner[work[p].stamp] = p
      /\ callback[work[p].stamp] = "taken"
  BY <1>4, <1>5 DEF BaseInv, CallInv, CallOf
<1>7. s \in overlap \/ work[p].stamp = s
  BY <1>3, <1>6 DEF AloneInv, Pending
<1>8. QED
  BY <1>6, <1>7

LEMMA HeapNotRemade ==
    ASSUME BaseInv, NEW p \in Process, NEW s0 \in Stamp, OtherStep(p, s0),
           NEW s, native[s] \in {"none", "done"}, RawHeap(s) \in DOMAIN files'
    PROVE  RawHeap(s) \in Names
<1>1. \A t : RawHeap(s) # LeakList(t) /\ (RawHeap(s) = RawHeap(t) => t = s)
  BY FileNames
<1>2. QED
  BY <1>1, FilesWritten

(* Two processes that are in calls overlap.                                *)
LEMMA AloneCalls ==
    ASSUME BaseInv, AloneInv, NEW p \in Process, NEW q \in Process,
           pc[p] # "idle", pc[q] # "idle", curTimeStamp[p] \notin overlap
    PROVE  p = q
<1>1. ASSUME NEW r \in Process, pc[r] # "idle"
      PROVE  /\ curTimeStamp[r] \in DOMAIN owner /\ owner[curTimeStamp[r]] = r
             /\ Active(curTimeStamp[r])
  <2>1. curTimeStamp[r] # NoStamp /\ curTimeStamp[r] \in Nat /\ curTimeStamp[r] < clock
    BY <1>1, ClockFacts DEF BaseInv, CallInv, CallOf
  <2>2. QED
    BY <1>1, <2>1, ClockFacts DEF BaseInv, OwnerInv, Active, NoStamp
<1>2. curTimeStamp[p] = curTimeStamp[q]
  BY <1>1 DEF AloneInv
<1>3. QED
  BY <1>1, <1>2

LEMMA VictimsShrink ==
    ASSUME BaseInv, NEW p \in Process, NEW s \in Stamp, OtherStep(p, s), NEW q \in Process
    PROVE  \/ victims'[q] \subseteq victims[q]
           \/ q = p /\ ListOldFiles(p) /\ victims'[q] = OldFiles(files)
<1>1. DOMAIN victims = Process
  BY DEF BaseInv, TypeInv
<1>2. QED
  BY <1>1 DEF OtherStep, DumpRefused, TakeCallback, WriteList, ListOldFiles, Unlink, Report,
     Crash, NativeStep, WriteHeap, QueueCallback, AppendMetaData, vars, jsThread

LEMMA WhollyStep == BaseInv /\ AloneInv /\ WhollyInv /\ [Next]_vars => WhollyInv'
<1>. SUFFICES ASSUME BaseInv, AloneInv, WhollyInv, [Next]_vars
              PROVE  WhollyInv'
  OBVIOUS
<1>1. ASSUME NEW p \in Process, StampStep(p), NEW q \in Process,
             pc'[q] = "unlink", curTimeStamp'[q] \notin overlap'
      PROVE  FALSE
  <2>1. q # p /\ pc[q] = "unlink"
    <3>1. /\ \A r \in Process \ {p} : pc'[r] = pc[r]
          /\ pc'[p] # "unlink"
      BY <1>1, StampStepEffects
    <3>2. QED
      BY <1>1, <3>1
  <2>2. curTimeStamp'[q] = curTimeStamp[q]
    BY <1>1, <2>1, StampStepFrame
  <2>3. curTimeStamp[q] \in DOMAIN owner
    <3>1. curTimeStamp[q] # NoStamp
      BY <2>1 DEF BaseInv, CallInv, CallOf
    <3>2. QED
      BY <3>1, ClockFacts DEF BaseInv, NoStamp
  <2>4. curTimeStamp[q] \in UnderWay(p)
    BY <2>1, <2>3 DEF UnderWay
  <2>5. QED
    BY <1>1, <2>2, <2>4, StampStepFrame
<1>2. ASSUME NEW p \in Process, NEW s \in Stamp, OtherStep(p, s), NEW q \in Process,
             pc'[q] = "unlink", curTimeStamp[q] \notin overlap
      PROVE  victims'[q] \subseteq DOMAIN files'
  <2>1. CASE ListOldFiles(p) /\ q = p
    <3>1. files' = files /\ victims' = [victims EXCEPT ![p] = OldFiles(files)]
      BY <2>1 DEF ListOldFiles
    <3>2. DOMAIN victims = Process /\ OldFiles(files) \subseteq Names
      BY DEF BaseInv, TypeInv, OldFiles
    <3>3. QED
      BY <2>1, <3>1, <3>2
  <2>2. CASE ~ (ListOldFiles(p) /\ q = p)
    <3>1. pc[q] = "unlink"
      BY <1>2, <2>2, ThreadChanges
    <3>2. victims[q] \subseteq Names
      BY <1>2, <3>1 DEF WhollyInv
    <3>3. victims'[q] \subseteq victims[q]
      BY <1>2, <2>2, VictimsShrink
    <3>4. ASSUME NEW n \in victims'[q], n \notin DOMAIN files'
          PROVE  FALSE
      <4>1. n \in Names
        BY <3>2, <3>3, <3>4
      <4>2. Unlink(p) /\ pc[p] = "unlink" /\ victims'[p] = victims[p] \ {n}
        BY <1>2, <3>4, <4>1, FilesGone
      <4>3. p = q
        BY <1>2, <3>1, <4>2, AloneCalls
      <4>4. QED
        BY <3>4, <4>2, <4>3
    <3>5. QED
      BY <3>4
  <2>3. QED
    BY <2>1, <2>2
<1>3. ASSUME NEW p \in Process, NEW s \in Stamp, OtherStep(p, s)
      PROVE  curTimeStamp' = curTimeStamp /\ overlap' = overlap
  BY <1>3, OtherStepFrame
<1>4. QED
  BY <1>1, <1>2, <1>3, StepCases DEF WhollyInv

(* What comes to an end in a step: its files are there, nobody deletes them.*)
LEMMA Settles ==
    ASSUME BaseInv, AloneInv, FilesInv, NEW p \in Process, NEW s0 \in Stamp, OtherStep(p, s0),
           NEW s \in Stamp, Settled(s)', ~ Settled(s)
    PROVE  /\ s \in DOMAIN owner \ overlap /\ RawDump(s) /\ RawHeap(s) \in Names
           /\ Listed(s) => LeakList(s) \in Names
           /\ \A q \in Process : RawHeap(s) \notin victims[q] /\ LeakList(s) \notin victims[q]
           /\ ~ ListOldFiles(p)
<1>1. /\ s \in DOMAIN owner \ overlap
      /\ native'[s] \in {"none", "done"} /\ callback'[s] \in {"answered", "lost"}
  BY OtherStepFrame DEF Settled
<1>2. RawDump(s)
  <2>1. callback[s] \in Pending \cup {"none", "answered", "lost"}
    BY DEF BaseInv, TypeInv
  <2>2. callback[s] # "none"
    BY <1>1, CallbackChanges DEF Pending
  <2>3. QED
    BY <1>1, <2>1, <2>2 DEF Settled, RawDump
<1>3. ~ ListOldFiles(p)
  BY <1>1, <1>2 DEF ListOldFiles, dumpVars, RawDump, Pending
<1>4. QED
  BY <1>1, <1>2, <1>3 DEF FilesInv

LEMMA LostStep ==
    BaseInv /\ AloneInv /\ FilesInv /\ WhollyInv /\ LostInv /\ [Next]_vars => LostInv'
<1>. SUFFICES ASSUME BaseInv, AloneInv, FilesInv, WhollyInv, LostInv, [Next]_vars
              PROVE  LostInv'
  OBVIOUS
<1>1. ASSUME NEW p \in Process, StampStep(p), NEW s \in DOMAIN owner' \ overlap',
             callback'[s] = "lost", alive'[owner'[s]], LeakList(s) \in DOMAIN files'
      PROVE  FALSE
  <2>1. CASE s = clock
    <3>1. callback'[clock] = "lost" => files' \in {CleanUp(p), With(CleanUp(p), RawHeap(clock), {})}
      BY <1>1, StampStepEffects
    <3>2. LeakList(clock) # RawHeap(clock) /\ LeakList(clock) \notin DOMAIN CleanUp(p)
      BY <1>1, StampStepFiles, FileNames
    <3>3. QED
      BY <1>1, <2>1, <3>1, <3>2 DEF With
  <2>2. CASE s # clock
    <3>1. /\ s \in DOMAIN owner \ overlap /\ s \in Stamp /\ owner'[s] = owner[s]
      BY <1>1, <2>2, StampStepFrame
    <3>2. callback[s] = "lost" /\ alive' = alive
      BY <1>1, <2>2, StampStepEffects, StampStepFrame
    <3>3. LeakList(s) \in Names
      BY <1>1, <2>2, StampStepFiles, FileNames
    <3>4. QED
      BY <1>1, <3>1, <3>2, <3>3 DEF LostInv
  <2>3. QED
    BY <2>1, <2>2
<1>2. ASSUME NEW p \in Process, NEW s0 \in Stamp, OtherStep(p, s0),
             NEW s \in DOMAIN owner \ overlap,
             callback'[s] = "lost", alive'[owner[s]], LeakList(s) \in DOMAIN files'
      PROVE  FALSE
  <2>1. s \in DOMAIN owner /\ s \in Stamp /\ owner[s] \in Process
    BY ClockFacts DEF BaseInv
  <2>2. DOMAIN alive = Process
    BY DEF BaseInv, TypeInv
  <2>3. CASE callback[s] = "lost"
    <3>1. alive[owner[s]]
      BY <1>2, <2>1, <2>2 DEF OtherStep, DumpRefused, TakeCallback, WriteList, ListOldFiles, Unlink,
         Report, Crash, NativeStep, WriteHeap, QueueCallback, AppendMetaData, vars
    <3>2. LeakList(s) \in Names
      BY <1>2, <2>3, ListNotRemade
    <3>3. QED
      BY <2>3, <3>1, <3>2 DEF LostInv
  <2>4. CASE callback[s] # "lost"
    <3>1. ~ (Crash(p) /\ owner[s] = p)
      BY <1>2, <2>2 DEF Crash
    <3>2. /\ WriteList(p) \/ Unlink(p)
          /\ owner[s] = p /\ callback[s] = "taken" /\ pc'[p] = "idle"
          /\ work[p].kind = "async" /\ work[p].stamp = s
      BY <1>2, <2>1, <2>4, <3>1, CallbackChanges
    <3>3. curTimeStamp[p] = s /\ RawHeap(s) \in Names
      BY <2>1, <3>2 DEF AloneInv, FilesInv, RawDump, Pending
    <3>4. DOMAIN pc = Process
      BY DEF BaseInv, TypeInv
    <3>5. ASSUME WriteList(p)
          PROVE  FALSE
      <4>1. HashAndList(p, RawHeap(s))
        BY <3>2, <3>3, <3>5 DEF WriteList
      <4>2. pc' = [pc EXCEPT ![p] = "trim"]
        BY <3>3, <4>1 DEF HashAndList
      <4>3. QED
        BY <3>2, <3>4, <4>2
    <3>6. ASSUME Unlink(p)
          PROVE  FALSE
      <4>1. pc[p] = "unlink"
        BY <3>6 DEF Unlink
      <4>2. victims[p] \subseteq Names
        BY <3>3, <4>1 DEF WhollyInv
      <4>3. pc' = pc
        BY <3>6, <4>2 DEF Unlink
      <4>4. QED
        BY <3>2, <4>1, <4>3
    <3>7. QED
      BY <3>2, <3>5, <3>6
  <2>5. QED
    BY <2>3, <2>4
<1>3. ASSUME NEW p \in Process, NEW s \in Stamp, OtherStep(p, s)
      PROVE  owner' = owner /\ overlap' = overlap
  BY <1>3, OtherStepFrame
<1>4. QED
  BY <1>1, <1>2, <1>3, StepCases DEF LostInv

LEMMA VictimStep ==
    BaseInv /\ AloneInv /\ FilesInv /\ VictimPairs /\ [Next]_vars => VictimPairs'
<1>. SUFFICES ASSUME BaseInv, AloneInv, FilesInv, VictimPairs, [Next]_vars,
                     NEW s \in Stamp, Settled(s)',
                     RawHeap(s) \in DOMAIN files', LeakList(s) \in DOMAIN files'
              PROVE  \A q \in Process : RawHeap(s) \in victims'[q] <=> LeakList(s) \in victims'[q]
  BY DEF VictimPairs
<1>1. ASSUME NEW p \in Process, StampStep(p)
      PROVE  \A q \in Process : RawHeap(s) \in victims'[q] <=> LeakList(s) \in victims'[q]
  <2>1. victims' = victims
    BY <1>1, StampStepEffects
  <2>2. CASE s = clock
    <3>1. \A q \in Process : \A n \in victims[q] : n.stamp # clock
      BY <1>1, StampStepFrame DEF BaseInv, SnapshotInv
    <3>2. QED
      BY <2>1, <2>2, <3>1, FileNames
  <2>3. CASE s # clock
    <3>1. RawHeap(s) \in Names /\ LeakList(s) \in Names
      BY <1>1, <2>3, StampStepFiles, FileNames
    <3>2. Settled(s)
      BY <1>1, <2>3, StampStepFrame DEF Settled
    <3>3. QED
      BY <2>1, <3>1, <3>2 DEF VictimPairs
  <2>4. QED
    BY <2>2, <2>3
<1>2. ASSUME NEW p \in Process, NEW s0 \in Stamp, OtherStep(p, s0)
      PROVE  \A q \in Process : RawHeap(s) \in victims'[q] <=> LeakList(s) \in victims'[q]
  <2>1. CASE ~ Settled(s)
    BY <1>2, <2>1, Settles, VictimsShrink
  <2>2. CASE Settled(s)
    <3>1. /\ s \in DOMAIN owner \ overlap /\ callback[s] \in {"answered", "lost"}
          /\ native[s] \in {"none", "done"}
      BY <2>2 DEF Settled
    <3>2. RawHeap(s) \in Names /\ LeakList(s) \in Names
      BY <1>2, <3>1, ListNotRemade, HeapNotRemade
    <3>3. \A q \in Process : RawHeap(s) \in victims[q] <=> LeakList(s) \in victims[q]
      BY <2>2, <3>2 DEF VictimPairs
    <3>4. DOMAIN victims = Process
      BY DEF BaseInv, TypeInv
    <3>5. CASE ListOldFiles(p)
      <4>1. victims' = [victims EXCEPT ![p] = OldFiles(files)]
        BY <3>5 DEF ListOldFiles
      <4>2. RawHeap(s) \in OldFiles(files) <=> LeakList(s) \in OldFiles(files)
        <5>1. RawHeap(s).stamp = LeakList(s).stamp
          BY FileNames
        <5>2. QED
          BY <3>2, <5>1, Zenon DEF OldFiles, Names
      <4>3. QED
        BY <3>3, <3>4, <4>1, <4>2
    <3>6. CASE Unlink(p)
      <4>1. PICK v \in victims[p] :
                \/ v \in Names /\ files' = Without(files, {v})
                   /\ victims' = [victims EXCEPT ![p] = @ \ {v}]
                \/ victims' = [victims EXCEPT ![p] = {}]
        BY <3>6 DEF Unlink
      <4>2. \/ v # RawHeap(s) /\ v # LeakList(s) /\ victims' = [victims EXCEPT ![p] = @ \ {v}]
            \/ victims' = [victims EXCEPT ![p] = {}]
        BY <4>1 DEF Without, Restrict
      <4>3. QED
        BY <3>3, <3>4, <4>2
    <3>7. CASE Crash(p)
      BY <3>3, <3>4, <3>7 DEF Crash
    <3>8. CASE ~ (ListOldFiles(p) \/ Unlink(p) \/ Crash(p))
      <4>1. victims' = victims
        BY <1>2, <3>8 DEF OtherStep, DumpRefused, TakeCallback, WriteList, Report, NativeStep,
           WriteHeap, QueueCallback, AppendMetaData, vars, jsThread
      <4>2. QED
        BY <3>3, <4>1
    <3>9. QED
      BY <3>5, <3>6, <3>7, <3>8
  <2>3. QED
    BY <2>1, <2>2
<1>3. QED
  BY <1>1, <1>2, StepCases

(* Who deletes the first file of a pair is to delete the other next.        *)
LEMMA UnlinkBegins ==
    ASSUME BaseInv, NEW p \in Process, NEW s0 \in Stamp, OtherStep(p, s0),
           NEW n \in Names, n \notin DOMAIN files',
           NEW m, m # n, m.stamp = n.stamp, \A q \in Process : n \in victims[q] <=> m \in victims[q]
    PROVE  alive[p] /\ Finishes(p, m, n)'
<1>1. /\ Unlink(p) /\ pc[p] = "unlink" /\ n \in victims[p]
      /\ \A k \in victims[p] : n.stamp <= k.stamp
      /\ victims'[p] = victims[p] \ {n} /\ pc' = pc
  BY FilesGone
<1>2. QED
  BY <1>1 DEF Unlink, Finishes

(* ... and does it, or dies.                                               *)
LEMMA UnlinkGoesOn ==
    ASSUME BaseInv, NEW p \in Process, NEW s0 \in Stamp, OtherStep(p, s0),
           NEW s \in Stamp, callback[s] # "none",
           NEW n \in PairOf(s), NEW m \in PairOf(s), n # m,
           n \in Names, n \in DOMAIN files',
           NEW q \in Process, Finishes(q, n, m), ~ (Crash(p) /\ p = q)
    PROVE  Finishes(q, n, m)'
<1>0. /\ pc[q] = "unlink" /\ n \in victims[q] /\ m \notin victims[q]
      /\ \A k \in victims[q] : n.stamp <= k.stamp
  BY DEF Finishes
<1>1. CASE p = q /\ Unlink(p)
  <2>1. PICK v \in victims[q] :
            /\ \A k \in victims[q] : v.stamp <= k.stamp
            /\ v \in Names => files' = Without(files, {v})
    BY <1>1 DEF Unlink
  <2>2. v.stamp = s
    <3>1. n.stamp = s
      BY FileNames DEF PairOf
    <3>2. v \in File /\ v.stamp \in Nat /\ s \in Nat
      BY FileNames, BoundAssumption DEF BaseInv, TypeInv, Stamp
    <3>3. v.stamp <= n.stamp /\ n.stamp <= v.stamp
      BY <1>0, <2>1
    <3>4. QED
      BY <3>1, <3>2, <3>3
  <2>3. v.kind # "heapsnapshot" /\ v \in File
    BY <2>2 DEF BaseInv, SnapshotInv, TypeInv
  <2>4. v \in PairOf(s)
    BY <2>2, <2>3, FileNames DEF PairOf, Kinds, RawHeap, LeakList
  <2>5. v = n
    BY <1>0, <2>4 DEF PairOf
  <2>6. files' = Without(files, {n})
    BY <2>1, <2>5
  <2>7. QED
    BY <2>6 DEF Without, Restrict
<1>2. CASE ~ (p = q /\ Unlink(p))
  <2>1. ~ (p = q /\ (WriteList(p) \/ Report(p)))
    BY <1>0 DEF WriteList, Report
  <2>2. pc'[q] = pc[q]
    BY <1>0, <1>2, <2>1, ThreadChanges
  <2>3. victims'[q] = victims[q]
    <3>1. DOMAIN victims = Process
      BY DEF BaseInv, TypeInv
    <3>2. ~ (p = q /\ ListOldFiles(p))
      BY <1>0 DEF ListOldFiles
    <3>3. QED
      BY <1>2, <3>1, <3>2 DEF OtherStep, DumpRefused, TakeCallback, WriteList, ListOldFiles,
         Unlink, Report, Crash, NativeStep, WriteHeap, QueueCallback, AppendMetaData, vars, jsThread
  <2>4. QED
    BY <1>0, <2>2, <2>3 DEF Finishes
<1>3. QED
  BY <1>1, <1>2

LEMMA StampKeepsFinishing ==
    ASSUME BaseInv, NEW p \in Process, StampStep(p),
           NEW n, NEW m, NEW q \in Process, Finishes(q, n, m)
    PROVE  Finishes(q, n, m)'
<1>1. /\ pc[p] # "unlink" /\ UNCHANGED victims
      /\ \A r \in Process \ {p} : pc'[r] = pc[r]
  BY StampStepEffects
<1>2. QED
  BY <1>1 DEF Finishes

(* The clean-up takes one file of a pair only if the other is not there.    *)
LEMMA StampStepPairs ==
    ASSUME BaseInv, NEW p \in Process, StampStep(p), NEW s \in Stamp, s # clock,
           NEW n \in PairOf(s), NEW m \in PairOf(s),
           n \in DOMAIN files', m \notin DOMAIN files'
    PROVE  n \in Names /\ m \notin Names
<1>1. n.stamp = s /\ m.stamp = s
  BY FileNames DEF PairOf
<1>2. n \in DOMAIN CleanUp(p) /\ n \in Names /\ m \notin DOMAIN CleanUp(p)
  BY <1>1, StampStepFiles
<1>3. /\ RawHeap(s) \in DOMAIN CleanUp(p) =>
             (LeakList(s) \in Names <=> LeakList(s) \in DOMAIN CleanUp(p))
      /\ LeakList(s) \in DOMAIN CleanUp(p) =>
             (RawHeap(s) \in Names <=> RawHeap(s) \in DOMAIN CleanUp(p))
  BY CleanUpProperties DEF BaseInv
<1>4. QED
  BY <1>2, <1>3 DEF PairOf

LEMMA PairStep ==
    BaseInv /\ AloneInv /\ FilesInv /\ VictimPairs /\ PairInv /\ [Next]_vars => PairInv'
<1>. SUFFICES ASSUME BaseInv, AloneInv, FilesInv, VictimPairs, PairInv, [Next]_vars,
                     NEW s \in Stamp, Through(s)', \A p \in Process : alive'[p],
                     NEW n \in PairOf(s), NEW m \in PairOf(s),
                     n \in DOMAIN files', m \notin DOMAIN files'
              PROVE  \E q \in Process : Finishes(q, n, m)'
  BY DEF PairInv, PairOf, RawHeap, LeakList, Name
<1>1. ASSUME NEW p \in Process, StampStep(p)
      PROVE  \E q \in Process : Finishes(q, n, m)'
  <2>1. s # clock
    BY <1>1, StampStepEffects DEF Through
  <2>2. n \in Names /\ m \notin Names
    BY <1>1, <2>1, StampStepPairs
  <2>3. alive' = alive
    BY <1>1, StampStepEffects
  <2>4. Through(s)
    BY <1>1, <2>1, <2>3, StampStepFrame DEF Through
  <2>5. PICK q \in Process : Finishes(q, n, m)
    BY <2>2, <2>3, <2>4 DEF PairInv
  <2>6. QED
    BY <1>1, <2>5, StampKeepsFinishing
<1>2. ASSUME NEW p \in Process, NEW s0 \in Stamp, OtherStep(p, s0)
      PROVE  \E q \in Process : Finishes(q, n, m)'
  <2>0. DOMAIN alive = Process
    BY DEF BaseInv, TypeInv
  <2>1. ~ Crash(p) /\ \A q \in Process : alive[q]
    <3>1. ~ Crash(p)
      BY <2>0 DEF Crash
    <3>2. QED
      BY <1>2, <3>1 DEF OtherStep, DumpRefused, TakeCallback, WriteList, ListOldFiles, Unlink,
         Report, NativeStep, WriteHeap, QueueCallback, AppendMetaData, vars
  <2>2. n \in {RawHeap(s), LeakList(s)} /\ m \in {RawHeap(s), LeakList(s)} /\ n # m
        /\ m.stamp = n.stamp
    BY FileNames DEF PairOf
  <2>3. owner' = owner /\ overlap' = overlap
    BY <1>2, OtherStepFrame
  <2>4. Settled(s)'
    BY DEF Settled, Through
  <2>5. CASE ~ Settled(s)
    <3>1. /\ RawHeap(s) \in Names
          /\ Listed(s) => LeakList(s) \in Names
          /\ \A q \in Process : RawHeap(s) \notin victims[q] /\ LeakList(s) \notin victims[q]
      BY <1>2, <2>4, <2>5, Settles
    <3>2. Listed(s)
      <4>1. CASE callback[s] = "answered"
        BY <4>1 DEF Listed
      <4>2. CASE callback[s] # "answered"
        <5>1. Report(p) /\ work[p].kind = "async" /\ work[p].stamp = s
          BY <1>2, <4>2, CallbackChanges DEF Through, Pending
        <5>2. work[p] \in [kind : {"none", "sync", "async", "listOnly"}, stamp : 0..(clock - 1)]
          BY DEF BaseInv, TypeInv
        <5>3. work[p] = [kind |-> "async", stamp |-> s]
          BY <5>1, <5>2
        <5>4. QED
          BY <5>1, <5>3 DEF Listed, Report
      <4>3. QED
        BY <4>1, <4>2
    <3>3. m \in Names /\ \A q \in Process : m \notin victims[q]
      BY <2>2, <3>1, <3>2
    <3>4. QED
      BY <1>2, <3>3, FilesGone
  <2>6. CASE Settled(s)
    <3>1. /\ s \in DOMAIN owner \ overlap /\ callback[s] \in {"answered", "lost"}
          /\ native[s] \in {"none", "done"}
      BY <2>6 DEF Settled
    <3>2. Through(s)
      <4>1. callback[s] = "answered"
        BY <1>2, <3>1, CallbackChanges DEF Through, Pending
      <4>2. native[s] = "done"
        BY <1>2, <2>1, <3>1, NativeChanges DEF Through
      <4>3. owner[s] \in Process
        BY <3>1, ClockFacts DEF BaseInv
      <4>4. QED
        BY <2>1, <3>1, <4>1, <4>2, <4>3 DEF Through
    <3>3. n \in Names
      BY <1>2, <2>2, <3>1, ListNotRemade, HeapNotRemade
    <3>4. CASE m \in Names
      <4>1. \A q \in Process : m \in victims[q] <=> n \in victims[q]
        BY <2>2, <2>6, <3>3, <3>4 DEF VictimPairs
      <4>2. Finishes(p, n, m)'
        BY <1>2, <2>2, <3>4, <4>1, UnlinkBegins
      <4>3. QED
        BY <4>2
    <3>5. CASE m \notin Names
      <4>1. PICK q \in Process : Finishes(q, n, m)
        BY <2>1, <3>2, <3>3, <3>5 DEF PairInv
      <4>2. QED
        BY <1>2, <2>1, <2>2, <3>1, <3>3, <4>1, UnlinkGoesOn
    <3>6. QED
      BY <3>4, <3>5
  <2>7. QED
    BY <2>5, <2>6
<1>3. QED
  BY <1>1, <1>2, StepCases

LEMMA OrphanStep ==
    BaseInv /\ AloneInv /\ LostInv /\ VictimPairs /\ OrphanInv /\ [Next]_vars => OrphanInv'
<1>. SUFFICES ASSUME BaseInv, AloneInv, LostInv, VictimPairs, OrphanInv, [Next]_vars,
                     NEW s \in DOMAIN owner', NEW t \in DOMAIN owner',
                     s < t, IsFirstDump(t)', s \notin overlap', callback'[s] = "lost",
                     \A p \in Process \ {owner'[s]} : alive'[p],
                     RawHeap(s) \in DOMAIN files', LeakList(s) \notin DOMAIN files'
              PROVE  \E q \in Process \ {owner'[s]} : Finishes(q, RawHeap(s), LeakList(s))'
  BY DEF OrphanInv, RawHeap, LeakList, Name
<1>1. ASSUME NEW p \in Process, StampStep(p)
      PROVE  \E q \in Process \ {owner'[s]} : Finishes(q, RawHeap(s), LeakList(s))'
  <2>1. \A u \in DOMAIN owner : u \in Nat /\ u < clock
    BY ClockFacts DEF BaseInv
  <2>2. s # clock /\ s \in DOMAIN owner /\ s \in Stamp /\ owner'[s] = owner[s]
        /\ callback[s] = "lost" /\ s \notin overlap
    <3>1. s # clock
      BY <1>1, <2>1, StampStepFrame
    <3>2. QED
      BY <1>1, <3>1, StampStepFrame
  <2>3. RawHeap(s) \in Names /\ LeakList(s) \notin Names
    BY <1>1, <2>2, StampStepPairs DEF PairOf
  <2>4. t # clock
    <3>1. ASSUME t = clock
          PROVE  FALSE
      <4>1. CASE firstDump[p]
        <5>1. LeakList(s) \in DOMAIN CleanUp(p)
          <6>1. RawHeap(s) \in DOMAIN CleanUp(p)
            BY <1>1, <2>2, StampStepFiles, FileNames
          <6>2. firstDump[p] =>
                    (RawHeap(s) \in DOMAIN CleanUp(p) => LeakList(s) \in DOMAIN CleanUp(p))
            BY CleanUpProperties DEF BaseInv
          <6>3. QED
            BY <4>1, <6>1, <6>2
        <5>2. QED
          BY <1>1, <5>1, StampStepFiles
      <4>2. CASE ~ firstDump[p]
        <5>1. curTimeStamp[p] \in DOMAIN owner /\ owner[curTimeStamp[p]] = p
          BY <4>2, ClockFacts DEF BaseInv, OwnerInv, NoStamp
        <5>2. /\ owner'[clock] = p /\ owner'[curTimeStamp[p]] = p
              /\ curTimeStamp[p] \in DOMAIN owner'
          BY <1>1, <5>1, StampStepFrame
        <5>3. curTimeStamp[p] >= clock
          BY <3>1, <5>2 DEF IsFirstDump
        <5>4. clock \in Nat /\ curTimeStamp[p] \in Nat /\ curTimeStamp[p] < clock
          BY <1>1, <2>1, <5>1, StampStepFrame
        <5>5. QED
          BY <5>3, <5>4
      <4>3. QED
        BY <4>1, <4>2
    <3>2. QED
      BY <3>1
  <2>5. t \in DOMAIN owner /\ IsFirstDump(t)
    BY <1>1, <2>4, StampStepFrame DEF IsFirstDump
  <2>6. alive' = alive
    BY <1>1, StampStepEffects
  <2>7. PICK q \in Process \ {owner[s]} : Finishes(q, RawHeap(s), LeakList(s))
    BY <2>2, <2>3, <2>5, <2>6 DEF OrphanInv
  <2>8. Finishes(q, RawHeap(s), LeakList(s))'
    BY <1>1, <2>7, StampKeepsFinishing
  <2>9. QED
    BY <2>2, <2>8
<1>2. ASSUME NEW p \in Process, NEW s0 \in Stamp, OtherStep(p, s0)
      PROVE  \E q \in Process \ {owner'[s]} : Finishes(q, RawHeap(s), LeakList(s))'
  <2>1. owner' = owner /\ overlap' = overlap /\ IsFirstDump(t)
    BY <1>2, OtherStepFrame DEF IsFirstDump
  <2>2. s \in DOMAIN owner \ overlap /\ s \in Stamp /\ t \in DOMAIN owner
    BY <2>1, ClockFacts DEF BaseInv
  <2>3. ~ Active(s)
    <3>1. s # clock - 1
      BY <2>2, ClockFacts DEF BaseInv
    <3>2. QED
      BY <2>2, <3>1 DEF AloneInv
  <2>4. /\ Settled(s) /\ callback[s] = "lost" /\ native[s] \in {"none", "done"}
    <3>1. callback[s] = "lost"
      BY <1>2, <2>2, <2>3, CallbackChanges DEF Active, Pending
    <3>2. QED
      BY <2>2, <2>3, <3>1 DEF Active, Settled
  <2>5. DOMAIN alive = Process
    BY DEF BaseInv, TypeInv
  <2>6. \A q \in Process \ {owner[s]} : alive[q] /\ ~ (Crash(p) /\ p = q)
    <3>1. \A q \in Process : alive'[q] => alive[q]
      BY <1>2, <2>5 DEF OtherStep, DumpRefused, TakeCallback, WriteList, ListOldFiles, Unlink,
         Report, Crash, NativeStep, WriteHeap, QueueCallback, AppendMetaData, vars
    <3>2. Crash(p) => ~ alive'[p]
      BY <2>5 DEF Crash
    <3>3. QED
      BY <2>1, <3>1, <3>2
  <2>7. RawHeap(s) \in Names
    BY <1>2, <2>4, HeapNotRemade
  <2>8. /\ RawHeap(s) # LeakList(s) /\ RawHeap(s).stamp = LeakList(s).stamp
        /\ RawHeap(s) \in PairOf(s) /\ LeakList(s) \in PairOf(s)
    BY FileNames DEF PairOf
  <2>9. CASE LeakList(s) \in Names
    <3>1. \A q \in Process : LeakList(s) \in victims[q] <=> RawHeap(s) \in victims[q]
      BY <2>2, <2>4, <2>7, <2>9 DEF VictimPairs
    <3>2. alive[p] /\ Finishes(p, RawHeap(s), LeakList(s))'
      BY <1>2, <2>8, <2>9, <3>1, UnlinkBegins
    <3>3. ~ alive[owner[s]]
      BY <2>2, <2>4, <2>9 DEF LostInv
    <3>4. QED
      BY <2>1, <3>2, <3>3
  <2>10. CASE LeakList(s) \notin Names
    <3>1. PICK q \in Process \ {owner[s]} : Finishes(q, RawHeap(s), LeakList(s))
      BY <2>1, <2>2, <2>4, <2>6, <2>7, <2>10 DEF OrphanInv
    <3>2. Finishes(q, RawHeap(s), LeakList(s))'
      BY <1>2, <2>2, <2>4, <2>6, <2>7, <2>8, <3>1, UnlinkGoesOn
    <3>3. QED
      BY <2>1, <3>2
  <2>11. QED
    BY <2>9, <2>10
<1>3. QED
  BY <1>1, <1>2, StepCases

LEMMA PairsInvariance ==
    Spec => [](/\ BaseInv /\ AloneInv /\ FilesInv /\ WhollyInv
               /\ VictimPairs /\ LostInv /\ PairInv /\ OrphanInv)
<1>1. Init => WhollyInv /\ VictimPairs /\ LostInv /\ PairInv /\ OrphanInv
  BY DEF Init, WhollyInv, VictimPairs, LostInv, PairInv, OrphanInv, Settled, Through
<1>2. QED
  BY <1>1, WhollyStep, VictimStep, LostStep, PairStep, OrphanStep, FilesInvariance, PTL DEF Spec

(* KeptInPairs: a dump that ran alone is kept or deleted whole              *)
(* (the three deletions, js_leak_watcher.ts:437-512 and 558-587).           *)
THEOREM PairsAreKept == Spec => []KeptInPairs
<1>1. PairInv => KeptInPairs
  <2>. SUFFICES ASSUME PairInv, Quiet, \A p \in Process : alive[p], NEW s \in Stamp, Through(s),
                       NEW n \in PairOf(s), NEW m \in PairOf(s), n \in Names, m \notin Names
                PROVE  FALSE
    BY DEF KeptInPairs, PairOf
  <2>1. PICK q \in Process : Finishes(q, n, m)
    BY DEF PairInv
  <2>2. QED
    BY <2>1 DEF Quiet, Finishes
<1>2. QED
  BY <1>1, PairsInvariance, PTL

(* OrphansSwept: the raw heap that a crash left without a list goes with    *)
(* the first dump of the next process (deleteUnMatchDumpFile,               *)
(* js_leak_watcher.ts:481-512).                                             *)
THEOREM OrphansAreSwept == Spec => []OrphansSwept
<1>1. OrphanInv => OrphansSwept
  BY DEF OrphanInv, OrphansSwept, Finishes
<1>2. QED
  BY <1>1, PairsInvariance, PTL

-----------------------------------------------------------------------------
(* The directory is bounded.                                               *)

(* deleteOldFile leaves maxFileNum files of those that it has listed.       *)
LEMMA FewAreLeft ==
    ASSUME TypeInv
    PROVE  Cardinality(Names \ OldFiles(files)) <= MaxFileNum
<1>. DEFINE older(n) == {m \in DOMAIN files : m.stamp < n.stamp}
            kept == {n \in DOMAIN files :
                        ~ (Cardinality(older(n)) < Cardinality(DOMAIN files) - MaxFileNum)}
<1>1. Names \ OldFiles(files) = kept
  <2>1. OldFiles(files) = {n \in DOMAIN files :
            Cardinality(older(n)) < Cardinality(DOMAIN files) - MaxFileNum}
    BY Zenon DEF OldFiles
  <2>. HIDE DEF older
  <2>2. QED
    BY <2>1
<1>2. \A n \in Names : n \in File /\ n.stamp \in Nat
  BY FileNames, BoundAssumption DEF TypeInv, IsDirectory, Stamp
<1>3. IsFiniteSet(Names) /\ Cardinality(Names) \in Nat
  BY <1>2, FilesAreFinite, FS_Subset, FS_CardinalityType
<1>4. CASE kept = {}
  <2>. HIDE DEF kept
  <2>1. Names \ OldFiles(files) = {}
    BY <1>1, <1>4
  <2>2. Cardinality(Names \ OldFiles(files)) = 0
    BY <2>1, FS_EmptySet, Zenon
  <2>3. QED
    BY <2>2, MaxFileNumAssumption
<1>5. CASE kept # {}
  <2>1. PICK first \in kept : \A n \in kept : first.stamp <= n.stamp
    <3>. DEFINE stamps == {n.stamp : n \in kept}
    <3>1. stamps \in SUBSET Nat /\ stamps # {}
      BY <1>2, <1>5
    <3>2. PICK least \in stamps : \A t \in stamps : least <= t
      <4>. HIDE DEF stamps
      <4>1. QED
        BY <3>1, MinNat
    <3>3. QED
      BY <3>2
  <2>. DEFINE others == older(first)
  <2>2. /\ others \subseteq Names /\ first \in Names /\ kept \subseteq Names \ others
        /\ ~ (Cardinality(others) < Cardinality(Names) - MaxFileNum)
    BY <1>2, <2>1
  <2>. HIDE DEF others, kept, older
  <2>3. /\ IsFiniteSet(Names \ others) /\ Cardinality(Names \ others) \in Nat
        /\ Cardinality(others) \in Nat
        /\ Cardinality(Names \ others) = Cardinality(Names) - Cardinality(others)
    <3>1. IsFiniteSet(others)
      BY <1>3, <2>2, FS_Subset
    <3>2. Names \cap others = others
      BY <2>2
    <3>3. QED
      BY <1>3, <3>1, <3>2, FS_Difference, FS_CardinalityType
  <2>4. Cardinality(kept) <= Cardinality(Names \ others) /\ Cardinality(kept) \in Nat
    BY <2>2, <2>3, FS_Subset, FS_CardinalityType
  <2>5. Cardinality(Names \ others) <= MaxFileNum
    BY <1>3, <2>2, <2>3, MaxFileNumAssumption
  <2>6. QED
    BY <1>1, <2>3, <2>4, <2>5, MaxFileNumAssumption
<1>6. QED
  BY <1>4, <1>5

(* Whoever is in a call when another dump begins overlaps it.               *)
LEMMA CallersOverlap ==
    ASSUME BaseInv, NEW p \in Process, StampStep(p),
           NEW q \in Process, q # p, pc[q] # "idle"
    PROVE  curTimeStamp'[q] = curTimeStamp[q] /\ curTimeStamp[q] \in overlap'
<1>1. curTimeStamp[q] \in DOMAIN owner
  <2>1. curTimeStamp[q] # NoStamp
    BY DEF BaseInv, CallInv, CallOf
  <2>2. QED
    BY <2>1, ClockFacts DEF BaseInv, NoStamp
<1>2. curTimeStamp[q] \in UnderWay(p)
  BY <1>1 DEF UnderWay
<1>3. QED
  BY <1>2, StampStepFrame

(* dump() has moved its snapshot before it goes on.                        *)
SyncInv ==
    \A p \in Process :
        pc[p] = "list" /\ work[p].kind = "sync" /\ curTimeStamp[p] \notin overlap =>
            HeapSnapshot(curTimeStamp[p]) \in Names

LEMMA SyncStep == BaseInv /\ AloneInv /\ SyncInv /\ [Next]_vars => SyncInv'
<1>. SUFFICES ASSUME BaseInv, AloneInv, SyncInv, [Next]_vars, NEW q \in Process,
                     pc'[q] = "list", work'[q].kind = "sync", curTimeStamp'[q] \notin overlap'
              PROVE  HeapSnapshot(curTimeStamp'[q]) \in DOMAIN files'
  BY DEF SyncInv, HeapSnapshot, Name
<1>1. ASSUME NEW p \in Process, StampStep(p)
      PROVE  HeapSnapshot(curTimeStamp'[q]) \in DOMAIN files'
  <2>1. q = p
    <3>1. q # p => pc'[q] = pc[q]
      BY <1>1, StampStepEffects
    <3>2. QED
      BY <1>1, <3>1, CallersOverlap
  <2>2. files' = With(CleanUp(p), HeapSnapshot(clock), {"heap"})
    BY <1>1, <2>1, StampStepEffects
  <2>3. curTimeStamp'[q] = clock
    BY <1>1, <2>1, StampStepFrame
  <2>4. QED
    BY <2>2, <2>3 DEF With
<1>2. ASSUME NEW p \in Process, NEW s \in Stamp, OtherStep(p, s)
      PROVE  HeapSnapshot(curTimeStamp'[q]) \in DOMAIN files'
  <2>1. curTimeStamp' = curTimeStamp /\ overlap' = overlap
    BY <1>2, OtherStepFrame
  <2>2. pc[q] = "list" /\ work[q].kind = "sync"
    <3>1. [kind |-> "async", stamp |-> s].kind # "sync"
      OBVIOUS
    <3>2. ASSUME pc'[q] # pc[q] \/ work'[q] # work[q]
          PROVE  TakeCallback(p, s) /\ work'[q] = [kind |-> "async", stamp |-> s]
      BY <1>2, <3>2, ThreadChanges
    <3>3. QED
      BY <3>1, <3>2
  <2>3. HeapSnapshot(curTimeStamp[q]) \in Names
    BY <2>1, <2>2 DEF SyncInv
  <2>4. ~ (Unlink(p) /\ pc[p] = "unlink")
    BY <2>1, <2>2, AloneCalls
  <2>5. QED
    BY <1>2, <2>1, <2>3, <2>4, FilesGone
<1>3. QED
  BY <1>1, <1>2, StepCases

TrimInv ==
    (overlap = {} /\ \A p \in Process : alive[p]) =>
        /\ \A p \in Process : pc[p] = "unlink" => Cardinality(Names \ victims[p]) <= MaxFileNum
        /\ (\A p \in Process : pc[p] = "idle") /\ (\A s \in Stamp : callback[s] \notin Pending)
               => Cardinality(Names) <= MaxFileNum

LEMMA SmallerDirectory ==
    ASSUME BaseInv, NEW S \in SUBSET Names, NEW T \in SUBSET S, Cardinality(S) <= MaxFileNum
    PROVE  Cardinality(T) <= MaxFileNum
<1>1. IsFiniteSet(S)
  BY FilesAreFinite, FS_Subset DEF BaseInv, TypeInv, IsDirectory
<1>2. /\ Cardinality(T) \in Nat /\ Cardinality(S) \in Nat
      /\ Cardinality(T) <= Cardinality(S)
  BY <1>1, FS_Subset, FS_CardinalityType
<1>3. QED
  BY <1>2, MaxFileNumAssumption

LEMMA TrimStep ==
    ASSUME "create" \notin Faults, BaseInv, AloneInv, FilesInv, WhollyInv, SyncInv, TrimInv,
           [Next]_vars
    PROVE  TrimInv'
<1>. SUFFICES ASSUME overlap' = {}, \A p \in Process : alive'[p]
              PROVE  /\ \A p \in Process : pc'[p] = "unlink" =>
                            Cardinality(DOMAIN files' \ victims'[p]) <= MaxFileNum
                     /\ (\A p \in Process : pc'[p] = "idle")
                        /\ (\A s \in Stamp : callback'[s] \notin Pending)
                            => Cardinality(DOMAIN files') <= MaxFileNum
  BY DEF TrimInv, Pending
<1>1. ASSUME NEW p \in Process, StampStep(p)
      PROVE  /\ \A q \in Process : pc'[q] # "unlink"
             /\ pc'[p] # "idle" \/ (callback'[clock] \in Pending /\ clock \in Stamp)
  <2>1. \A q \in Process : q # p => pc'[q] = "idle"
    BY <1>1, CallersOverlap, StampStepEffects
  <2>2. pc'[p] \in {"trim", "list"} \/ (pc'[p] = "idle" /\ callback'[clock] = "waiting")
    BY <1>1, StampStepEffects
  <2>3. QED
    BY <1>1, <2>1, <2>2, StampStepFrame DEF Pending
<1>2. ASSUME NEW p \in Process, NEW s0 \in Stamp, OtherStep(p, s0)
      PROVE  /\ \A q \in Process : pc'[q] = "unlink" =>
                    Cardinality(DOMAIN files' \ victims'[q]) <= MaxFileNum
             /\ (\A q \in Process : pc'[q] = "idle")
                /\ (\A s \in Stamp : callback'[s] \notin Pending)
                    => Cardinality(DOMAIN files') <= MaxFileNum
  <2>0. /\ DOMAIN alive = Process /\ DOMAIN victims = Process /\ DOMAIN pc = Process
        /\ \A q \in Process : victims[q] \subseteq File
    BY DEF BaseInv, TypeInv
  <2>1. overlap = {}
    BY <1>2, OtherStepFrame
  <2>2. ~ Crash(p) /\ \A q \in Process : alive[q]
    <3>1. ~ Crash(p)
      BY <2>0 DEF Crash
    <3>2. QED
      BY <1>2, <3>1 DEF OtherStep, DumpRefused, TakeCallback, WriteList, ListOldFiles, Unlink,
         Report, NativeStep, WriteHeap, QueueCallback, AppendMetaData, vars
  <2>3. ASSUME ~ (WriteList(p) /\ pc[p] = "list")
        PROVE  DOMAIN files' \subseteq Names
    <3>1. ASSUME NEW n \in DOMAIN files', n \notin Names
          PROVE  FALSE
      <4>1. n = RawHeap(s0) /\ native[s0] = "append"
        BY <1>2, <2>3, <3>1, FilesWritten
      <4>2. s0 \in DOMAIN owner
        BY <4>1 DEF BaseInv, DumpInv
      <4>3. QED
        BY <2>1, <3>1, <4>1, <4>2 DEF FilesInv, RawDump
    <3>2. QED
      BY <3>1
  <2>4. ASSUME NEW q \in Process, pc'[q] = "unlink"
        PROVE  Cardinality(DOMAIN files' \ victims'[q]) <= MaxFileNum
    <3>1. CASE ListOldFiles(p) /\ q = p
      <4>1. files' = files /\ victims'[q] = OldFiles(files)
        BY <2>0, <3>1 DEF ListOldFiles
      <4>2. QED
        BY <4>1, FewAreLeft DEF BaseInv
    <3>2. CASE ~ (ListOldFiles(p) /\ q = p)
      <4>1. pc[q] = "unlink"
        BY <1>2, <2>4, <3>2, ThreadChanges
      <4>2. Cardinality(Names \ victims[q]) <= MaxFileNum
        BY <2>1, <2>2, <4>1 DEF TrimInv
      <4>3. ~ (WriteList(p) /\ pc[p] = "list")
        BY <2>1, <4>1, AloneCalls
      <4>4. DOMAIN files' \ victims'[q] \subseteq Names \ victims[q]
        <5>1. CASE Unlink(p) /\ p = q
          <6>1. PICK v \in victims[q] :
                    \/ files' = Without(files, {v}) /\ victims' = [victims EXCEPT ![q] = @ \ {v}]
                    \/ GiveUp(q)
            BY <5>1 DEF Unlink
          <6>2. ~ GiveUp(q)
            BY <2>0, <2>4 DEF GiveUp, Enter
          <6>3. DOMAIN files' = Names \ {v} /\ victims'[q] = victims[q] \ {v}
            BY <2>0, <6>1, <6>2 DEF Without, Restrict
          <6>4. QED
            BY <6>3
        <5>2. CASE ~ (Unlink(p) /\ p = q)
          <6>1. victims'[q] = victims[q]
            BY <1>2, <2>0, <2>2, <3>2, <5>2 DEF OtherStep, DumpRefused, TakeCallback, WriteList,
               ListOldFiles, Unlink, Report, NativeStep, WriteHeap, QueueCallback,
               AppendMetaData, vars, jsThread
          <6>2. QED
            BY <2>3, <4>3, <6>1
        <5>3. QED
          BY <5>1, <5>2
      <4>5. Names \ victims[q] \in SUBSET Names
        OBVIOUS
      <4>6. QED
        BY <4>2, <4>4, <4>5, SmallerDirectory
    <3>3. QED
      BY <3>1, <3>2
  <2>5. ASSUME \A q \in Process : pc'[q] = "idle", \A s \in Stamp : callback'[s] \notin Pending
        PROVE  Cardinality(DOMAIN files') <= MaxFileNum
    <3>1. CASE \E q \in Process : pc[q] # "idle"
      <4>1. pc[p] # "idle" /\ (WriteList(p) \/ Unlink(p) \/ Report(p))
        BY <1>2, <2>2, <2>5, <3>1, ThreadChanges
      <4>2. ~ Unlink(p)
        <5>1. ASSUME Unlink(p)
              PROVE  FALSE
          <6>1. pc[p] = "unlink"
            BY <5>1 DEF Unlink
          <6>2. victims[p] \subseteq Names
            BY <2>1, <6>1 DEF WhollyInv
          <6>3. pc' = pc
            BY <5>1, <6>2 DEF Unlink
          <6>4. QED
            BY <2>5, <6>1, <6>3
        <5>2. QED
          BY <5>1
      <4>3. ~ WriteList(p)
        <5>. DEFINE data == IF work[p].kind = "sync" THEN HeapSnapshot(curTimeStamp[p])
                            ELSE RawHeap(curTimeStamp[p])
        <5>1. ASSUME WriteList(p)
              PROVE  FALSE
          <6>1. pc[p] = "list" /\ HashAndList(p, data)
            BY <5>1 DEF WriteList
          <6>2. data \in Names
            <7>1. work[p].kind \in {"sync", "async"}
              BY <6>1 DEF BaseInv, CallInv, CallOf
            <7>2. CASE work[p].kind = "sync"
              BY <2>1, <6>1, <7>2 DEF SyncInv
            <7>3. CASE work[p].kind = "async"
              <8>1. /\ work[p].stamp \in DOMAIN owner /\ owner[work[p].stamp] = p
                    /\ callback[work[p].stamp] = "taken"
                BY <7>3 DEF BaseInv, CallInv, CallOf
              <8>2. curTimeStamp[p] = work[p].stamp
                BY <2>1, <8>1 DEF AloneInv, Pending
              <8>3. RawHeap(work[p].stamp) \in Names
                BY <2>1, <8>1 DEF FilesInv, RawDump, Pending
              <8>4. QED
                BY <7>3, <8>2, <8>3
            <7>4. QED
              BY <7>1, <7>2, <7>3
          <6>. HIDE DEF data
          <6>3. pc' = [pc EXCEPT ![p] = "trim"]
            BY <6>1, <6>2, Zenon DEF HashAndList
          <6>4. QED
            BY <2>0, <2>5, <6>3
        <5>2. QED
          BY <5>1
      <4>4. pc[p] = "unlink" /\ victims[p] = {} /\ files' = files
        BY <4>1, <4>2, <4>3 DEF Report
      <4>5. Cardinality(Names \ victims[p]) <= MaxFileNum
        BY <2>1, <2>2, <4>4 DEF TrimInv
      <4>6. DOMAIN files' = Names \ victims[p]
        BY <4>4
      <4>7. QED
        BY <4>5, <4>6
    <3>2. CASE \A q \in Process : pc[q] = "idle"
      <4>1. ~ WriteList(p) /\ ~ Unlink(p) /\ ~ Report(p)
        BY <3>2 DEF WriteList, Unlink, Report
      <4>2. \A s \in Stamp : callback[s] \notin Pending
        BY <1>2, <2>2, <2>5, <4>1, CallbackChanges DEF Pending
      <4>3. Cardinality(Names) <= MaxFileNum
        BY <2>1, <2>2, <3>2, <4>2 DEF TrimInv
      <4>4. DOMAIN files' \subseteq Names
        BY <2>3, <4>1
      <4>5. QED
        BY <4>3, <4>4, SmallerDirectory
    <3>3. QED
      BY <3>1, <3>2
  <2>6. QED
    BY <2>4, <2>5
<1>3. QED
  BY <1>1, <1>2, StepCases

(* DirectoryBounded: if data files can be created, no more than maxFileNum  *)
(* files stay (deleteOldFile, js_leak_watcher.ts:558-587).                  *)
THEOREM DirectoryIsBounded ==
    ASSUME "create" \notin Faults
    PROVE  Spec => []DirectoryBounded
<1>1. Init => SyncInv /\ TrimInv
  <2>. SUFFICES ASSUME Init
                PROVE  SyncInv /\ TrimInv
    OBVIOUS
  <2>1. \A p \in Process : pc[p] = "idle"
    BY DEF Init
  <2>2. Cardinality(Names) = 0
    BY FS_EmptySet DEF Init
  <2>3. QED
    BY <2>1, <2>2, MaxFileNumAssumption DEF SyncInv, TrimInv
<1>2. BaseInv /\ AloneInv /\ FilesInv /\ WhollyInv /\ SyncInv /\ TrimInv /\ [Next]_vars
        => TrimInv'
  BY TrimStep
<1>3. BaseInv /\ TrimInv => DirectoryBounded
  <2>. SUFFICES ASSUME BaseInv, TrimInv, Quiet
                PROVE  \A s \in Stamp : callback[s] \notin Pending
    BY DEF DirectoryBounded, TrimInv, Quiet
  <2>1. QED
    BY DEF Quiet, BaseInv, DumpInv, Pending
<1>4. QED
  BY <1>1, <1>2, <1>3, SyncStep, PairsInvariance, PTL DEF Spec

=============================================================================
