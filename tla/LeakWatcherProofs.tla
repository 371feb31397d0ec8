-------------------------- MODULE LeakWatcherProofs --------------------------
(***************************************************************************)
(* The safety properties of LeakWatcherTasks for any delays, any number of *)
(* sessions and any configurations, and the refinement of TaskSchedule.    *)
(*                                                                         *)
(* Two groups of facts are kept apart: BaseInv does not depend on the      *)
(* delays, FitInv says what follows from them.  A configured number that   *)
(* setGcDelayAndDumpDelay accepts may become a delay that is out of order  *)
(* or short, by the conversion of napi_get_value_uint32: the histories     *)
(* inverted and shortened say whether one has, and FitInv is about the     *)
(* time before that.                                                       *)
(***************************************************************************)
EXTENDS LeakWatcherTasks, SequenceLemmas

Event == [id : {"gc", "dump"}, left : 0..(WordSize - 1)]

Sorted(q) == \A i, j \in DOMAIN q : i < j => q[i].left <= q[j].left

(* r is q with e at place p. *)
Inserted(q, r, p, e) ==
    /\ r \in Seq(Event) /\ Len(r) = Len(q) + 1 /\ p \in 1..(Len(q) + 1)
    /\ \A j \in 1..(Len(q) + 1) :
          r[j] = IF j < p THEN q[j] ELSE IF j = p THEN e ELSE q[j - 1]

(* The events of one kind from a place on, and how many they are. *)
Positions(q, id, k) == {i \in DOMAIN q : i >= k /\ q[i].id = id}
Later(q, id, k) == Cardinality(Positions(q, id, k))

(* From every place on there are at least as many GC events as DUMP events: *)
(* each DUMP event has its GC event behind it.                              *)
Matched(q) == \A k \in 1..(Len(q) + 1) : Later(q, "dump", k) <= Later(q, "gc", k)

-----------------------------------------------------------------------------
(* The queue.                                                              *)

(* What a sequence of events is to the provers. *)
LEMMA QueueType ==
    ASSUME NEW q \in Seq(Event)
    PROVE  /\ Len(q) \in Nat /\ DOMAIN q = 1..Len(q)
           /\ \A i \in 1..Len(q) : /\ q[i] \in Event
                                   /\ q[i].id \in {"gc", "dump"}
                                   /\ q[i].left \in 0..(WordSize - 1)
<1>1. Len(q) \in Nat /\ DOMAIN q = 1..Len(q)
  BY LenProperties
<1>2. \A i \in 1..Len(q) : q[i] \in Event
  BY ElementOfSeq
<1>3. QED
  BY <1>1, <1>2 DEF Event

(* In a sorted queue there is one place behind all events that are due no  *)
(* later than the new one.                                                 *)
LEMMA PlaceExists ==
    ASSUME NEW q \in Seq(Event), Sorted(q), NEW delay \in 0..(WordSize - 1)
    PROVE  \E p \in 1..(Len(q) + 1) :
              \A j \in DOMAIN q : q[j].left <= delay <=> j < p
<1>. DEFINE T == {i \in 1..(Len(q) + 1) : i = Len(q) + 1 \/ q[i].left > delay}
<1>1. /\ Len(q) \in Nat /\ DOMAIN q = 1..Len(q)
      /\ \A i \in 1..Len(q) : q[i].left \in Nat
      /\ delay \in Nat
  BY QueueType, DelayAssumption
<1>2. PICK p \in T : \A m \in T : p <= m
  <2>1. T \in SUBSET Nat /\ T # {}
    BY <1>1
  <2>2. QED
    BY <2>1, MinNat
<1>3. ASSUME NEW j \in DOMAIN q, j < p
      PROVE  q[j].left <= delay
  BY <1>1, <1>2, <1>3
<1>4. ASSUME NEW j \in DOMAIN q, ~ (j < p)
      PROVE  q[j].left > delay
  <2>1. p \in DOMAIN q /\ q[p].left > delay
    BY <1>1, <1>4
  <2>2. CASE j = p
    BY <2>1, <2>2
  <2>3. CASE j > p
    <3>1. q[p].left <= q[j].left
      BY <2>1, <2>3 DEF Sorted
    <3>2. QED
      BY <1>1, <2>1, <3>1
  <2>4. QED
    BY <2>2, <2>3, <1>1, <1>4
<1>5. QED
  BY <1>1, <1>3, <1>4

(* SendEvent puts the event there, and the queue stays sorted. *)
LEMMA SendProperties ==
    ASSUME NEW q \in Seq(Event), Sorted(q),
           NEW id \in {"gc", "dump"}, NEW delay \in 0..(WordSize - 1)
    PROVE  /\ Send(q, id, delay) \in Seq(Event)
           /\ Sorted(Send(q, id, delay))
           /\ \E p \in 1..(Len(q) + 1) :
                 /\ Inserted(q, Send(q, id, delay), p, [id |-> id, left |-> delay])
                 /\ \A j \in DOMAIN q : q[j].left <= delay <=> j < p
<1>. DEFINE e == [id |-> id, left |-> delay]
            p == CHOOSE i \in 1..(Len(q) + 1) :
                     \A j \in DOMAIN q : q[j].left <= delay <=> j < i
            r == InsertAt(q, p, e)
<1>1. p \in 1..(Len(q) + 1) /\ \A j \in DOMAIN q : q[j].left <= delay <=> j < p
  BY PlaceExists
<1>2. e \in Event
  BY DEF Event
<1>3. Send(q, id, delay) = r
  BY DEF Send
<1>. HIDE DEF p, e
<1>4. /\ r \in Seq(Event) /\ Len(r) = Len(q) + 1
      /\ \A j \in 1..(Len(q) + 1) :
            r[j] = IF j < p THEN q[j] ELSE IF j = p THEN e ELSE q[j - 1]
  <2>1. p \in 1..(Len(q) + 1)
    BY <1>1
  <2>. HIDE DEF r
  <2>2. r = InsertAt(q, p, e)
    BY DEF r
  <2>3. /\ InsertAt(q, p, e) \in Seq(Event) /\ Len(InsertAt(q, p, e)) = Len(q) + 1
        /\ \A j \in 1..(Len(q) + 1) :
              InsertAt(q, p, e)[j] = IF j < p THEN q[j] ELSE IF j = p THEN e ELSE q[j - 1]
    BY <1>2, <2>1, InsertAtProperties, SMTT(60)
  <2>4. QED
    BY <2>2, <2>3
<1>. HIDE DEF r
<1>5. Inserted(q, r, p, e)
  BY <1>1, <1>4 DEF Inserted
<1>6. Sorted(r)
  <2>1. /\ Len(q) \in Nat /\ DOMAIN q = 1..Len(q) /\ DOMAIN r = 1..(Len(q) + 1)
        /\ \A i \in 1..Len(q) : q[i].left \in Nat
        /\ delay \in Nat /\ e.left = delay
    BY <1>4, QueueType, DelayAssumption DEF e
  <2>2. SUFFICES ASSUME NEW i \in 1..(Len(q) + 1), NEW j \in 1..(Len(q) + 1), i < j
                 PROVE  r[i].left <= r[j].left
    BY <2>1 DEF Sorted
  <2>3. CASE j < p
    <3>1. r[i] = q[i] /\ r[j] = q[j] /\ i \in DOMAIN q /\ j \in DOMAIN q
      BY <1>1, <1>4, <2>1, <2>2, <2>3
    <3>2. QED
      BY <2>2, <3>1 DEF Sorted
  <2>4. CASE j = p
    <3>1. r[i] = q[i] /\ r[j] = e /\ i \in DOMAIN q /\ i < p
      BY <1>1, <1>4, <2>1, <2>2, <2>4
    <3>2. QED
      BY <1>1, <2>1, <3>1
  <2>5. CASE p < j
    <3>1. r[j] = q[j - 1] /\ j - 1 \in DOMAIN q /\ ~ (j - 1 < p)
      BY <1>1, <1>4, <2>1, <2>2, <2>5
    <3>2. q[j - 1].left > delay
      BY <1>1, <2>1, <3>1
    <3>3. CASE i < p
      <4>1. r[i] = q[i] /\ i \in DOMAIN q
        BY <1>1, <1>4, <2>1, <2>2, <3>3
      <4>2. q[i].left <= delay
        BY <1>1, <3>3, <4>1
      <4>3. QED
        BY <2>1, <3>1, <3>2, <4>1, <4>2
    <3>4. CASE i = p
      <4>1. r[i] = e
        BY <1>1, <1>4, <2>1, <2>2, <3>4
      <4>2. QED
        BY <2>1, <3>1, <3>2, <4>1
    <3>5. CASE p < i
      <4>1. r[i] = q[i - 1] /\ i - 1 \in DOMAIN q /\ i - 1 < j - 1
        BY <1>1, <1>4, <2>1, <2>2, <3>5
      <4>2. QED
        BY <3>1, <4>1 DEF Sorted
    <3>6. QED
      BY <1>1, <2>1, <3>3, <3>4, <3>5
  <2>6. QED
    BY <1>1, <2>1, <2>3, <2>4, <2>5
<1>7. QED
  BY <1>1, <1>3, <1>4, <1>5, <1>6 DEF e

(* The queue without its first event. *)
LEMMA TailProperties ==
    ASSUME NEW q \in Seq(Event), q # <<>>
    PROVE  /\ Tail(q) \in Seq(Event) /\ Len(Tail(q)) = Len(q) - 1 /\ Len(q) \in Nat \ {0}
           /\ Head(q) = q[1] /\ 1 \in DOMAIN q
           /\ \A i \in 1..(Len(q) - 1) : Tail(q)[i] = q[i + 1]
           /\ Sorted(q) => Sorted(Tail(q))
<1>1. Len(q) \in Nat \ {0} /\ DOMAIN q = 1..Len(q)
  BY EmptySeq, LenProperties
<1>2. /\ Tail(q) \in Seq(Event) /\ Len(Tail(q)) = Len(q) - 1
      /\ \A i \in 1..(Len(q) - 1) : Tail(q)[i] = q[i + 1]
  BY HeadTailProperties
<1>3. Head(q) = q[1]
  BY <1>1
<1>4. ASSUME Sorted(q) PROVE Sorted(Tail(q))
  <2>1. DOMAIN Tail(q) = 1..(Len(q) - 1)
    BY <1>2, LenProperties
  <2>2. SUFFICES ASSUME NEW i \in 1..(Len(q) - 1), NEW j \in 1..(Len(q) - 1), i < j
                 PROVE  Tail(q)[i].left <= Tail(q)[j].left
    BY <2>1 DEF Sorted
  <2>3. i + 1 \in DOMAIN q /\ j + 1 \in DOMAIN q /\ i + 1 < j + 1
    BY <1>1, <2>2
  <2>4. q[i + 1].left <= q[j + 1].left
    BY <1>4, <2>3 DEF Sorted
  <2>5. QED
    BY <1>2, <2>2, <2>4
<1>5. QED
  BY <1>1, <1>2, <1>3, <1>4

-----------------------------------------------------------------------------
(* Counting events.                                                        *)

(* The positions of a queue are finitely many. *)
LEMMA PositionsFinite ==
    ASSUME NEW q \in Seq(Event), NEW id, NEW k
    PROVE  IsFiniteSet(Positions(q, id, k)) /\ Later(q, id, k) \in Nat
<1>1. Positions(q, id, k) \in SUBSET (1..Len(q)) /\ Len(q) \in Nat
  BY QueueType DEF Positions
<1>2. IsFiniteSet(1..Len(q))
  BY <1>1, FS_Interval
<1>3. IsFiniteSet(Positions(q, id, k))
  BY <1>1, <1>2, FS_Subset
<1>4. QED
  BY <1>3, FS_CardinalityType DEF Later

(* The first event is counted once, if it is of the kind that is counted. *)
LEMMA LaterHead ==
    ASSUME NEW q \in Seq(Event), q # <<>>, NEW id
    PROVE  Later(q, id, 1) = Later(q, id, 2) + IF Head(q).id = id THEN 1 ELSE 0
<1>1. Len(q) \in Nat \ {0} /\ DOMAIN q = 1..Len(q) /\ Head(q) = q[1]
  BY TailProperties, QueueType
<1>2. 1 \notin Positions(q, id, 2)
  BY DEF Positions
<1>3. CASE Head(q).id = id
  <2>1. Positions(q, id, 1) = Positions(q, id, 2) \cup {1}
    BY <1>1, <1>3 DEF Positions
  <2>2. QED
    BY <1>2, <1>3, <2>1, PositionsFinite, FS_AddElement DEF Later
<1>4. CASE Head(q).id # id
  <2>1. Positions(q, id, 1) = Positions(q, id, 2)
    BY <1>1, <1>4 DEF Positions
  <2>2. QED
    BY <1>4, <2>1, PositionsFinite DEF Later
<1>5. QED
  BY <1>3, <1>4

(* Without it, everything is one place further to the front. *)
LEMMA LaterTail ==
    ASSUME NEW q \in Seq(Event), q # <<>>, NEW id, NEW k \in Nat \ {0}
    PROVE  Later(Tail(q), id, k) = Later(q, id, k + 1)
<1>. DEFINE A == Positions(Tail(q), id, k)
            B == Positions(q, id, k + 1)
            f == [i \in A |-> i + 1]
<1>1. /\ Len(q) \in Nat \ {0} /\ DOMAIN q = 1..Len(q)
      /\ DOMAIN Tail(q) = 1..(Len(q) - 1)
      /\ \A i \in 1..(Len(q) - 1) : Tail(q)[i] = q[i + 1]
  BY TailProperties, QueueType
<1>2. /\ A = {i \in 1..(Len(q) - 1) : i >= k /\ q[i + 1].id = id}
      /\ B = {i \in 1..Len(q) : i >= k + 1 /\ q[i].id = id}
  BY <1>1 DEF Positions
<1>3. \A b \in B : b - 1 \in A /\ b = (b - 1) + 1
  <2>1. SUFFICES ASSUME NEW b \in B PROVE b - 1 \in A /\ b = (b - 1) + 1
    OBVIOUS
  <2>2. /\ b \in Int /\ b <= Len(q) /\ b >= k + 1 /\ q[b].id = id
    BY <1>1, <1>2
  <2>3. b - 1 \in 1..(Len(q) - 1) /\ b - 1 >= k /\ (b - 1) + 1 = b
    BY <1>1, <2>2
  <2>4. QED
    BY <1>2, <2>2, <2>3
<1>4. f \in Bijection(A, B)
  <2>1. f \in [A -> B]
    BY <1>1, <1>2
  <2>2. \A a, b \in A : f[a] = f[b] => a = b
    BY <1>1, <1>2
  <2>3. \A b \in B : \E a \in A : f[a] = b
    BY <1>3
  <2>4. QED
    BY <2>1, <2>2, <2>3 DEF Bijection, Injection, Surjection, IsInjective
<1>5. ExistsBijection(A, B)
  BY <1>4 DEF ExistsBijection
<1>6. IsFiniteSet(A)
  BY TailProperties, PositionsFinite
<1>7. QED
  BY <1>5, <1>6, FS_Bijection DEF Later

(* Behind an inserted event everything is one place further to the back. *)
LEMMA LaterBehind ==
    ASSUME NEW q \in Seq(Event), NEW r, NEW p, NEW e, Inserted(q, r, p, e),
           NEW id, NEW k \in p + 1 .. Len(q) + 2
    PROVE  Later(r, id, k) = Later(q, id, k - 1)
<1>. DEFINE A == Positions(q, id, k - 1)
            B == Positions(r, id, k)
            f == [i \in A |-> i + 1]
<1>1. /\ Len(q) \in Nat /\ DOMAIN q = 1..Len(q) /\ p \in 1..(Len(q) + 1)
      /\ DOMAIN r = 1..(Len(q) + 1) /\ k \in Int /\ k > p
      /\ \A j \in 1..(Len(q) + 1) : j > p => r[j] = q[j - 1]
  BY QueueType, LenProperties DEF Inserted
<1>2. /\ A = {i \in 1..Len(q) : i >= k - 1 /\ q[i].id = id}
      /\ B = {i \in 1..(Len(q) + 1) : i >= k /\ q[i - 1].id = id}
  BY <1>1 DEF Positions
<1>3. \A b \in B : b - 1 \in A /\ b = (b - 1) + 1
  <2>1. SUFFICES ASSUME NEW b \in B PROVE b - 1 \in A /\ b = (b - 1) + 1
    OBVIOUS
  <2>2. /\ b \in Int /\ b <= Len(q) + 1 /\ b >= k /\ q[b - 1].id = id
    BY <1>1, <1>2
  <2>3. b - 1 \in 1..Len(q) /\ b - 1 >= k - 1 /\ (b - 1) + 1 = b
    BY <1>1, <2>2
  <2>4. QED
    BY <1>2, <2>2, <2>3
<1>4. f \in Bijection(A, B)
  <2>1. ASSUME NEW a \in A PROVE a + 1 \in B
    <3>1. a \in Int /\ a + 1 \in 1..(Len(q) + 1) /\ a + 1 >= k /\ (a + 1) - 1 = a
      BY <1>1, <1>2
    <3>2. q[(a + 1) - 1].id = id
      BY <1>2, <3>1
    <3>3. QED
      BY <1>2, <3>1, <3>2
  <2>2. \A a, b \in A : f[a] = f[b] => a = b
    BY <1>1, <1>2
  <2>3. \A b \in B : \E a \in A : f[a] = b
    BY <1>3
  <2>4. QED
    BY <2>1, <2>2, <2>3 DEF Bijection, Injection, Surjection, IsInjective
<1>5. ExistsBijection(A, B)
  BY <1>4 DEF ExistsBijection
<1>6. IsFiniteSet(A)
  BY PositionsFinite
<1>7. QED
  BY <1>5, <1>6, FS_Bijection DEF Later

(* From a place before it on, it is counted in. *)
LEMMA LaterBefore ==
    ASSUME NEW q \in Seq(Event), NEW r, NEW p, NEW e, Inserted(q, r, p, e),
           NEW id, NEW k \in 1..p
    PROVE  Later(r, id, k) = Later(q, id, k) + IF e.id = id THEN 1 ELSE 0
<1>. DEFINE A == Positions(q, id, k)
            B == Positions(r, id, k) \ {p}
            f == [i \in A |-> IF i < p THEN i ELSE i + 1]
<1>1. /\ Len(q) \in Nat /\ DOMAIN q = 1..Len(q) /\ p \in 1..(Len(q) + 1)
      /\ DOMAIN r = 1..(Len(q) + 1) /\ k \in Int /\ k <= p /\ k >= 1
      /\ \A j \in 1..(Len(q) + 1) : j < p => r[j] = q[j]
      /\ \A j \in 1..(Len(q) + 1) : j > p => r[j] = q[j - 1]
      /\ r[p] = e /\ r \in Seq(Event)
  BY QueueType, LenProperties DEF Inserted
<1>2. \A i : i \in A <=> i \in 1..Len(q) /\ i >= k /\ q[i].id = id
  BY <1>1 DEF Positions
<1>3. \A i : i \in B <=> i \in 1..(Len(q) + 1) /\ i # p /\ i >= k /\ r[i].id = id
  BY <1>1 DEF Positions
<1>4. f \in Bijection(A, B)
  <2>1. ASSUME NEW a \in A PROVE f[a] \in B
    <3>0. a \in 1..Len(q) /\ a \in Int /\ a >= k /\ q[a].id = id
      BY <1>1, <1>2
    <3>1. CASE a < p
      <4>1. f[a] = a /\ a \in 1..(Len(q) + 1) /\ r[a] = q[a]
        BY <1>1, <3>0, <3>1
      <4>2. QED
        BY <1>3, <3>0, <3>1, <4>1
    <3>2. CASE ~ (a < p)
      <4>1. /\ f[a] = a + 1 /\ a + 1 \in 1..(Len(q) + 1) /\ a + 1 > p
            /\ (a + 1) - 1 = a /\ a + 1 >= k
        BY <1>1, <3>0, <3>2
      <4>2. r[a + 1] = q[a]
        BY <1>1, <4>1
      <4>3. QED
        BY <1>1, <1>3, <3>0, <4>1, <4>2
    <3>3. QED
      BY <3>1, <3>2
  <2>2. \A a, b \in A : f[a] = f[b] => a = b
    BY <1>1, <1>2
  <2>3. ASSUME NEW b \in B PROVE \E a \in A : f[a] = b
    <3>0. b \in 1..(Len(q) + 1) /\ b \in Int /\ b # p /\ b >= k /\ r[b].id = id
      BY <1>1, <1>3
    <3>1. CASE b < p
      <4>1. b \in 1..Len(q) /\ r[b] = q[b]
        BY <1>1, <3>0, <3>1
      <4>2. b \in A
        BY <1>2, <3>0, <4>1
      <4>3. QED
        BY <3>1, <4>2
    <3>2. CASE b > p
      <4>1. b - 1 \in 1..Len(q) /\ r[b] = q[b - 1] /\ b - 1 >= k
            /\ ~ (b - 1 < p) /\ (b - 1) + 1 = b
        BY <1>1, <3>0, <3>2
      <4>2. b - 1 \in A
        BY <1>2, <3>0, <4>1
      <4>3. f[b - 1] = b
        BY <4>1, <4>2
      <4>4. QED
        BY <4>2, <4>3
    <3>3. QED
      BY <1>1, <3>0, <3>1, <3>2
  <2>4. f \in [A -> B]
    BY <2>1
  <2>5. QED
    BY <2>2, <2>3, <2>4 DEF Bijection, Injection, Surjection, IsInjective
<1>5. ExistsBijection(A, B)
  BY <1>4 DEF ExistsBijection
<1>6. IsFiniteSet(A) /\ Cardinality(A) \in Nat
  BY PositionsFinite DEF Later
<1>. HIDE DEF f
<1>7. Cardinality(B) = Cardinality(A)
  BY <1>5, <1>6, FS_Bijection
<1>8. /\ IsFiniteSet(Positions(r, id, k)) /\ Cardinality(Positions(r, id, k)) \in Nat
      /\ p \in Positions(r, id, k) <=> e.id = id
  BY <1>1, PositionsFinite DEF Later, Positions
<1>9. Cardinality(B) = IF p \in Positions(r, id, k)
                       THEN Cardinality(Positions(r, id, k)) - 1
                       ELSE Cardinality(Positions(r, id, k))
  BY <1>8, FS_RemoveElement
<1>10. QED
  BY <1>6, <1>7, <1>8, <1>9 DEF Later

(* SendEvent adds one event of its kind. *)
LEMMA SendCounts ==
    ASSUME NEW q \in Seq(Event), Sorted(q), NEW id,
           NEW sent \in {"gc", "dump"}, NEW delay \in 0..(WordSize - 1)
    PROVE  Later(Send(q, sent, delay), id, 1)
               = Later(q, id, 1) + IF sent = id THEN 1 ELSE 0
<1>1. PICK p \in 1..(Len(q) + 1) :
          Inserted(q, Send(q, sent, delay), p, [id |-> sent, left |-> delay])
  BY SendProperties
<1>2. 1 \in 1..p
  BY QueueType
<1>3. [id |-> sent, left |-> delay].id = sent
  OBVIOUS
<1>4. QED
  BY <1>1, <1>2, <1>3, LaterBefore

(* Each DUMP event keeps its GC event when the first event is taken ... *)
LEMMA MatchedTail ==
    ASSUME NEW q \in Seq(Event), q # <<>>, Matched(q)
    PROVE  Matched(Tail(q))
<1>1. Len(Tail(q)) = Len(q) - 1 /\ Len(q) \in Nat \ {0}
  BY TailProperties
<1>2. SUFFICES ASSUME NEW k \in 1..Len(q)
               PROVE  Later(Tail(q), "dump", k) <= Later(Tail(q), "gc", k)
  BY <1>1 DEF Matched
<1>3. k \in Nat \ {0} /\ k + 1 \in 1..(Len(q) + 1)
  BY <1>1, <1>2
<1>4. QED
  BY <1>3, LaterTail DEF Matched

(* ... when a GC event is sent ... *)
LEMMA MatchedGc ==
    ASSUME NEW q \in Seq(Event), Sorted(q), Matched(q), NEW delay \in 0..(WordSize - 1)
    PROVE  Matched(Send(q, "gc", delay))
<1>. DEFINE r == Send(q, "gc", delay)
<1>1. PICK p \in 1..(Len(q) + 1) : Inserted(q, r, p, [id |-> "gc", left |-> delay])
  BY SendProperties
<1>2. Len(r) = Len(q) + 1 /\ Len(q) \in Nat /\ r \in Seq(Event)
  BY <1>1, QueueType DEF Inserted
<1>. HIDE DEF r
<1>3. SUFFICES ASSUME NEW k \in 1..(Len(q) + 2)
               PROVE  Later(r, "dump", k) <= Later(r, "gc", k)
  BY <1>2 DEF Matched, r
<1>4. CASE k <= p
  <2>1. k \in 1..p /\ k \in 1..(Len(q) + 1)
    BY <1>1, <1>2, <1>4
  <2>2. Later(r, "dump", k) = Later(q, "dump", k) /\ Later(r, "gc", k) = Later(q, "gc", k) + 1
    BY <1>1, <2>1, LaterBefore, PositionsFinite
  <2>3. QED
    BY <2>1, <2>2, PositionsFinite DEF Matched
<1>5. CASE k > p
  <2>1. k \in p + 1 .. Len(q) + 2 /\ k - 1 \in 1..(Len(q) + 1)
    BY <1>1, <1>2, <1>5
  <2>2. QED
    BY <1>1, <2>1, LaterBehind DEF Matched
<1>6. QED
  BY <1>1, <1>2, <1>4, <1>5

(* ... and when a round sends both, with the shorter delay for its DUMP.   *)
LEMMA MatchedRound ==
    ASSUME NEW q \in Seq(Event), Sorted(q), Matched(q),
           NEW g \in 0..(WordSize - 1), NEW d \in 0..(WordSize - 1), d < g
    PROVE  Matched(Send(Send(q, "gc", g), "dump", d))
<1>. DEFINE r == Send(q, "gc", g)
            s == Send(r, "dump", d)
<1>1. PICK p \in 1..(Len(q) + 1) : Inserted(q, r, p, [id |-> "gc", left |-> g])
  BY SendProperties
<1>2. r \in Seq(Event) /\ Sorted(r) /\ Matched(r)
  BY SendProperties, MatchedGc
<1>3. Len(r) = Len(q) + 1 /\ Len(q) \in Nat /\ r[p] = [id |-> "gc", left |-> g]
  BY <1>1, QueueType DEF Inserted
<1>. HIDE DEF r
<1>4. PICK p2 \in 1..(Len(r) + 1) :
          /\ Inserted(r, s, p2, [id |-> "dump", left |-> d])
          /\ \A j \in DOMAIN r : r[j].left <= d <=> j < p2
  BY <1>2, SendProperties
<1>5. p2 <= p
  <2>1. p \in DOMAIN r /\ r[p].left = g
    BY <1>1, <1>2, <1>3, QueueType
  <2>2. ~ (r[p].left <= d)
    BY <2>1, DelayAssumption
  <2>3. ~ (p < p2)
    BY <1>4, <2>1, <2>2
  <2>4. QED
    BY <1>1, <1>3, <1>4, <2>3
<1>6. Len(s) = Len(q) + 2 /\ s \in Seq(Event)
  BY <1>3, <1>4 DEF Inserted
<1>. HIDE DEF s
<1>7. SUFFICES ASSUME NEW k \in 1..(Len(q) + 3)
               PROVE  Later(s, "dump", k) <= Later(s, "gc", k)
  BY <1>3, <1>6 DEF Matched, r, s
<1>8. CASE k <= p2
  <2>1. k \in 1..p2 /\ k \in 1..p /\ k \in 1..(Len(q) + 1)
    BY <1>1, <1>3, <1>4, <1>5, <1>8
  <2>2. Later(s, "dump", k) = Later(r, "dump", k) + 1 /\ Later(s, "gc", k) = Later(r, "gc", k)
    <3>1. \A id : Later(s, id, k) = Later(r, id, k)
                   + IF [id |-> "dump", left |-> d].id = id THEN 1 ELSE 0
      BY <1>2, <1>4, <2>1, LaterBefore
    <3>2. Later(r, "gc", k) \in Nat
      BY <1>2, PositionsFinite
    <3>3. QED
      BY <3>1, <3>2
  <2>3. Later(r, "dump", k) = Later(q, "dump", k) /\ Later(r, "gc", k) = Later(q, "gc", k) + 1
    BY <1>1, <2>1, LaterBefore, PositionsFinite
  <2>4. QED
    BY <2>1, <2>2, <2>3, PositionsFinite DEF Matched
<1>9. CASE k > p2
  <2>1. k \in p2 + 1 .. Len(r) + 2 /\ k - 1 \in 1..(Len(r) + 1)
    BY <1>3, <1>4, <1>9
  <2>2. QED
    BY <1>2, <1>4, <2>1, LaterBehind DEF Matched
<1>10. QED
  BY <1>3, <1>4, <1>8, <1>9

-----------------------------------------------------------------------------
(* The inductive invariant.                                                *)

(* In a session that did not overlap an older one only GC events are due   *)
(* before the first of them has run.                                       *)
FirstIsGc ==
    (~overlapped /\ isRunning /\ ~gcDone) =>
        \A i \in DOMAIN pending : pending[i].id = "gc"

(* Such a session has one GC event, whatever its delays. *)
OneGc == (~overlapped /\ isRunning) => Count("gc") = 1

BaseInv == TypeOK /\ TasksAreCurrent /\ GcScheduled /\ FirstIsGc /\ DumpAfterGc /\ OneGc

(* The delays that setGcDelayAndDumpDelay and the native defaults mean. *)
DelaysFit ==
    /\ ~inverted => dumpDelay < gcDelay
    /\ ~shortened => MinCheckInterval <= gcDelay

(* With delays in order a session that did not overlap an older one has one *)
(* chain of events: the next GC event, with the DUMP event of the round     *)
(* before it if that has not run.                                           *)
OneChain ==
    (~overlapped /\ ~inverted /\ isRunning) =>
        \/ /\ Len(pending) = 1 /\ pending[1].id = "gc"
           /\ ~ (ran.task = "gc" /\ ran.session = session)
        \/ Len(pending) = 2 /\ pending[1].id = "dump" /\ pending[2].id = "gc"

(* The next check is not due before MIN_CHECK_INTERVAL after the last one. *)
Spaced ==
    (~overlapped /\ ~shortened /\ isRunning) =>
        \A i \in DOMAIN pending :
            pending[i].id = "gc" => pending[i].left + sinceGc >= MinCheckInterval

InOrder == ~inverted => Matched(pending)

FitInv == DelaysFit /\ InOrder /\ OneChain /\ Spaced

(* Count is Later from the first place on. *)
LEMMA CountIsLater ==
    ASSUME NEW q \in Seq(Event), NEW id
    PROVE  Cardinality({i \in DOMAIN q : q[i].id = id}) = Later(q, id, 1)
<1>1. {i \in DOMAIN q : q[i].id = id} = Positions(q, id, 1)
  BY QueueType DEF Positions
<1>2. QED
  BY <1>1 DEF Later

(* What the type invariant says, in the terms of the lemmas. *)
LEMMA TypeFacts ==
    ASSUME TypeOK
    PROVE  /\ pending \in Seq(Event) /\ Sorted(pending)
           /\ gcDelay \in 0..(WordSize - 1) /\ dumpDelay \in 0..(WordSize - 1)
           /\ \A id : Count(id) = Later(pending, id, 1)
<1>1. pending \in Seq(Event) /\ Sorted(pending)
  BY DEF TypeOK, Event, Sorted
<1>2. gcDelay \in 0..(WordSize - 1) /\ dumpDelay \in 0..(WordSize - 1)
  BY DEF TypeOK
<1>3. QED
  BY <1>1, <1>2, CountIsLater DEF Count

(* A uint32_t is below WordSize, whatever number it is made of, and a whole *)
(* number below WordSize is kept.                                           *)
LEMMA Uint32Type ==
    /\ \A n \in Int : Uint32(n) \in 0..(WordSize - 1)
    /\ \A n \in Nat : n < WordSize => Uint32(Number(n)) = n
<1>1. ASSUME NEW m \in Int PROVE m % WordSize \in 0..(WordSize - 1)
  BY DelayAssumption
<1>2. ASSUME NEW n \in Int PROVE Uint32(n) \in 0..(WordSize - 1)
  <2>. DEFINE whole == IF n >= 0 THEN n \div 2 ELSE -((-n) \div 2)
  <2>1. whole \in Int
    OBVIOUS
  <2>2. Uint32(n) = whole % WordSize
    BY DEF Uint32
  <2>. HIDE DEF whole
  <2>3. QED
    BY <1>1, <2>1, <2>2
<1>3. ASSUME NEW n \in Nat, n < WordSize PROVE Uint32(Number(n)) = n
  <2>1. 2 * n \in Nat /\ (2 * n) \div 2 = n
    OBVIOUS
  <2>2. Uint32(2 * n) = n % WordSize
    BY <2>1 DEF Uint32
  <2>3. n % WordSize = n
    BY <1>3, DelayAssumption
  <2>4. QED
    BY <2>2, <2>3 DEF Number
<1>4. QED
  BY <1>2, <1>3

(* The delays of any configuration fit a uint32_t, and are as              *)
(* setGcDelayAndDumpDelay wants them unless the history says otherwise.    *)
LEMMA TakeConfigType ==
    ASSUME TypeOK, TakeConfig
    PROVE  /\ gcDelay' \in 0..(WordSize - 1) /\ dumpDelay' \in 0..(WordSize - 1)
           /\ inverted' \in BOOLEAN /\ shortened' \in BOOLEAN
           /\ (inverted => inverted') /\ (shortened => shortened')
           /\ DelaysFit => DelaysFit'
<1>1. CASE UNCHANGED <<delayVars, wrapVars>>
  BY <1>1 DEF delayVars, wrapVars, TypeOK, DelaysFit
<1>2. CASE \E config \in ObjectConfigs :
               SetGcDelayAndDumpDelay(config) /\ RecordWrap(config)
  <2>1. PICK config \in ObjectConfigs :
            SetGcDelayAndDumpDelay(config) /\ RecordWrap(config)
    BY <1>2
  <2>2. /\ config.interval \in Int /\ config.wait \in Int
        /\ MinCheckInterval \in Nat /\ DefaultDumpWait \in Nat /\ WordSize \in Nat
        /\ DefaultDumpWait < MinCheckInterval /\ MinCheckInterval < WordSize
    BY ArgumentAssumption, DelayAssumption
  <2>3. /\ inverted' \in BOOLEAN /\ shortened' \in BOOLEAN
        /\ (inverted => inverted') /\ (shortened => shortened')
    BY <2>1 DEF RecordWrap
  <2>4. CASE Accepted(config)
    <3>1. gcDelay' = Uint32(config.interval) /\ dumpDelay' = Uint32(config.wait)
      BY <2>1, <2>4 DEF SetGcDelayAndDumpDelay, SetDelays
    <3>2. /\ ~inverted' => ~ (gcDelay' <= dumpDelay')
          /\ ~shortened' => ~ (gcDelay' < MinCheckInterval)
      BY <2>1, <2>4, <3>1 DEF RecordWrap
    <3>3. gcDelay' \in 0..(WordSize - 1) /\ dumpDelay' \in 0..(WordSize - 1)
      BY <2>2, <3>1, Uint32Type
    <3>4. QED
      BY <2>2, <2>3, <3>2, <3>3 DEF DelaysFit
  <2>5. CASE ~Accepted(config)
    <3>1. gcDelay' = MinCheckInterval /\ dumpDelay' = DefaultDumpWait
      BY <2>1, <2>2, <2>5, Uint32Type
         DEF SetGcDelayAndDumpDelay, SetDefaultDelays, SetDelays
    <3>2. QED
      BY <2>2, <2>3, <3>1 DEF DelaysFit
  <2>6. QED
    BY <2>4, <2>5
<1>3. QED
  BY <1>1, <1>2 DEF TakeConfig

(* The initial states. *)
LEMMA InitInv == Init => BaseInv /\ FitInv
<1>. SUFFICES ASSUME Init PROVE BaseInv /\ FitInv
  OBVIOUS
<1>. USE DEF Init, NoRef
<1>1. TypeOK
  <2>1. pending \in Seq([id : {"gc", "dump"}, left : 0..(WordSize - 1)])
    OBVIOUS
  <2>2. DOMAIN pending = {}
    OBVIOUS
  <2>3. /\ NativeGcDelay \in 0..(WordSize - 1) /\ NativeDumpDelay \in 0..(WordSize - 1)
        /\ sinceGc \in 0..MaxWait /\ session \in 0..MaxSessions /\ 0 \in 0..session
    BY DelayAssumption, BoundAssumption
  <2>4. ran \in [task : {"none", "gc", "dump", "dropped"}, session : 0..session]
    BY <2>3
  <2>5. QED
    BY <2>1, <2>2, <2>3, <2>4 DEF TypeOK
<1>2. TasksAreCurrent /\ GcScheduled /\ FirstIsGc /\ DumpAfterGc /\ OneGc
  BY DEF TasksAreCurrent, GcScheduled, FirstIsGc, DumpAfterGc, OneGc
<1>3. DelaysFit
  BY DelayAssumption DEF DelaysFit
<1>4. Matched(pending)
  <2>1. \A id : Positions(<<>>, id, 1) = {}
    BY DEF Positions
  <2>2. \A id : Later(<<>>, id, 1) = 0
    BY <2>1, FS_EmptySet DEF Later
  <2>3. QED
    BY <2>2 DEF Matched
<1>5. OneChain /\ Spaced
  BY DEF OneChain, Spaced
<1>6. QED
  BY <1>1, <1>2, <1>3, <1>4, <1>5 DEF BaseInv, FitInv, InOrder

(* A step that moves neither events nor tasks nor sessions. *)
Quiet ==
    /\ UNCHANGED <<handlerVars, pending, session, history>>
    /\ enabled' \in BOOLEAN /\ refused' \in BOOLEAN
    /\ gcDelay' \in 0..(WordSize - 1) /\ dumpDelay' \in 0..(WordSize - 1)
    /\ inverted' \in BOOLEAN /\ shortened' \in BOOLEAN
    /\ (inverted => inverted') /\ (shortened => shortened')

LEMMA QuietStep ==
    ASSUME BaseInv, Quiet
    PROVE  BaseInv' /\ (FitInv /\ DelaysFit' => FitInv')
<1>. USE DEF Quiet, handlerVars, history
<1>1. TypeOK'
  BY DEF BaseInv, TypeOK
<1>2. TasksAreCurrent' /\ GcScheduled' /\ FirstIsGc' /\ DumpAfterGc' /\ OneGc'
  BY DEF BaseInv, TasksAreCurrent, GcScheduled, FirstIsGc, DumpAfterGc, OneGc, Count
<1>3. FitInv => InOrder' /\ OneChain' /\ Spaced'
  BY DEF FitInv, InOrder, OneChain, Spaced
<1>4. QED
  BY <1>1, <1>2, <1>3 DEF BaseInv, FitInv

(* A session starts: one GC event, and whatever an older session has left. *)
LEMMA EnableLeakWatcherStep ==
    ASSUME BaseInv, EnableLeakWatcher
    PROVE  BaseInv' /\ (FitInv => FitInv')
<1>. DEFINE q == Send(pending, "gc", gcDelay')
<1>1. /\ pending \in Seq(Event) /\ Sorted(pending)
      /\ \A id : Count(id) = Later(pending, id, 1)
  BY TypeFacts DEF BaseInv
<1>2. /\ gcDelay' \in 0..(WordSize - 1) /\ dumpDelay' \in 0..(WordSize - 1)
      /\ inverted' \in BOOLEAN /\ shortened' \in BOOLEAN
      /\ (inverted => inverted') /\ (shortened => shortened')
      /\ DelaysFit => DelaysFit'
  BY TakeConfigType DEF BaseInv, EnableLeakWatcher
<1>3. q \in Seq(Event) /\ Sorted(q)
  BY <1>1, <1>2, SendProperties
<1>4. PICK p \in 1..(Len(pending) + 1) :
          Inserted(pending, q, p, [id |-> "gc", left |-> gcDelay'])
  BY <1>1, <1>2, SendProperties
<1>5. /\ enabled' = TRUE /\ isRunning' = TRUE /\ session' = session + 1
      /\ gcRef' = session + 1 /\ dumpRef' = session + 1 /\ shutdownRef' = session + 1
      /\ pending' = q /\ gcDone' = FALSE
      /\ overlapped' = (overlapped \/ pending # <<>>)
      /\ sinceGc' = MaxWait /\ refused' = FALSE /\ ran' = ran
      /\ session < MaxSessions
  BY DEF EnableLeakWatcher, StartTasks
<1>. HIDE DEF q
<1>6. /\ session \in Nat /\ session + 1 \in 0..MaxSessions
      /\ ran.session \in 0..session /\ MaxWait \in Nat
  BY <1>5, BoundAssumption DEF BaseInv, TypeOK
<1>7. TypeOK'
  <2>1. ran' \in [task : {"none", "gc", "dump", "dropped"}, session : 0..session']
    BY <1>5, <1>6 DEF BaseInv, TypeOK
  <2>2. /\ session' \in 0..MaxSessions /\ {gcRef', dumpRef', shutdownRef'} \subseteq 0..session'
        /\ sinceGc' \in 0..MaxWait
    BY <1>5, <1>6
  <2>3. overlapped' \in BOOLEAN
    BY <1>5 DEF BaseInv, TypeOK
  <2>4. QED
    BY <1>2, <1>3, <1>5, <2>1, <2>2, <2>3 DEF TypeOK, Event, Sorted
<1>8. TasksAreCurrent'
  BY <1>5, <1>6 DEF TasksAreCurrent, NoRef
<1>9. GcScheduled'
  <2>1. Later(q, "gc", 1) = Later(pending, "gc", 1) + 1
    BY <1>1, <1>2, SendCounts DEF q
  <2>2. Later(pending, "gc", 1) \in Nat
    BY <1>1, PositionsFinite
  <2>3. Count("gc")' = Later(q, "gc", 1)
    BY <1>3, <1>5, CountIsLater DEF Count
  <2>4. QED
    BY <2>1, <2>2, <2>3 DEF GcScheduled
<1>10. ~overlapped' => Len(q) = 1 /\ DOMAIN q = {1} /\ q[1] = [id |-> "gc", left |-> gcDelay']
  <2>1. SUFFICES ASSUME pending = <<>>
                 PROVE  Len(q) = 1 /\ DOMAIN q = {1} /\ q[1] = [id |-> "gc", left |-> gcDelay']
    BY <1>5
  <2>2. Len(pending) = 0
    BY <2>1
  <2>3. p = 1 /\ Len(q) = 1
    BY <1>4, <2>2 DEF Inserted
  <2>4. q[1] = [id |-> "gc", left |-> gcDelay']
    BY <1>4, <2>2, <2>3 DEF Inserted
  <2>5. DOMAIN q = {1}
    BY <1>3, <2>3, QueueType
  <2>6. QED
    BY <2>3, <2>4, <2>5
<1>11. FirstIsGc'
  BY <1>5, <1>10 DEF FirstIsGc
<1>12. DumpAfterGc' /\ OneGc'
  <2>1. pending = <<>> => Later(pending, "gc", 1) = 0
    BY FS_EmptySet DEF Later, Positions
  <2>2. Later(q, "gc", 1) = Later(pending, "gc", 1) + 1
    BY <1>1, <1>2, SendCounts DEF q
  <2>3. Count("gc")' = Later(q, "gc", 1)
    BY <1>3, <1>5, CountIsLater DEF Count
  <2>4. ~overlapped' => Count("gc")' = 1
    <3>1. ~overlapped' => pending = <<>>
      BY <1>5
    <3>2. pending = <<>> => Count("gc")' = 1
      BY <2>1, <2>2, <2>3
    <3>3. QED
      BY <3>1, <3>2
  <2>5. QED
    BY <1>5, <1>6, <2>4 DEF DumpAfterGc, OneGc
<1>13. ASSUME FitInv PROVE FitInv'
  <2>1. DelaysFit'
    BY <1>2, <1>13 DEF FitInv
  <2>2. InOrder'
    BY <1>1, <1>2, <1>5, <1>13, MatchedGc DEF FitInv, InOrder, q
  <2>3. OneChain'
    BY <1>5, <1>6, <1>10 DEF OneChain
  <2>4. Spaced'
    <3>1. MaxWait >= MinCheckInterval /\ MinCheckInterval \in Nat
      BY BoundAssumption, DelayAssumption
    <3>2. \A i \in DOMAIN q : q[i].left \in Nat
      BY <1>3, QueueType, DelayAssumption
    <3>3. QED
      BY <1>5, <1>6, <3>1, <3>2 DEF Spaced
  <2>5. QED
    BY <2>1, <2>2, <2>3, <2>4 DEF FitInv
<1>14. QED
  BY <1>7, <1>8, <1>9, <1>11, <1>12, <1>13 DEF BaseInv

(* A session stops.  Its events stay. *)
LEMMA DisableLeakWatcherStep ==
    ASSUME BaseInv, DisableLeakWatcher
    PROVE  BaseInv' /\ (FitInv => FitInv')
<1>1. /\ enabled' = FALSE /\ isRunning' = FALSE
      /\ gcRef' = 0 /\ dumpRef' = 0 /\ shutdownRef' = 0
      /\ pending' = pending /\ refused' = FALSE
      /\ UNCHANGED <<delayVars, session, history, wrapVars>>
  BY DEF DisableLeakWatcher, RemoveTask, NoRef
<1>2. TypeOK'
  <2>1. 0 \in 0..session
    BY BoundAssumption DEF BaseInv, TypeOK
  <2>2. QED
    BY <1>1, <2>1 DEF BaseInv, TypeOK, delayVars, history, wrapVars
<1>3. TasksAreCurrent' /\ GcScheduled' /\ FirstIsGc' /\ DumpAfterGc' /\ OneGc'
  BY <1>1 DEF BaseInv, TasksAreCurrent, GcScheduled, FirstIsGc, DumpAfterGc, OneGc, history
<1>4. FitInv => FitInv'
  BY <1>1 DEF FitInv, DelaysFit, InOrder, OneChain, Spaced, delayVars, wrapVars
<1>5. QED
  BY <1>2, <1>3, <1>4 DEF BaseInv

(* Time passes, for all events alike. *)
LEMMA TickStep ==
    ASSUME BaseInv, Tick
    PROVE  BaseInv' /\ (FitInv => FitInv')
<1>1. /\ UNCHANGED <<jsVars, handlerVars, delayVars, session, ran, gcDone,
                     overlapped, wrapVars, refused>>
      /\ pending' = [i \in DOMAIN pending |->
                        [pending[i] EXCEPT !.left = IF @ > 0 THEN @ - 1 ELSE 0]]
      /\ sinceGc' = IF sinceGc < MaxWait THEN sinceGc + 1 ELSE MaxWait
  BY DEF Tick
<1>2. /\ pending \in Seq(Event) /\ Sorted(pending)
      /\ \A id : Count(id) = Later(pending, id, 1)
  BY TypeFacts DEF BaseInv
<1>3. /\ Len(pending) \in Nat /\ DOMAIN pending = 1..Len(pending)
      /\ \A i \in 1..Len(pending) :
            /\ pending[i] \in Event /\ pending[i].id \in {"gc", "dump"}
            /\ pending[i].left \in 0..(WordSize - 1)
  BY <1>2, QueueType
<1>4. /\ DOMAIN pending' = 1..Len(pending)
      /\ \A i \in 1..Len(pending) :
            /\ pending'[i] \in Event
            /\ pending'[i].id = pending[i].id
            /\ pending'[i].left = IF pending[i].left > 0 THEN pending[i].left - 1 ELSE 0
  <2>1. ASSUME NEW i \in 1..Len(pending)
        PROVE  pending'[i] = [id |-> pending[i].id,
                              left |-> IF pending[i].left > 0 THEN pending[i].left - 1 ELSE 0]
    BY <1>1, <1>3 DEF Event
  <2>2. QED
    BY <1>1, <1>3, <2>1, DelayAssumption DEF Event
<1>5. pending' \in Seq(Event) /\ Len(pending') = Len(pending)
  <2>1. pending' \in [1..Len(pending) -> Event]
    BY <1>1, <1>3, <1>4
  <2>2. pending' \in Seq(Event)
    BY <1>3, <2>1, SeqDef
  <2>3. QED
    BY <1>3, <1>4, <2>2, QueueType
<1>6. Sorted(pending')
  BY <1>2, <1>3, <1>4 DEF Sorted
<1>7. \A id, k : Later(pending', id, k) = Later(pending, id, k)
  <2>1. \A id, k : Positions(pending', id, k) = Positions(pending, id, k)
    BY <1>3, <1>4 DEF Positions
  <2>2. QED
    BY <2>1 DEF Later
<1>8. sinceGc' \in 0..MaxWait
  BY <1>1, BoundAssumption DEF BaseInv, TypeOK
<1>9. TypeOK'
  BY <1>1, <1>5, <1>6, <1>8
     DEF BaseInv, TypeOK, Event, Sorted, jsVars, handlerVars, delayVars, wrapVars
<1>10. TasksAreCurrent' /\ DumpAfterGc'
  BY <1>1 DEF BaseInv, TasksAreCurrent, DumpAfterGc, handlerVars
<1>11. GcScheduled' /\ OneGc'
  <2>1. Count("gc")' = Later(pending', "gc", 1)
    BY <1>5, CountIsLater DEF Count
  <2>2. Count("gc") = Later(pending, "gc", 1)
    BY <1>2
  <2>3. Count("gc")' = Count("gc")
    BY <1>7, <2>1, <2>2
  <2>4. QED
    BY <1>1, <2>3 DEF BaseInv, GcScheduled, OneGc, handlerVars
<1>12. FirstIsGc'
  BY <1>1, <1>3, <1>4 DEF BaseInv, FirstIsGc, handlerVars
<1>13. ASSUME FitInv PROVE FitInv'
  <2>1. DelaysFit'
    BY <1>1, <1>13 DEF FitInv, DelaysFit, delayVars, wrapVars
  <2>2. InOrder'
    BY <1>1, <1>5, <1>7, <1>13 DEF FitInv, InOrder, Matched, wrapVars
  <2>3. OneChain'
    BY <1>1, <1>3, <1>4, <1>5, <1>13 DEF FitInv, OneChain, handlerVars, wrapVars
  <2>4. Spaced'
    <3>1. SUFFICES ASSUME ~overlapped, ~shortened, isRunning,
                          NEW i \in 1..Len(pending),
                          pending'[i].id = "gc"
                   PROVE  pending'[i].left + sinceGc' >= MinCheckInterval
      BY <1>1, <1>4 DEF Spaced, handlerVars, wrapVars
    <3>2. pending[i].left + sinceGc >= MinCheckInterval
      BY <1>3, <1>4, <1>13, <3>1 DEF FitInv, Spaced
    <3>3. /\ pending[i].left \in Nat /\ sinceGc \in Nat /\ sinceGc <= MaxWait
          /\ MaxWait \in Nat /\ MinCheckInterval \in Nat /\ MaxWait >= MinCheckInterval
      BY <1>3, DelayAssumption, BoundAssumption DEF BaseInv, TypeOK
    <3>4. pending'[i].left = IF pending[i].left > 0 THEN pending[i].left - 1 ELSE 0
      BY <1>4
    <3>5. QED
      BY <1>1, <3>2, <3>3, <3>4
  <2>5. QED
    BY <2>1, <2>2, <2>3, <2>4 DEF FitInv
<1>14. QED
  BY <1>9, <1>10, <1>11, <1>12, <1>13 DEF BaseInv

(* The first event is taken from the queue: what the three kinds of events *)
(* that are processed have in common.                                      *)
LEMMA TakeEvent ==
    ASSUME TypeOK, NEW id \in {"gc", "dump"}, Due(id)
    PROVE  /\ Tail(pending) \in Seq(Event) /\ Sorted(Tail(pending))
           /\ pending \in Seq(Event) /\ pending # <<>> /\ 1 \in DOMAIN pending
           /\ Len(pending) \in Nat \ {0} /\ DOMAIN pending = 1..Len(pending)
           /\ Len(Tail(pending)) = Len(pending) - 1
           /\ DOMAIN Tail(pending) = 1..(Len(pending) - 1)
           /\ \A i \in 1..(Len(pending) - 1) : Tail(pending)[i] = pending[i + 1]
           /\ pending[1].id = id /\ pending[1].left = 0
           /\ \A other \in {"gc", "dump"} :
                 Later(Tail(pending), other, 1)
                     = Count(other) - IF other = id THEN 1 ELSE 0
           /\ \A other \in {"gc", "dump"} :
                 Later(Tail(pending), other, 1) \in Nat /\ Count(other) \in Nat
<1>1. /\ pending \in Seq(Event) /\ Sorted(pending)
      /\ \A other : Count(other) = Later(pending, other, 1)
  BY TypeFacts
<1>2. pending # <<>> /\ Head(pending).left = 0 /\ Head(pending).id = id
  BY DEF Due
<1>3. /\ Tail(pending) \in Seq(Event) /\ Sorted(Tail(pending))
      /\ Len(Tail(pending)) = Len(pending) - 1 /\ Len(pending) \in Nat \ {0}
      /\ Head(pending) = pending[1] /\ 1 \in DOMAIN pending
      /\ \A i \in 1..(Len(pending) - 1) : Tail(pending)[i] = pending[i + 1]
  BY <1>1, <1>2, TailProperties
<1>4. DOMAIN pending = 1..Len(pending) /\ DOMAIN Tail(pending) = 1..(Len(pending) - 1)
  BY <1>1, <1>3, QueueType
<1>5. ASSUME NEW other \in {"gc", "dump"}
      PROVE  /\ Later(Tail(pending), other, 1)
                    = Count(other) - IF other = id THEN 1 ELSE 0
             /\ Later(Tail(pending), other, 1) \in Nat /\ Count(other) \in Nat
  <2>1. Later(pending, other, 1)
            = Later(pending, other, 2) + IF Head(pending).id = other THEN 1 ELSE 0
    BY <1>1, <1>2, LaterHead
  <2>2. Later(Tail(pending), other, 1) = Later(pending, other, 1 + 1)
    <3>1. 1 \in Nat \ {0}
      OBVIOUS
    <3>2. QED
      BY <1>1, <1>2, <3>1, LaterTail
  <2>3. Later(Tail(pending), other, 1) \in Nat /\ Later(pending, other, 1) \in Nat
    BY <1>1, <1>3, PositionsFinite
  <2>4. QED
    BY <1>1, <1>2, <2>1, <2>2, <2>3
<1>6. QED
  BY <1>1, <1>2, <1>3, <1>4, <1>5

(* An event of a stopped session is dropped. *)
LEMMA DropEventStep ==
    ASSUME BaseInv, DropEvent
    PROVE  BaseInv' /\ (FitInv => FitInv')
<1>1. /\ ~isRunning /\ pending' = Tail(pending)
      /\ ran' = [task |-> "dropped", session |-> NoRef]
      /\ UNCHANGED <<jsVars, handlerVars, delayVars, session, gcDone, overlapped,
                     sinceGc, wrapVars, refused>>
  BY DEF DropEvent
<1>2. PICK id \in {"gc", "dump"} : Due(id)
  BY DEF DropEvent
<1>3. /\ Tail(pending) \in Seq(Event) /\ Sorted(Tail(pending))
      /\ pending \in Seq(Event) /\ pending # <<>>
  BY <1>2, TakeEvent DEF BaseInv
<1>4. TypeOK'
  <2>1. ran' \in [task : {"none", "gc", "dump", "dropped"}, session : 0..session]
    BY <1>1, BoundAssumption DEF BaseInv, TypeOK, NoRef
  <2>2. QED
    BY <1>1, <1>3, <2>1
       DEF BaseInv, TypeOK, Event, Sorted, jsVars, handlerVars, delayVars, wrapVars
<1>5. TasksAreCurrent' /\ GcScheduled' /\ FirstIsGc' /\ DumpAfterGc' /\ OneGc'
  BY <1>1 DEF TasksAreCurrent, GcScheduled, FirstIsGc, DumpAfterGc, OneGc, handlerVars
<1>6. ASSUME FitInv PROVE FitInv'
  <2>1. InOrder'
    BY <1>1, <1>3, <1>6, MatchedTail DEF FitInv, InOrder, wrapVars
  <2>2. QED
    BY <1>1, <1>6, <2>1
       DEF FitInv, DelaysFit, OneChain, Spaced, handlerVars, delayVars, wrapVars
<1>7. QED
  BY <1>4, <1>5, <1>6 DEF BaseInv

(* A DUMP task runs. *)
LEMMA ProcessDumpEventStep ==
    ASSUME BaseInv, ProcessDumpEvent
    PROVE  BaseInv' /\ (FitInv => FitInv')
<1>. DEFINE t == Tail(pending)
<1>1. /\ isRunning /\ pending' = t
      /\ ran' = [task |-> "dump", session |-> dumpRef]
      /\ UNCHANGED <<jsVars, handlerVars, delayVars, session, gcDone, overlapped,
                     sinceGc, wrapVars, refused>>
      /\ Due("dump")
  BY DEF ProcessDumpEvent
<1>2. /\ t \in Seq(Event) /\ Sorted(t)
      /\ pending \in Seq(Event) /\ pending # <<>> /\ 1 \in DOMAIN pending
      /\ Len(pending) \in Nat \ {0} /\ DOMAIN pending = 1..Len(pending)
      /\ Len(t) = Len(pending) - 1
      /\ DOMAIN t = 1..(Len(pending) - 1)
      /\ \A i \in 1..(Len(pending) - 1) : t[i] = pending[i + 1]
      /\ pending[1].id = "dump"
      /\ Later(t, "gc", 1) = Count("gc")
  BY <1>1, TakeEvent DEF BaseInv
<1>3. FitInv /\ ~inverted => Matched(t)
  BY <1>2, MatchedTail DEF FitInv, InOrder
<1>. HIDE DEF t
<1>4. TypeOK'
  <2>1. ran' \in [task : {"none", "gc", "dump", "dropped"}, session : 0..session]
    BY <1>1 DEF BaseInv, TypeOK
  <2>2. QED
    BY <1>1, <1>2, <2>1
       DEF BaseInv, TypeOK, Event, Sorted, jsVars, handlerVars, delayVars, wrapVars
<1>5. TasksAreCurrent'
  BY <1>1 DEF BaseInv, TasksAreCurrent, handlerVars
<1>6. GcScheduled' /\ OneGc'
  <2>1. Count("gc")' = Later(t, "gc", 1)
    BY <1>1, <1>2, CountIsLater DEF Count
  <2>2. QED
    BY <1>1, <1>2, <2>1 DEF BaseInv, GcScheduled, OneGc, handlerVars
<1>7. overlapped \/ gcDone
  BY <1>1, <1>2 DEF BaseInv, FirstIsGc
<1>8. FirstIsGc' /\ DumpAfterGc'
  BY <1>1, <1>7 DEF FirstIsGc, DumpAfterGc
<1>9. ASSUME FitInv PROVE FitInv'
  <2>1. InOrder' /\ DelaysFit'
    BY <1>1, <1>3, <1>9 DEF FitInv, InOrder, DelaysFit, delayVars, wrapVars
  <2>2. ~overlapped /\ ~inverted => Len(pending) = 2 /\ pending[2].id = "gc"
    BY <1>1, <1>2, <1>9 DEF FitInv, OneChain
  <2>3. OneChain'
    <3>1. SUFFICES ASSUME ~overlapped, ~inverted
                   PROVE  /\ Len(t) = 1 /\ t[1].id = "gc"
                          /\ ran'.task # "gc"
      BY <1>1 DEF OneChain, wrapVars
    <3>2. Len(pending) = 2 /\ pending[2].id = "gc"
      BY <2>2, <3>1
    <3>3. Len(t) = 1
      <4>1. Len(t) = Len(pending) - 1
        BY <1>2
      <4>2. QED
        BY <3>2, <4>1
    <3>4. t[1] = pending[2]
      <4>1. \A i \in 1..(Len(pending) - 1) : t[i] = pending[i + 1]
        BY <1>2
      <4>2. 1 \in 1..(Len(pending) - 1) /\ 1 + 1 = 2
        BY <3>2
      <4>3. t[1] = pending[1 + 1]
        BY <4>1, <4>2
      <4>4. QED
        BY <4>2, <4>3
    <3>5. ran'.task = "dump"
      BY <1>1
    <3>6. QED
      BY <3>2, <3>3, <3>4, <3>5
  <2>4. Spaced'
    <3>1. SUFFICES ASSUME ~overlapped, ~shortened, NEW i \in 1..(Len(pending) - 1),
                          t[i].id = "gc"
                   PROVE  t[i].left + sinceGc >= MinCheckInterval
      BY <1>1, <1>2 DEF Spaced, wrapVars
    <3>2. i + 1 \in DOMAIN pending /\ t[i] = pending[i + 1]
      BY <1>2
    <3>3. QED
      BY <1>1, <1>9, <3>1, <3>2 DEF FitInv, Spaced
  <2>5. QED
    BY <2>1, <2>3, <2>4 DEF FitInv
<1>10. QED
  BY <1>4, <1>5, <1>6, <1>8, <1>9 DEF BaseInv

(* A GC task runs, and sends the next GC event and its own DUMP event. *)
LEMMA ProcessGcEventStep ==
    ASSUME BaseInv, ProcessGcEvent
    PROVE  /\ BaseInv' /\ (FitInv => FitInv')
           /\ Count("gc")' = Count("gc") /\ Count("dump")' = Count("dump") + 1
<1>. DEFINE t == Tail(pending)
            r == Send(t, "gc", gcDelay)
            s == Send(r, "dump", dumpDelay)
<1>1. /\ isRunning /\ pending' = s
      /\ ran' = [task |-> "gc", session |-> gcRef]
      /\ gcDone' = TRUE /\ sinceGc' = 0
      /\ UNCHANGED <<jsVars, handlerVars, delayVars, session, overlapped, wrapVars,
                     refused>>
      /\ Due("gc")
  BY DEF ProcessGcEvent
<1>2. /\ t \in Seq(Event) /\ Sorted(t)
      /\ pending \in Seq(Event) /\ pending # <<>> /\ 1 \in DOMAIN pending
      /\ Len(pending) \in Nat \ {0}
      /\ Len(t) = Len(pending) - 1
      /\ pending[1].id = "gc"
      /\ Later(t, "gc", 1) = Count("gc") - 1 /\ Later(t, "dump", 1) = Count("dump")
      /\ Count("gc") \in Nat /\ Count("dump") \in Nat /\ Later(t, "gc", 1) \in Nat
  BY <1>1, TakeEvent DEF BaseInv
<1>3. gcDelay \in 0..(WordSize - 1) /\ dumpDelay \in 0..(WordSize - 1)
  BY TypeFacts DEF BaseInv
<1>. HIDE DEF t
<1>4. r \in Seq(Event) /\ Sorted(r)
  BY <1>2, <1>3, SendProperties
<1>5. Later(r, "gc", 1) = Count("gc") /\ Later(r, "dump", 1) = Count("dump")
  <2>1. \A id : Later(r, id, 1) = Later(t, id, 1) + IF "gc" = id THEN 1 ELSE 0
    BY <1>2, <1>3, SendCounts
  <2>2. QED
    BY <1>2, <2>1
<1>6. PICK p \in 1..(Len(t) + 1) : Inserted(t, r, p, [id |-> "gc", left |-> gcDelay])
  BY <1>2, <1>3, SendProperties
<1>. HIDE DEF r
<1>7. s \in Seq(Event) /\ Sorted(s)
  BY <1>3, <1>4, SendProperties
<1>8. Later(s, "gc", 1) = Count("gc") /\ Later(s, "dump", 1) = Count("dump") + 1
  <2>1. \A id : Later(s, id, 1) = Later(r, id, 1) + IF "dump" = id THEN 1 ELSE 0
    BY <1>3, <1>4, SendCounts
  <2>2. QED
    BY <1>2, <1>5, <2>1
<1>9. PICK p2 \in 1..(Len(r) + 1) :
          /\ Inserted(r, s, p2, [id |-> "dump", left |-> dumpDelay])
          /\ \A j \in DOMAIN r : r[j].left <= dumpDelay <=> j < p2
  BY <1>3, <1>4, SendProperties
<1>. HIDE DEF s
<1>10. Count("gc")' = Count("gc") /\ Count("dump")' = Count("dump") + 1
  <2>1. Count("gc")' = Later(s, "gc", 1)
    BY <1>1, <1>7, CountIsLater DEF Count
  <2>2. Count("dump")' = Later(s, "dump", 1)
    BY <1>1, <1>7, CountIsLater DEF Count
  <2>3. QED
    BY <1>8, <2>1, <2>2
<1>11. TypeOK'
  <2>1. ran' \in [task : {"none", "gc", "dump", "dropped"}, session : 0..session]
    BY <1>1 DEF BaseInv, TypeOK
  <2>2. sinceGc' \in 0..MaxWait
    BY <1>1, BoundAssumption
  <2>3. QED
    BY <1>1, <1>7, <2>1, <2>2
       DEF BaseInv, TypeOK, Event, Sorted, jsVars, handlerVars, delayVars, wrapVars
<1>12. TasksAreCurrent' /\ FirstIsGc' /\ DumpAfterGc'
  BY <1>1 DEF BaseInv, TasksAreCurrent, FirstIsGc, DumpAfterGc, handlerVars
<1>13. GcScheduled' /\ OneGc'
  BY <1>1, <1>10 DEF BaseInv, GcScheduled, OneGc, handlerVars
<1>14. ASSUME FitInv PROVE FitInv'
  <2>1. /\ ~inverted => dumpDelay < gcDelay
        /\ ~shortened => MinCheckInterval <= gcDelay
    BY <1>14 DEF FitInv, DelaysFit
  <2>2. DelaysFit'
    BY <1>1, <1>14 DEF FitInv, DelaysFit, delayVars, wrapVars
  <2>3. InOrder'
    <3>1. SUFFICES ASSUME ~inverted PROVE Matched(s)
      BY <1>1 DEF InOrder, wrapVars
    <3>2. Matched(t)
      BY <1>2, <1>14, <3>1, MatchedTail DEF FitInv, InOrder, t
    <3>3. QED
      BY <1>2, <1>3, <2>1, <3>1, <3>2, MatchedRound DEF r, s
  <2>4. ~overlapped /\ ~inverted =>
            /\ Len(s) = 2
            /\ s[1] = [id |-> "dump", left |-> dumpDelay]
            /\ s[2] = [id |-> "gc", left |-> gcDelay]
    <3>1. SUFFICES ASSUME ~overlapped, ~inverted
                   PROVE  /\ Len(s) = 2
                          /\ s[1] = [id |-> "dump", left |-> dumpDelay]
                          /\ s[2] = [id |-> "gc", left |-> gcDelay]
      OBVIOUS
    <3>2. Len(t) = 0
      BY <1>1, <1>2, <1>14, <3>1 DEF FitInv, OneChain
    <3>3. p = 1 /\ Len(r) = 1 /\ r[1] = [id |-> "gc", left |-> gcDelay]
      BY <1>6, <3>2 DEF Inserted
    <3>4. 1 \in DOMAIN r /\ r[1].left = gcDelay
      BY <1>4, <3>3, QueueType
    <3>5. ~ (gcDelay <= dumpDelay)
      BY <1>3, <2>1, <3>1, DelayAssumption
    <3>6. p2 = 1
      BY <1>9, <3>3, <3>4, <3>5
    <3>7. Len(s) = 2 /\ s[1] = [id |-> "dump", left |-> dumpDelay] /\ s[2] = r[1]
      BY <1>9, <3>3, <3>6 DEF Inserted
    <3>8. QED
      BY <3>3, <3>7
  <2>5. OneChain'
    BY <1>1, <2>4 DEF OneChain, wrapVars
  <2>6. Spaced'
    <3>1. SUFFICES ASSUME ~overlapped, ~shortened, NEW i \in DOMAIN s, s[i].id = "gc"
                   PROVE  s[i].left >= MinCheckInterval
      <4>1. \A i \in DOMAIN s : s[i].left \in Int
        BY <1>7, QueueType
      <4>2. QED
        BY <1>1, <4>1 DEF Spaced, wrapVars
    <3>2. \A j \in 1..Len(t) : t[j].id # "gc"
      <4>1. Later(t, "gc", 1) = 0
        BY <1>1, <1>2, <3>1 DEF BaseInv, OneGc
      <4>2. Positions(t, "gc", 1) = {}
        BY <1>2, <4>1, PositionsFinite, FS_EmptySet DEF Later
      <4>3. DOMAIN t = 1..Len(t) /\ Len(t) \in Nat
        BY <1>2, QueueType
      <4>4. QED
        BY <4>2, <4>3 DEF Positions
    <3>3. \A j \in 1..Len(r) : r[j].id = "gc" => r[j].left = gcDelay
      <4>1. Len(r) = Len(t) + 1 /\ Len(t) \in Nat
        BY <1>2, <1>6, QueueType DEF Inserted
      <4>2. SUFFICES ASSUME NEW j \in 1..(Len(t) + 1), r[j].id = "gc", j # p
                     PROVE  FALSE
        BY <1>6, <4>1 DEF Inserted
      <4>3. \/ r[j] = t[j] /\ j \in 1..Len(t)
            \/ r[j] = t[j - 1] /\ j - 1 \in 1..Len(t)
        BY <1>6, <4>1, <4>2 DEF Inserted
      <4>4. QED
        BY <3>2, <4>2, <4>3
    <3>4. i \in 1..(Len(r) + 1) /\ Len(r) \in Nat
      BY <1>4, <1>7, <1>9, QueueType DEF Inserted
    <3>5. i # p2
      BY <1>9, <3>1 DEF Inserted
    <3>6. \/ s[i] = r[i] /\ i \in 1..Len(r)
          \/ s[i] = r[i - 1] /\ i - 1 \in 1..Len(r)
      BY <1>9, <3>4, <3>5 DEF Inserted
    <3>7. s[i].left = gcDelay
      BY <3>1, <3>3, <3>6
    <3>8. QED
      BY <1>3, <2>1, <3>1, <3>7, DelayAssumption
  <2>7. QED
    BY <2>2, <2>3, <2>5, <2>6 DEF FitInv
<1>15. QED
  BY <1>10, <1>11, <1>12, <1>13, <1>14 DEF BaseInv

(* The steps that leave the queue and the tasks alone. *)
LEMMA OtherStep ==
    ASSUME BaseInv,
           Enable \/ AlreadyStartedOrStopped \/ EnableFails \/ UNCHANGED vars
    PROVE  BaseInv' /\ (FitInv => FitInv')
<1>. USE DEF jsVars, handlerVars, delayVars, history, wrapVars
<1>1. TypeOK
  BY DEF BaseInv
<1>2. Quiet /\ (DelaysFit => DelaysFit')
  <2>1. CASE Enable
    BY <1>1, <2>1, ArgumentAssumption DEF Enable, Quiet, TypeOK, DelaysFit
  <2>2. CASE AlreadyStartedOrStopped
    BY <1>1, <2>2 DEF AlreadyStartedOrStopped, Quiet, TypeOK, DelaysFit
  <2>3. CASE EnableFails
    BY <1>1, <2>3, TakeConfigType DEF EnableFails, Quiet
  <2>4. CASE UNCHANGED vars
    BY <1>1, <2>4 DEF vars, Quiet, TypeOK, DelaysFit
  <2>5. QED
    BY <2>1, <2>2, <2>3, <2>4
<1>3. QED
  BY <1>2, QuietStep DEF FitInv

(* Both invariants are inductive. *)
LEMMA NextInv ==
    ASSUME BaseInv, [Next]_vars
    PROVE  BaseInv' /\ (FitInv => FitInv')
<1>1. CASE EnableLeakWatcher
  BY <1>1, EnableLeakWatcherStep
<1>2. CASE DisableLeakWatcher
  BY <1>2, DisableLeakWatcherStep
<1>3. CASE Tick
  BY <1>3, TickStep
<1>4. CASE DropEvent
  BY <1>4, DropEventStep
<1>5. CASE ProcessDumpEvent
  BY <1>5, ProcessDumpEventStep
<1>6. CASE ProcessGcEvent
  BY <1>6, ProcessGcEventStep
<1>7. CASE Enable \/ AlreadyStartedOrStopped \/ EnableFails \/ UNCHANGED vars
  BY <1>7, OtherStep
<1>8. QED
  BY <1>1, <1>2, <1>3, <1>4, <1>5, <1>6, <1>7 DEF Next, ProcessEvent

-----------------------------------------------------------------------------
(* What does not depend on the delays.                                     *)

(* BaseInv is an invariant of the leak watcher. *)
THEOREM BaseInvariant == Spec => []BaseInv
<1>1. Init => BaseInv
  BY InitInv
<1>2. BaseInv /\ [Next]_vars => BaseInv'
  BY NextInv
<1>3. QED
  BY <1>1, <1>2, PTL DEF Spec

(* The variables keep their types: no delay exceeds a uint32_t, every event *)
(* is a GC or a DUMP event, and the queue stays in the order of the due     *)
(* times whatever SendEvent puts into it.                                   *)
THEOREM TypeCorrect == Spec => []TypeOK
BY BaseInvariant, PTL DEF BaseInv

(* ExecuteJsFunc is only ever given the references of the present session. *)
THEOREM TasksCurrent == Spec => []TasksAreCurrent
BY BaseInvariant, PTL DEF BaseInv

(* While the tasks run the next GC event is in the queue, whatever calls of *)
(* enable and enableLeakWatcher led here.                                   *)
THEOREM GcAlwaysScheduled == Spec => []GcScheduled
BY BaseInvariant, PTL DEF BaseInv

(* A session that did not overlap an older one dumps nothing before its     *)
(* first GC task.  The invariant it needs is FirstIsGc.                     *)
THEOREM DumpsAfterGc == Spec => []DumpAfterGc
BY BaseInvariant, PTL DEF BaseInv

-----------------------------------------------------------------------------
(* What follows from the delays, for every configuration: the properties   *)
(* name the conversions that they except.                                  *)

(* FitInv is an invariant too: with any configured numbers the delays are   *)
(* in order until an accepted one is converted out of order, and until then *)
(* each DUMP event has its GC event behind it and the GC events of a        *)
(* session that did not overlap an older one are spaced.                    *)
THEOREM FitInvariant == Spec => [](BaseInv /\ FitInv)
<1>1. Init => BaseInv /\ FitInv
  BY InitInv
<1>2. BaseInv /\ FitInv /\ [Next]_vars => BaseInv' /\ FitInv'
  BY NextInv
<1>3. QED
  BY <1>1, <1>2, PTL DEF Spec

(* DUMP events do not pile up, in whatever order sessions start and stop    *)
(* and events of old ones are dropped or processed, for any configured      *)
(* numbers up to the first that is accepted and converted out of order.     *)
THEOREM NoDumpsPileUp == Spec => []NoDumpBacklog
<1>1. BaseInv /\ FitInv => NoDumpBacklog
  <2>1. SUFFICES ASSUME BaseInv, FitInv, ~inverted
                 PROVE  Count("dump") <= Count("gc")
    BY DEF NoDumpBacklog
  <2>2. pending \in Seq(Event) /\ \A id : Count(id) = Later(pending, id, 1)
    BY <2>1, TypeFacts DEF BaseInv
  <2>3. 1 \in 1..(Len(pending) + 1)
    BY <2>2, QueueType
  <2>4. QED
    BY <2>1, <2>2, <2>3 DEF FitInv, InOrder, Matched
<1>2. QED
  BY <1>1, FitInvariant, PTL

(* Up to there, in a session that did not overlap an older one, the result  *)
(* of one check is dumped before the next check begins.                     *)
THEOREM GcBeforeDump == Spec => GcThenDump
<1>1. BaseInv /\ FitInv /\ ProcessGcEvent /\ ~overlapped /\ ~inverted
          => ~(ran.task = "gc" /\ ran.session = session)
  <2>1. SUFFICES ASSUME BaseInv, FitInv, ProcessGcEvent, ~overlapped, ~inverted
                 PROVE  ~(ran.task = "gc" /\ ran.session = session)
    OBVIOUS
  <2>2. isRunning /\ pending[1].id = "gc"
    BY <2>1, TakeEvent DEF ProcessGcEvent, BaseInv
  <2>3. QED
    BY <2>1, <2>2 DEF FitInv, OneChain
<1>2. QED
  BY <1>1, FitInvariant, PTL DEF Spec, GcThenDump

(* Whatever the wait, checks of such a session are never closer than        *)
(* MIN_CHECK_INTERVAL, unless an accepted interval has become a short delay.*)
THEOREM ChecksAreSpaced == Spec => ChecksSpaced
<1>1. BaseInv /\ FitInv /\ ProcessGcEvent /\ ~overlapped /\ ~shortened
          => sinceGc >= MinCheckInterval
  <2>1. SUFFICES ASSUME BaseInv, FitInv, ProcessGcEvent, ~overlapped, ~shortened
                 PROVE  sinceGc >= MinCheckInterval
    OBVIOUS
  <2>2. isRunning /\ 1 \in DOMAIN pending /\ pending[1].id = "gc" /\ pending[1].left = 0
    BY <2>1, TakeEvent DEF ProcessGcEvent, BaseInv
  <2>3. 0 + sinceGc >= MinCheckInterval
    BY <2>1, <2>2 DEF FitInv, Spaced
  <2>4. sinceGc \in Int
    BY <2>1 DEF BaseInv, TypeOK
  <2>5. QED
    BY <2>3, <2>4
<1>2. QED
  BY <1>1, FitInvariant, PTL DEF Spec, ChecksSpaced

-----------------------------------------------------------------------------
(* The refinement of TaskSchedule.                                         *)

(* Every step of the watcher is one of the schedule, or a stutter. *)
LEMMA ScheduleStep ==
    ASSUME BaseInv, [Next]_vars
    PROVE  Schedule!ScheduleNext \/ UNCHANGED Schedule!schedule
<1>. USE DEF jsVars, handlerVars
<1>1. /\ pending \in Seq(Event) /\ Sorted(pending)
      /\ \A id : Count(id) = Later(pending, id, 1)
  BY TypeFacts DEF BaseInv
<1>2. Count("gc") \in Nat /\ Count("dump") \in Nat
  BY <1>1, PositionsFinite
<1>3. pending' = pending => Count("gc")' = Count("gc") /\ Count("dump")' = Count("dump")
  BY DEF Count
<1>4. ASSUME Due("gc") PROVE Count("gc") > 0
  <2>1. Later(Tail(pending), "gc", 1) = Count("gc") - 1 /\ Later(Tail(pending), "gc", 1) \in Nat
    BY <1>4, TakeEvent DEF BaseInv
  <2>2. QED
    BY <1>2, <2>1
<1>5. ASSUME NEW id \in {"gc", "dump"}, Due(id), pending' = Tail(pending)
      PROVE  /\ Count("gc")' = Count("gc") - IF id = "gc" THEN 1 ELSE 0
             /\ Count("dump")' = Count("dump") - IF id = "dump" THEN 1 ELSE 0
             /\ Count(id) > 0
  <2>1. TypeOK
    BY DEF BaseInv
  <2>2. /\ \A other \in {"gc", "dump"} :
              Later(Tail(pending), other, 1) = Count(other) - IF other = id THEN 1 ELSE 0
        /\ Tail(pending) \in Seq(Event)
        /\ \A other \in {"gc", "dump"} :
              Later(Tail(pending), other, 1) \in Nat /\ Count(other) \in Nat
    BY <1>5, <2>1, TakeEvent
  <2>3. Count("gc")' = Later(Tail(pending), "gc", 1)
    BY <1>5, <2>2, CountIsLater DEF Count
  <2>4. Count("dump")' = Later(Tail(pending), "dump", 1)
    BY <1>5, <2>2, CountIsLater DEF Count
  <2>5. Count(id) > 0
    BY <2>2
  <2>6. QED
    BY <2>2, <2>3, <2>4, <2>5
<1>6. CASE Enable
  <2>1. PICK isEnable \in BOOLEAN : Schedule!Enable(isEnable)
    BY <1>3, <1>6, ArgumentAssumption DEF Enable, Schedule!Enable
  <2>2. QED
    BY <2>1 DEF Schedule!ScheduleNext
<1>7. CASE AlreadyStartedOrStopped
  BY <1>3, <1>7 DEF AlreadyStartedOrStopped, Schedule!schedule
<1>8. CASE EnableFails
  <2>1. Schedule!EnableFails
    BY <1>3, <1>8 DEF EnableFails, Schedule!EnableFails, Schedule!Enable
  <2>2. QED
    BY <2>1 DEF Schedule!ScheduleNext
<1>9. CASE EnableLeakWatcher
  <2>1. pending' = Send(pending, "gc", gcDelay') /\ gcDelay' \in 0..(WordSize - 1)
    BY <1>9, TakeConfigType DEF EnableLeakWatcher, StartTasks, BaseInv
  <2>2. pending' \in Seq(Event)
    BY <1>1, <2>1, SendProperties
  <2>3. \A id : Later(pending', id, 1) = Later(pending, id, 1) + IF "gc" = id THEN 1 ELSE 0
    BY <1>1, <2>1, SendCounts
  <2>4. Count("gc")' = Later(pending', "gc", 1)
    BY <2>2, CountIsLater DEF Count
  <2>5. Count("dump")' = Later(pending', "dump", 1)
    BY <2>2, CountIsLater DEF Count
  <2>6. Count("gc")' = Count("gc") + 1 /\ Count("dump")' = Count("dump")
    BY <1>1, <1>2, <2>3, <2>4, <2>5
  <2>7. Schedule!EnableLeakWatcher
    BY <1>9, <2>6 DEF EnableLeakWatcher, StartTasks, Schedule!EnableLeakWatcher
  <2>8. QED
    BY <2>7 DEF Schedule!ScheduleNext
<1>10. CASE DisableLeakWatcher
  <2>1. Schedule!DisableLeakWatcher
    BY <1>3, <1>10 DEF DisableLeakWatcher, RemoveTask, Schedule!DisableLeakWatcher
  <2>2. QED
    BY <2>1 DEF Schedule!ScheduleNext
<1>11. CASE Tick
  <2>1. DOMAIN pending' = DOMAIN pending
        /\ \A i \in DOMAIN pending : pending'[i].id = pending[i].id
    <3>1. pending' = [i \in DOMAIN pending |->
                         [pending[i] EXCEPT !.left = IF @ > 0 THEN @ - 1 ELSE 0]]
      BY <1>11 DEF Tick
    <3>2. \A i \in DOMAIN pending : pending[i] \in Event
      BY <1>1, QueueType
    <3>3. QED
      BY <3>1, <3>2 DEF Event
  <2>2. Count("gc")' = Count("gc") /\ Count("dump")' = Count("dump")
    BY <2>1 DEF Count
  <2>3. QED
    BY <1>11, <2>2 DEF Tick, Schedule!schedule
<1>12. CASE DropEvent
  <2>1. PICK id \in {"gc", "dump"} : Due(id)
    BY <1>12 DEF DropEvent
  <2>2. ~isRunning /\ pending' = Tail(pending) /\ UNCHANGED <<enabled, isRunning, session>>
    BY <1>12 DEF DropEvent
  <2>3. /\ Count("gc")' = Count("gc") - IF id = "gc" THEN 1 ELSE 0
        /\ Count("dump")' = Count("dump") - IF id = "dump" THEN 1 ELSE 0
        /\ Count(id) > 0
    BY <1>5, <2>1, <2>2
  <2>4. Schedule!DropEvent
    BY <1>2, <1>4, <2>1, <2>2, <2>3 DEF Schedule!DropEvent
  <2>5. QED
    BY <2>4 DEF Schedule!ScheduleNext
<1>13. CASE ProcessDumpEvent
  <2>1. /\ isRunning /\ Due("dump") /\ pending' = Tail(pending)
        /\ UNCHANGED <<enabled, isRunning, session>>
    BY <1>13 DEF ProcessDumpEvent
  <2>2. /\ Count("gc")' = Count("gc") - 0 /\ Count("dump")' = Count("dump") - 1
        /\ Count("dump") > 0
    BY <1>5, <2>1
  <2>3. Schedule!RunDumpTask
    BY <1>2, <2>1, <2>2 DEF Schedule!RunDumpTask
  <2>4. QED
    BY <2>3 DEF Schedule!ScheduleNext
<1>14. CASE ProcessGcEvent
  <2>1. isRunning /\ Due("gc") /\ UNCHANGED <<enabled, isRunning, session>>
    BY <1>14 DEF ProcessGcEvent
  <2>2. Count("gc")' = Count("gc") /\ Count("dump")' = Count("dump") + 1
    BY <1>14, ProcessGcEventStep
  <2>3. Schedule!RunGcTask
    BY <1>4, <2>1, <2>2 DEF Schedule!RunGcTask
  <2>4. QED
    BY <2>3 DEF Schedule!ScheduleNext
<1>15. CASE UNCHANGED vars
  BY <1>3, <1>15 DEF vars, Schedule!schedule
<1>16. QED
  BY <1>6, <1>7, <1>8, <1>9, <1>10, <1>11, <1>12, <1>13, <1>14, <1>15
     DEF Next, ProcessEvent

(* LeakWatcherTasks implements TaskSchedule: with any configured numbers,   *)
(* converted in or out of order, calls and tasks come in the order that the *)
(* modules of what the tasks do are written against.                        *)
THEOREM ImplementsSchedule == Spec => KeepsSchedule
<1>1. Init => Schedule!ScheduleInit
  <2>1. SUFFICES ASSUME Init PROVE Schedule!ScheduleInit
    OBVIOUS
  <2>2. \A id : Count(id) = 0
    <3>1. \A id : {i \in DOMAIN pending : pending[i].id = id} = {}
      BY <2>1 DEF Init
    <3>2. QED
      BY <3>1, FS_EmptySet DEF Count
  <2>3. QED
    BY <2>1, <2>2 DEF Init, Schedule!ScheduleInit
<1>2. BaseInv /\ [Next]_vars => Schedule!ScheduleNext \/ UNCHANGED Schedule!schedule
  BY ScheduleStep
<1>3. QED
  BY <1>1, <1>2, BaseInvariant, PTL
     DEF Spec, KeepsSchedule, Schedule!ScheduleSpec

=============================================================================
