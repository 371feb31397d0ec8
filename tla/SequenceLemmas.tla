---------------------------- MODULE SequenceLemmas ----------------------------
(***************************************************************************)
(* Facts about numbers, sets and sequences that the proofs about several   *)
(* modules need.  MinNat is induction without an operator as parameter:    *)
(* a statement that fails for some number fails for a least one.           *)
(***************************************************************************)
EXTENDS Integers, Sequences, FiniteSets, SequencesExt, FiniteSetTheorems,
        WellFoundedInduction, SequenceTheorems, TLAPS

(* Every set of natural numbers that is not empty has a least element.     *)
LEMMA MinNat ==
    ASSUME NEW T \in SUBSET Nat, T # {}
    PROVE  \E n \in T : \A m \in T : n <= m
<1>. DEFINE Segments == {0..n : n \in T}
<1>1. Segments \subseteq FiniteSubsetsOf(Nat) /\ Segments # {}
  <2>1. ASSUME NEW n \in T
        PROVE  IsFiniteSet(0..n) /\ 0..n \subseteq Nat
    BY FS_Interval
  <2>2. QED
    BY <2>1 DEF FiniteSubsetsOf
<1>2. PICK x \in Segments :
          \A y \in Segments : ~ (<<y, x>> \in StrictSubsetOrdering(Nat))
  <2>1. IsWellFoundedOn(StrictSubsetOrdering(Nat), FiniteSubsetsOf(Nat))
    BY FS_StrictSubsetOrderingWellFounded
  <2>. HIDE DEF Segments
  <2>2. QED
    BY <1>1, <2>1, WFMin
<1>3. PICK n \in T : x = 0..n
  OBVIOUS
<1>4. ASSUME NEW m \in T, ~ (n <= m)
      PROVE  FALSE
  <2>1. 0..m \subseteq 0..n /\ 0..m # 0..n /\ 0..n \subseteq Nat
    <3>1. n \in 0..n /\ n \notin 0..m
      BY <1>4
    <3>2. QED
      BY <1>4, <3>1
  <2>2. <<0..m, 0..n>> \in StrictSubsetOrdering(Nat)
    BY <2>1 DEF StrictSubsetOrdering
  <2>3. QED
    BY <1>2, <1>3, <2>2
<1>5. QED
  BY <1>4

(* InsertAt moves what is behind the place by one.                         *)
LEMMA InsertAtProperties ==
    ASSUME NEW S, NEW s \in Seq(S), NEW e \in S, NEW p \in 1..(Len(s) + 1)
    PROVE  /\ InsertAt(s, p, e) \in Seq(S)
           /\ Len(InsertAt(s, p, e)) = Len(s) + 1
           /\ \A j \in 1..(Len(s) + 1) :
                  InsertAt(s, p, e)[j] = IF j < p THEN s[j]
                                         ELSE IF j = p THEN e ELSE s[j - 1]
<1>. DEFINE front == SubSeq(s, 1, p - 1)
            back  == SubSeq(s, p, Len(s))
            head  == front \o <<e>>
            all   == head \o back
<1>0. /\ Len(s) \in Nat
      /\ \A i \in 1..Len(s) : s[i] \in S
  BY LenProperties, ElementOfSeq
<1>1. /\ front \in Seq(S) /\ Len(front) = p - 1
      /\ \A i \in 1..(p - 1) : front[i] = s[i]
  <2>1. \A i \in 1..(p - 1) : s[i] \in S
    BY <1>0
  <2>2. /\ SubSeq(s, 1, p - 1) \in Seq(S)
        /\ Len(SubSeq(s, 1, p - 1)) = IF 1 <= p - 1 THEN (p - 1) - 1 + 1 ELSE 0
        /\ \A i \in 1..((p - 1) - 1 + 1) : SubSeq(s, 1, p - 1)[i] = s[1 + i - 1]
    <3>1. 1 \in Int /\ p - 1 \in Int
      BY <1>0
    <3>2. QED
      BY <2>1, <3>1, SubSeqProperties
  <2>3. \A i \in 1..(p - 1) : SubSeq(s, 1, p - 1)[i] = s[i]
    BY <1>0, <2>2
  <2>4. QED
    BY <1>0, <2>2, <2>3
<1>2. /\ back \in Seq(S) /\ Len(back) = Len(s) - p + 1
      /\ \A i \in 1..(Len(s) - p + 1) : back[i] = s[p + i - 1]
  <2>1. \A i \in p..Len(s) : s[i] \in S
    BY <1>0
  <2>2. /\ SubSeq(s, p, Len(s)) \in Seq(S)
        /\ Len(SubSeq(s, p, Len(s))) = IF p <= Len(s) THEN Len(s) - p + 1 ELSE 0
        /\ \A i \in 1..(Len(s) - p + 1) : SubSeq(s, p, Len(s))[i] = s[p + i - 1]
    <3>1. p \in Int /\ Len(s) \in Int
      BY <1>0
    <3>2. QED
      BY <2>1, <3>1, SubSeqProperties
  <2>3. QED
    BY <1>0, <2>2
<1>3. /\ <<e>> \in Seq(S) /\ Len(<<e>>) = 1 /\ <<e>>[1] = e
  OBVIOUS
<1>. HIDE DEF front, back
<1>4. /\ head \in Seq(S) /\ Len(head) = p
      /\ \A i \in 1..p : head[i] = IF i <= p - 1 THEN front[i] ELSE <<e>>[i - (p - 1)]
  <2>1. /\ front \o <<e>> \in Seq(S)
        /\ Len(front \o <<e>>) = Len(front) + Len(<<e>>)
        /\ \A i \in 1..(Len(front) + Len(<<e>>)) :
             (front \o <<e>>)[i] = IF i <= Len(front) THEN front[i] ELSE <<e>>[i - Len(front)]
    BY <1>1, <1>3, ConcatProperties
  <2>2. QED
    BY <1>0, <1>1, <1>3, <2>1
<1>. HIDE DEF head
<1>5. /\ all \in Seq(S)
      /\ Len(all) = Len(head) + Len(back)
      /\ \A i \in 1..(Len(head) + Len(back)) :
           all[i] = IF i <= Len(head) THEN head[i] ELSE back[i - Len(head)]
  BY <1>2, <1>4, ConcatProperties
<1>. HIDE DEF back, all
<1>6. \A j \in 1..(Len(s) + 1) :
          all[j] = IF j <= p THEN head[j] ELSE back[j - p]
  <2>1. Len(head) + Len(back) = Len(s) + 1 /\ Len(head) = p
    BY <1>0, <1>2, <1>4
  <2>2. QED
    BY <1>5, <2>1
<1>7. InsertAt(s, p, e) = all
  BY DEF InsertAt, all, head, front, back
<1>8. ASSUME NEW j \in 1..(Len(s) + 1)
      PROVE  all[j] = IF j < p THEN s[j] ELSE IF j = p THEN e ELSE s[j - 1]
  <2>1. CASE j < p
    <3>1. j \in 1..p /\ j <= p - 1 /\ j \in 1..(p - 1)
      BY <2>1, <1>0
    <3>2. head[j] = s[j]
      BY <3>1, <1>1, <1>4
    <3>3. QED
      BY <2>1, <3>1, <3>2, <1>6
  <2>2. CASE j = p
    <3>1. p \in 1..p /\ ~ (p <= p - 1) /\ p - (p - 1) = 1
      BY <1>0
    <3>2. head[p] = e
      BY <3>1, <1>3, <1>4
    <3>3. QED
      BY <2>2, <3>1, <3>2, <1>6
  <2>3. CASE j > p
    <3>1. j - p \in 1..(Len(s) - p + 1) /\ p + (j - p) - 1 = j - 1 /\ ~ (j <= p)
      BY <2>3, <1>0
    <3>2. back[j - p] = s[j - 1]
      BY <3>1, <1>2
    <3>3. all[j] = back[j - p]
      BY <3>1, <1>6
    <3>4. QED
      BY <2>3, <3>1, <3>2, <3>3
  <2>4. QED
    BY <2>1, <2>2, <2>3, <1>0
<1>9. QED
  BY <1>0, <1>2, <1>4, <1>5, <1>7, <1>8

=============================================================================
