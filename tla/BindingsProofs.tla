---------------------------- MODULE BindingsProofs ----------------------------
(***************************************************************************)
(* Proofs about the script bindings: what HiChecker guarantees its native  *)
(* callers it guarantees scripts too, whatever values they pass, and what  *)
(* the bindings add.                                                       *)
(***************************************************************************)
EXTENDS HiCheckerBindings, HiCheckerProofs

(* The call of a script is a call of HiChecker with a word that a native   *)
(* caller could pass, or with 0, or it does nothing.                       *)
LEMMA JsCallCases ==
    ASSUME NEW t \in Thread, JsCall(t)
    PROVE  Invocation(t) \/ UNCHANGED vars
<1>1. CASE JsGetRule(t)
  BY <1>1 DEF JsGetRule, GetRule, Invocation, QueryOps, Args
<1>2. ASSUME NEW v \in JsValues, NEW throws \in BOOLEAN,
             NEW word \in {NapiWord(v), AniWord(v)},
             \/ \E op \in UpdateOps : JsUpdate(t, op, word, throws)
             \/ JsContains(t, word, throws)
      PROVE  Invocation(t) \/ UNCHANGED vars
  <2>1. word \in Args
    BY BindingAssumption DEF Args
  <2>2. ASSUME NEW op \in UpdateOps, JsUpdate(t, op, word, throws)
        PROVE  Invocation(t) \/ UNCHANGED vars
    BY <2>1, <2>2 DEF JsUpdate, Invocation
  <2>3. ASSUME JsContains(t, word, throws)
        PROVE  Invocation(t)
    BY <2>1, <2>3 DEF JsContains, Invocation, QueryOps
  <2>4. QED
    BY <1>2, <2>2, <2>3
<1>3. QED
  BY <1>1, <1>2 DEF JsCall

(* So every step behind a binding is one the proofs of HiChecker cover. *)
LEMMA BindingsStepCases ==
    ASSUME TypeOK, [BindingsNext]_<<vars, thrown>>
    PROVE  Steps
<1>1. CASE NativeStep
  BY <1>1, StepCases DEF NativeStep
<1>2. CASE \E t \in Thread : JsCall(t)
  BY <1>2, JsCallCases DEF Steps
<1>3. CASE UNCHANGED <<vars, thrown>>
  BY <1>3 DEF Steps
<1>4. QED
  BY <1>1, <1>2, <1>3 DEF BindingsNext

(* The inductive invariant of HiChecker holds behind the bindings.         *)
THEOREM BindingsInvariance == BindingsSpec => []IInv
<1>1. BindingsInit => TypeOK /\ LoadedInv /\ RegistryInv /\ AlarmInv
  BY TypeInit, RegistryInit, AlarmInit DEF BindingsInit
<1>2. ASSUME TypeOK, LoadedInv, RegistryInv, AlarmInv, [BindingsNext]_<<vars, thrown>>
      PROVE  TypeOK' /\ LoadedInv' /\ RegistryInv' /\ AlarmInv'
  BY <1>2, BindingsStepCases, TypeStep, RegistryStep, AlarmStep
<1>3. TypeOK /\ LoadedInv /\ RegistryInv /\ AlarmInv => IInv
  BY DEF RegistryInv, AlarmInv, IInv
<1>4. QED
  BY <1>1, <1>2, <1>3, PTL DEF BindingsSpec

(* Scripts and native callers together still see the atomic registry: no   *)
(* update of either is lost.                                               *)
THEOREM BindingsImplementRegistry == BindingsSpec => RegistryAtomic
<1>1. BindingsInit => Registry!Init
  BY RefinementInit DEF BindingsInit
<1>2. ASSUME IInv, [BindingsNext]_<<vars, thrown>>
      PROVE  [Registry!Next]_Registry!vars
  BY <1>2, BindingsStepCases, RefinementStep DEF IInv, RegistryInv
<1>3. QED
  BY <1>1, <1>2, BindingsInvariance, PTL DEF BindingsSpec, RegistryAtomic, Registry!Spec

-----------------------------------------------------------------------------
(* The values.                                                             *)

(* The answer of getRule means the same when a script hands it back: no bit *)
(* of a rule word is lost on the way, whatever the word.                    *)
THEOREM WordsRoundTrip == BindingsSpec => []RuleWordRoundTrips
<1>1. ASSUME NEW word \in Mask
      PROVE  /\ NapiWord(ToUInt64Value(word)) = word
             /\ AniWord(BuildBigintResult(word)) = word
  BY DEF Mask, NapiWord, AniWord, ToUInt64Value, BuildBigintResult, BigInt
<1>2. IInv => RuleWordRoundTrips
  BY <1>1 DEF IInv, TypeOK, RuleWordRoundTrips
<1>3. QED
  BY <1>2, BindingsInvariance, PTL

(* A thread whose last call has thrown 401 is at rest, or in the call that  *)
(* containsCheckRule makes with 0.                                          *)
ThrownOf(t) ==
    thrown[t] => /\ pc[t] \in {"idle", "lock", "locked", "unlock"}
                 /\ pc[t] \in {"lock", "locked"} => ~CheckRule(call[t].rule)

ThrownInv == thrown \in [Thread -> BOOLEAN] /\ \A t \in Thread : ThrownOf(t)

(* A step of HiChecker itself leaves a thread that has thrown where it was, *)
(* or takes it on through RejectRule and the release of the mutex.          *)
LEMMA StepKeepsThrown ==
    ASSUME TypeOK, Steps, NEW u \in Thread, thrown[u], ThrownOf(u),
           pc[u] # "idle"
    PROVE  /\ pc'[u] \in {"idle", "lock", "locked", "unlock"}
           /\ pc'[u] \in {"lock", "locked"} => ~CheckRule(call'[u].rule)
<1>1. CASE UNCHANGED vars
  BY <1>1 DEF vars, ThrownOf
<1>2. ASSUME NEW t \in Thread,
             \/ Invocation(t) \/ Report(t) \/ LockMutex(t)
             \/ RejectRule(t) \/ UpdateCheckMode(t) \/ LoadProcessRules(t)
             \/ StoreProcessRules(t) \/ AnswerGetRule(t)
             \/ AnswerContains(t) \/ Unlock(t)
             \/ HandleThreadCaution(t) \/ HandleProcessCaution(t)
             \/ TakeDetail(t) \/ OnThreadCautionFound(t) \/ NotifyReturn(t)
      PROVE  /\ pc'[u] \in {"idle", "lock", "locked", "unlock"}
             /\ pc'[u] \in {"lock", "locked"} => ~CheckRule(call'[u].rule)
  <2>. USE DEF TypeOK, ThrownOf, Goto
  <2>1. CASE Invocation(t)
    BY <2>1 DEF Invocation, Invoke
  <2>2. CASE Report(t)
    BY <2>2 DEF Report, Notify
  <2>3. CASE LockMutex(t) \/ RejectRule(t) \/ UpdateCheckMode(t)
    BY <2>3 DEF LockMutex, RejectRule, UpdateCheckMode
  <2>4. CASE LoadProcessRules(t) \/ StoreProcessRules(t)
    BY <2>4 DEF LoadProcessRules, StoreProcessRules
  <2>5. CASE AnswerGetRule(t) \/ AnswerContains(t) \/ Unlock(t)
    BY <2>5 DEF AnswerGetRule, AnswerContains, Unlock
  <2>6. CASE HandleThreadCaution(t) \/ HandleProcessCaution(t)
    BY <2>6 DEF HandleThreadCaution, HandleProcessCaution
  <2>7. CASE TakeDetail(t) \/ OnThreadCautionFound(t) \/ NotifyReturn(t)
    BY <2>7 DEF TakeDetail, OnThreadCautionFound, NotifyReturn
  <2>8. QED
    BY <1>2, <2>1, <2>2, <2>3, <2>4, <2>5, <2>6, <2>7
<1>3. QED
  BY <1>1, <1>2 DEF Steps

(* The call of a script throws and does nothing, or asks HiChecker of 0, or *)
(* does not throw.                                                          *)
LEMMA JsCallThrown ==
    ASSUME TypeOK, ThrownInv, NEW t \in Thread, JsCall(t)
    PROVE  ThrownInv'
<1>. USE DEF Goto, TypeOK, Outcome
<1>1. PICK error \in BOOLEAN : thrown' = [thrown EXCEPT ![t] = error]
  BY DEF JsCall, JsUpdate, JsContains, JsGetRule
<1>2. ASSUME NEW u \in Thread \ {t} PROVE ThrownOf(u)'
  <2>1. pc'[u] = pc[u] /\ call'[u] = call[u]
    BY JsCallCases DEF Invocation, Invoke, vars
  <2>2. QED
    BY <1>1, <2>1 DEF ThrownInv, ThrownOf
<1>3. ThrownOf(t)'
  <2>1. CASE JsGetRule(t)
    BY <1>1, <2>1 DEF JsGetRule, ThrownInv, ThrownOf
  <2>2. ASSUME NEW word, NEW throws \in BOOLEAN, JsContains(t, word, throws)
        PROVE  ThrownOf(t)'
    BY <2>2 DEF JsContains, Invoke, ThrownInv, ThrownOf, CheckRule
  <2>3. ASSUME NEW word, NEW throws \in BOOLEAN, NEW op, JsUpdate(t, op, word, throws)
        PROVE  ThrownOf(t)'
    BY <2>3 DEF JsUpdate, Invoke, ThrownInv, ThrownOf, vars
  <2>4. QED
    BY <2>1, <2>2, <2>3 DEF JsCall
<1>4. QED
  BY <1>1, <1>2, <1>3 DEF ThrownInv

(* A call that has thrown 401 changes no rule and is told of none.         *)
THEOREM ThrowersAreRefused == BindingsSpec => ThrownIsRefused
<1>1. BindingsInit => ThrownInv
  BY DEF BindingsInit, Init, ThrownInv, ThrownOf
<1>2. ASSUME TypeOK, ThrownInv, [BindingsNext]_<<vars, thrown>>
      PROVE  ThrownInv'
  <2>1. CASE NativeStep
    <3>1. ASSUME NEW u \in Thread PROVE ThrownOf(u)'
      <4>1. thrown'[u] = (thrown[u] /\ ~(pc[u] = "idle" /\ pc'[u] # "idle"))
        BY <2>1 DEF NativeStep
      <4>2. CASE pc[u] = "idle"
        BY <4>1, <4>2 DEF ThrownOf
      <4>3. CASE pc[u] # "idle" /\ thrown[u]
        BY <1>2, <4>1, <4>3, BindingsStepCases, StepKeepsThrown
           DEF ThrownInv, ThrownOf
      <4>4. CASE ~thrown[u]
        BY <4>1, <4>4 DEF ThrownOf
      <4>5. QED
        BY <4>2, <4>3, <4>4
    <3>2. thrown' \in [Thread -> BOOLEAN]
      BY <1>2, <2>1 DEF NativeStep, ThrownInv
    <3>3. QED
      BY <3>1, <3>2 DEF ThrownInv
  <2>2. CASE \E t \in Thread : JsCall(t)
    BY <1>2, <2>2, JsCallThrown
  <2>3. CASE UNCHANGED <<vars, thrown>>
    BY <1>2, <2>3 DEF vars, ThrownInv, ThrownOf
  <2>4. QED
    BY <1>2, <2>1, <2>2, <2>3 DEF BindingsNext
<1>3. IInv => TypeOK
  BY DEF IInv
<1>4. BindingsSpec => []ThrownInv
  BY <1>1, <1>2, <1>3, BindingsInvariance, PTL DEF BindingsSpec
<1>5. ThrownInv => \A t \in Thread :
          thrown[t] => ~UpdateCheckMode(t) /\ ~AnswerContains(t)
  BY DEF ThrownInv, ThrownOf, UpdateCheckMode, AnswerContains, Goto
<1>6. QED
  BY <1>4, <1>5, PTL DEF ThrownIsRefused

=============================================================================
