-------------------------- MODULE HiCheckerBindings --------------------------
(***************************************************************************)
(* HiChecker behind its two script bindings, napi_hichecker.cpp (JS) and   *)
(* ani_hichecker.cpp (static ArkTS): scripts call it with any value, next  *)
(* to the native callers of HiChecker.tla.  A binding turns the value into *)
(* a rule word, 0 if it cannot; the older functions then do nothing, those *)
(* named ...CheckRule throw error 401.                                     *)
(***************************************************************************)
EXTENDS HiCheckerProperties

CONSTANT JsValues  \* the values scripts pass

VARIABLE thrown    \* has the last call of a script on this thread thrown

\* A BigInt is its sign and the bits of its magnitude.  What is no BigInt, or
\* not exactly one argument, has bigint FALSE.
BigInt(sign, bits) == [bigint |-> TRUE, negative |-> sign, bits |-> bits]

\* Mutant: napi_get_value_bigint_int64, which cannot hold the highest bit.
NapiWordSigned(v) ==
    IF v.bigint /\ ~v.negative /\ v.bits \subseteq 0..62 THEN v.bits ELSE {}

\* GetRuleParam of NAPI: lossless, or refused.
NapiWord(v) ==
    IF v.bigint /\ ~v.negative /\ v.bits \subseteq Bit THEN v.bits ELSE {}

\* GetRuleParam of ANI: getLong gives the low 64 bits of the two's complement.
AniWord(v) ==
    IF ~v.bigint THEN {}
    ELSE IF ~v.negative THEN v.bits \cap Bit
    ELSE {i \in Bit : (i \in v.bits) = (\A j \in v.bits : j >= i)}

\* What getRule answers, by NAPI and by ANI.
ToUInt64Value(word)     == BigInt(FALSE, word)
BuildBigintResult(word) == BigInt(FALSE, word)

ASSUME BindingAssumption ==
    \A v \in JsValues : {NapiWord(v), AniWord(v)} \subseteq RuleArgs \cup {{}}

-----------------------------------------------------------------------------

Outcome(t, error) == thrown' = [thrown EXCEPT ![t] = error]

\* addRule and removeRule, addCheckRule and removeCheckRule.
JsUpdate(t, op, word, throws) ==
    IF word # {}
    THEN Invoke(t, op, word) /\ Outcome(t, FALSE)
    ELSE /\ Alive /\ pc[t] = "idle"
         /\ Outcome(t, throws)
         /\ UNCHANGED vars

\* contains and containsCheckRule.  HiChecker is asked of 0 as well.
JsContains(t, word, throws) ==
    /\ Invoke(t, "Contains", word)
    /\ Outcome(t, throws /\ word = {})

JsGetRule(t) == GetRule(t) /\ Outcome(t, FALSE)

JsCall(t) ==
    \/ \E v \in JsValues, throws \in BOOLEAN :
         \E word \in {NapiWord(v), AniWord(v)} :
            \/ \E op \in UpdateOps : JsUpdate(t, op, word, throws)
            \/ JsContains(t, word, throws)
    \/ JsGetRule(t)

\* Every other step; a native call that begins is no script's.
NativeStep ==
    /\ Next
    /\ thrown' = [t \in Thread |->
                    thrown[t] /\ ~(pc[t] = "idle" /\ pc'[t] # "idle")]

BindingsInit == Init /\ thrown = [t \in Thread |-> FALSE]

BindingsNext == NativeStep \/ \E t \in Thread : JsCall(t)

\* The fairness of HiChecker!FairSpec.
BindingsSpec ==
    /\ BindingsInit /\ [][BindingsNext]_<<vars, thrown>>
    /\ \A t \in Thread : WF_vars(CriticalStep(t)) /\ WF_vars(NotifyStep(t))

-----------------------------------------------------------------------------
(* Properties.                                                             *)

(* What getRule answers a script means the same when the script hands it    *)
(* back, to either binding: no bit of a rule word is lost on the way, the   *)
(* highest one, RULE_CAUTION_PRINT_LOG, included.                           *)
RuleWordRoundTrips ==
    \A t \in Thread : (pc[t] = "unlock" /\ call[t].op = "GetRule") =>
        /\ NapiWord(ToUInt64Value(ret[t])) = ret[t]
        /\ AniWord(BuildBigintResult(ret[t])) = ret[t]

(* A call that has thrown 401 changes nothing and is told of no rule.       *)
(* containsCheckRule throws and asks HiChecker all the same, so this rests  *)
(* on CheckRule to refuse the 0 it asks for.                                *)
ThrownIsRefused ==
    [][\A t \in Thread :
          thrown[t] => ~UpdateCheckMode(t) /\ ~AnswerContains(t)]_vars

=============================================================================
