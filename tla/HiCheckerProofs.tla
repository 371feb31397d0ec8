--------------------------- MODULE HiCheckerProofs ---------------------------
(***************************************************************************)
(* Proofs about HiChecker, for any number of threads and any arguments.    *)
(***************************************************************************)
EXTENDS HiCheckerProperties, TLAPS

-----------------------------------------------------------------------------
(* Every call of an operation is an Invocation, every notification a        *)
(* Report; a Report whose guard fails was made under a rule that is not in  *)
(* force.                                                                   *)

Args == RuleArgs \cup {{}, ALLOWED_RULE}

Invocation(t) ==
    \E op \in UpdateOps \cup QueryOps, rule \in Args : Invoke(t, op, rule)

Report(t) ==
    \E rule \in Mask, trigger \in Mask :
        \/ Notify(t, rule, trigger, TRUE)
        \/ /\ Notify(t, rule, trigger, FALSE)
           /\ rule \cap (threadLocalRules[t] \cup processRules) = {}

(* The operations pass a word of a caller, none, or the allowed one.        *)
LEMMA InvocationCases ==
    ASSUME NEW t \in Thread,
           AddRule(t) \/ RemoveRule(t) \/ GetRule(t) \/ Contains(t)
             \/ InitHicheckerParam(t)
    PROVE  Invocation(t)
<1>1. CASE AddRule(t)
  BY <1>1 DEF AddRule, Invocation, UpdateOps, Args
<1>2. CASE RemoveRule(t)
  BY <1>2 DEF RemoveRule, Invocation, UpdateOps, Args
<1>3. CASE GetRule(t)
  BY <1>3 DEF GetRule, Invocation, QueryOps, Args
<1>4. CASE Contains(t)
  BY <1>4 DEF Contains, Invocation, QueryOps, Args
<1>5. CASE InitHicheckerParam(t)
  <2>1. PICK value \in ParamValues : /\ value \cap ALLOWED_RULE # {}
                                     /\ Invoke(t, "AddRule", value \cap ALLOWED_RULE)
    BY <1>5 DEF InitHicheckerParam
  <2>2. value \cap ALLOWED_RULE = ALLOWED_RULE
    BY <2>1 DEF ALLOWED_RULE
  <2>. QED BY <2>1, <2>2 DEF Invocation, UpdateOps, Args
<1>. QED BY <1>1, <1>2, <1>3, <1>4, <1>5

LEMMA ArgsAreMasks == Args \subseteq Mask
BY ConstantsAssumption
   DEF Args, Mask, Bit, ALLOWED_RULE, RULE_CHECK_ARKUI_PERFORMANCE

(* The scopes of the two words keep a rule of one out of the other, so the  *)
(* guards that look at one word only decide for both.                       *)
LEMMA ReportCases ==
    ASSUME TypeOK, NEW t \in Thread,
           NotifySlowProcess(t) \/ NotifyNetWorkUsage(t) \/ NotifySlowEvent(t)
             \/ NotifyAbilityConnectionLeak(t) \/ NotifyCaution(t)
    PROVE  Report(t)
<1>1. /\ threadLocalRules[t] \subseteq ThreadScope
      /\ processRules \subseteq ProcessScope
  BY DEF TypeOK
<1>. USE DEF RULE_THREAD_CHECK_SLOW_PROCESS, RULE_THREAD_CHECK_NETWORK_USAGE,
       RULE_CHECK_SLOW_EVENT, RULE_CHECK_ABILITY_CONNECTION_LEAK,
       RULE_CHECK_ARKUI_PERFORMANCE, RULE_CAUTION_PRINT_LOG,
       RULE_CAUTION_TRIGGER_CRASH
<1>2. /\ RULE_THREAD_CHECK_SLOW_PROCESS \notin processRules
      /\ RULE_THREAD_CHECK_NETWORK_USAGE \notin processRules
      /\ RULE_CHECK_SLOW_EVENT \notin threadLocalRules[t]
      /\ RULE_CHECK_ABILITY_CONNECTION_LEAK \notin threadLocalRules[t]
  BY <1>1 DEF ThreadScope, ProcessScope, ALL_THREAD_RULES, ALL_PROCESS_RULES,
       ALL_CAUTION_RULES
<1>3. /\ {RULE_THREAD_CHECK_SLOW_PROCESS} \in Mask
      /\ {RULE_THREAD_CHECK_NETWORK_USAGE} \in Mask
      /\ {RULE_CHECK_SLOW_EVENT} \in Mask
      /\ {RULE_CHECK_ABILITY_CONNECTION_LEAK} \in Mask
  BY DEF Mask, Bit
<1>4. CASE NotifySlowProcess(t)
  BY <1>2, <1>3, <1>4 DEF NotifySlowProcess, Report, Notify
<1>5. CASE NotifyNetWorkUsage(t)
  BY <1>2, <1>3, <1>5 DEF NotifyNetWorkUsage, Report, Notify
<1>6. CASE NotifySlowEvent(t)
  BY <1>2, <1>3, <1>6 DEF NotifySlowEvent, Report, Notify
<1>7. CASE NotifyAbilityConnectionLeak(t)
  <2>1. PICK trigger \in Triggers :
            Notify(t, {RULE_CHECK_ABILITY_CONNECTION_LEAK}, trigger,
                   RULE_CHECK_ABILITY_CONNECTION_LEAK \in processRules)
    BY <1>7, Zenon DEF NotifyAbilityConnectionLeak
  <2>2. trigger \in Mask
    BY ConstantsAssumption
  <2>3. CASE RULE_CHECK_ABILITY_CONNECTION_LEAK \in processRules
    <3>1. Notify(t, {RULE_CHECK_ABILITY_CONNECTION_LEAK}, trigger, TRUE)
      BY <2>1, <2>3 DEF Notify
    <3>. QED BY <1>3, <2>2, <3>1 DEF Report
  <2>4. CASE RULE_CHECK_ABILITY_CONNECTION_LEAK \notin processRules
    <3>1. Notify(t, {RULE_CHECK_ABILITY_CONNECTION_LEAK}, trigger, FALSE)
      BY <2>1, <2>4 DEF Notify
    <3>2. {RULE_CHECK_ABILITY_CONNECTION_LEAK}
              \cap (threadLocalRules[t] \cup processRules) = {}
      BY <1>2, <2>4
    <3>. QED BY <1>3, <2>2, <3>1, <3>2 DEF Report
  <2>. QED BY <2>3, <2>4
<1>8. CASE NotifyCaution(t)
  BY <1>8, ConstantsAssumption DEF NotifyCaution, Report, Notify
<1>. QED BY <1>4, <1>5, <1>6, <1>7, <1>8

(* The steps of HiChecker, with the calls gathered.  The lemmas on steps    *)
(* are about these, so that they hold behind a script binding as well.      *)
Steps ==
    \/ UNCHANGED vars
    \/ \E t \in Thread :
         \/ Invocation(t) \/ Report(t) \/ LockMutex(t)
         \/ RejectRule(t) \/ UpdateCheckMode(t) \/ LoadProcessRules(t)
         \/ StoreProcessRules(t) \/ AnswerGetRule(t)
         \/ AnswerContains(t) \/ Unlock(t)
         \/ HandleThreadCaution(t) \/ HandleProcessCaution(t)
         \/ TakeDetail(t) \/ OnThreadCautionFound(t) \/ NotifyReturn(t)

LEMMA StepCases == TypeOK /\ [Next]_vars => Steps
BY InvocationCases, ReportCases DEF Steps, Next, CriticalStep, NotifyStep

-----------------------------------------------------------------------------
(* Types.                                                                   *)

(* A mask cut to a scope is a mask, and the scopes hold rules only.         *)
LEMMA Scopes ==
    /\ ThreadScope \in Mask
    /\ ProcessScope \in Mask
    /\ {} \in Mask
    /\ \A rules \in Mask : WithDefaultCaution(rules) \in Mask
BY DEF ThreadScope, ProcessScope, Mask, Bit, ALL_THREAD_RULES,
       ALL_PROCESS_RULES, ALL_CAUTION_RULES, WithDefaultCaution,
       RULE_THREAD_CHECK_SLOW_PROCESS, RULE_THREAD_CHECK_NETWORK_USAGE,
       RULE_CHECK_SLOW_EVENT, RULE_CHECK_ABILITY_CONNECTION_LEAK,
       RULE_CHECK_ARKUI_PERFORMANCE, RULE_CAUTION_PRINT_LOG,
       RULE_CAUTION_TRIGGER_CRASH

(* The part of the types the store of the shared word depends on: a word    *)
(* that has been loaded is a value processRules may have.                   *)
LoadedInv ==
    \A t \in Thread : pc[t] = "store" => loaded[t] \in SUBSET ProcessScope

LEMMA TypeInit == Init => TypeOK /\ LoadedInv
<1>1. NoCall \in [op : Op, rule : Mask, trigger : Mask]
  BY Scopes DEF NoCall, Op
<1>2. "idle" \in PC
  BY DEF PC
<1>3. ASSUME Init PROVE TypeOK
  <2>1. call \in [Thread -> [op : Op, rule : Mask, trigger : Mask]]
    BY <1>1, <1>3 DEF Init
  <2>2. pc \in [Thread -> PC]
    BY <1>2, <1>3 DEF Init
  <2>. QED BY <1>3, <2>1, <2>2, Scopes DEF Init, TypeOK
<1>4. Init => LoadedInv
  BY DEF Init, LoadedInv
<1>. QED BY <1>3, <1>4

LEMMA TypeStep == TypeOK /\ LoadedInv /\ Steps => TypeOK' /\ LoadedInv'
<1>. SUFFICES ASSUME TypeOK, LoadedInv, Steps
              PROVE  TypeOK' /\ LoadedInv'
  OBVIOUS
<1>1. CASE UNCHANGED vars
  BY <1>1 DEF vars, shared, history, TypeOK, LoadedInv
<1>2. ASSUME NEW t \in Thread,
             Invocation(t) \/ Report(t) \/ LockMutex(t) \/ RejectRule(t)
               \/ Unlock(t) \/ HandleProcessCaution(t) \/ NotifyReturn(t)
      PROVE  TypeOK' /\ LoadedInv'
  <2>. USE Scopes DEF TypeOK, LoadedInv, Goto, shared, history, PC, Critical,
         Deciding
  <2>1. CASE Invocation(t)
    BY <2>1, ArgsAreMasks DEF Invocation, Invoke, Op
  <2>2. CASE Report(t)
    <3>1. PICK rule \in Mask, trigger \in Mask :
              Notify(t, rule, trigger, TRUE) \/ Notify(t, rule, trigger, FALSE)
      BY <2>2 DEF Report
    <3>2. CASE Notify(t, rule, trigger, TRUE)
      BY <3>2 DEF Notify, Op
    <3>3. CASE Notify(t, rule, trigger, FALSE)
      BY <3>3 DEF Notify, Op
    <3>. QED BY <3>1, <3>2, <3>3
  <2>3. CASE LockMutex(t)
    BY <2>3 DEF LockMutex
  <2>4. CASE RejectRule(t)
    BY <2>4 DEF RejectRule
  <2>5. CASE Unlock(t)
    BY <2>5 DEF Unlock, NoCall, Op
  <2>6. CASE HandleProcessCaution(t)
    BY <2>6 DEF HandleProcessCaution
  <2>7. CASE NotifyReturn(t)
    BY <2>7 DEF NotifyReturn, NoCall, Op
  <2>. QED BY <1>2, <2>1, <2>2, <2>3, <2>4, <2>5, <2>6, <2>7
<1>3. ASSUME NEW t \in Thread,
             UpdateCheckMode(t) \/ LoadProcessRules(t) \/ AnswerGetRule(t)
               \/ AnswerContains(t) \/ HandleThreadCaution(t) \/ TakeDetail(t)
               \/ OnThreadCautionFound(t)
      PROVE  TypeOK' /\ LoadedInv'
  <2>. USE Scopes DEF TypeOK, LoadedInv, Goto, shared, history, PC, Critical,
         Deciding
  <2>1. CASE UpdateCheckMode(t)
    BY <2>1 DEF UpdateCheckMode
  <2>2. CASE LoadProcessRules(t)
    BY <2>2 DEF LoadProcessRules, Mask
  <2>3. CASE AnswerGetRule(t)
    BY <2>3 DEF AnswerGetRule, Mask
  <2>4. CASE AnswerContains(t)
    BY <2>4 DEF AnswerContains
  <2>5. CASE HandleThreadCaution(t)
    BY <2>5 DEF HandleThreadCaution, Mask
  <2>6. CASE TakeDetail(t)
    BY <2>6 DEF TakeDetail, Mask
  <2>7. CASE OnThreadCautionFound(t)
    BY <2>7 DEF OnThreadCautionFound
  <2>. QED BY <1>3, <2>1, <2>2, <2>3, <2>4, <2>5, <2>6, <2>7
<1>4. ASSUME NEW t \in Thread, StoreProcessRules(t)
      PROVE  TypeOK' /\ LoadedInv'
  <2>1. NewProcessRules(t) \in SUBSET ProcessScope
    BY <1>4 DEF StoreProcessRules, Goto, NewProcessRules, LoadedInv, TypeOK
  <2>2. NewLocalRules(t) \in SUBSET ThreadScope
    BY DEF NewLocalRules, TypeOK
  <2>3. /\ processRules' \in SUBSET ProcessScope
        /\ threadLocalRules' \in [Thread -> SUBSET ThreadScope]
    BY <1>4, <2>1, <2>2 DEF StoreProcessRules, TypeOK
  <2>4. /\ ever' \in [Thread -> SUBSET ProcessScope]
        /\ always' \in [Thread -> SUBSET ProcessScope]
    BY <1>4, <2>3 DEF StoreProcessRules, TypeOK
  <2>5. /\ pc' \in [Thread -> PC]
        /\ loaded' \in [Thread -> Mask]
        /\ UNCHANGED <<mutexLock, checkMode, call, ret>>
    BY <1>4, Scopes DEF StoreProcessRules, Goto, TypeOK, PC, Critical
  <2>6. LoadedInv'
    BY <1>4 DEF StoreProcessRules, Goto, TypeOK, LoadedInv
  <2>. QED BY <2>3, <2>4, <2>5, <2>6 DEF TypeOK
<1>. QED BY <1>1, <1>2, <1>3, <1>4 DEF Steps

(* Every word only ever holds the bits that are its own, whatever the       *)
(* callers pass.                                                            *)
THEOREM TypeCorrect == Spec => []TypeOK
<1>1. Spec => [](TypeOK /\ LoadedInv)
  BY TypeInit, TypeStep, StepCases, PTL DEF Spec
<1>. QED BY <1>1, PTL

-----------------------------------------------------------------------------
(* The mutex and what it protects.                                          *)

RegistryInv == MutexInv /\ CallInv /\ LoadInv /\ ModeInv

LEMMA RegistryInit == Init => RegistryInv
BY ConstantsAssumption
   DEF Init, RegistryInv, MutexInv, CallInv, LoadInv, ModeInv, Critical,
       Updating

(* A notification touches nothing the mutex protects.                       *)
LEMMA NotifyKeepsRegistry ==
    ASSUME TypeOK, RegistryInv, NEW t \in Thread,
           Report(t) \/ HandleThreadCaution(t) \/ HandleProcessCaution(t)
             \/ TakeDetail(t) \/ OnThreadCautionFound(t) \/ NotifyReturn(t)
    PROVE  RegistryInv'
<1>1. /\ UNCHANGED shared
      /\ \A u \in Thread \ {t} :
             pc'[u] = pc[u] /\ call'[u] = call[u] /\ loaded'[u] = loaded[u]
      /\ ret' = ret
  BY DEF Report, Notify, HandleThreadCaution, HandleProcessCaution, TakeDetail,
         OnThreadCautionFound, NotifyReturn, Goto, TypeOK, shared
<1>2. /\ pc[t] \notin Critical \cup {"lock"}
      /\ pc'[t] \notin Critical \cup {"lock"}
  BY DEF Report, Notify, HandleThreadCaution, HandleProcessCaution, TakeDetail,
         OnThreadCautionFound, NotifyReturn, Goto, TypeOK, Critical
<1>. QED
  BY <1>1, <1>2 DEF RegistryInv, MutexInv, CallInv, LoadInv, ModeInv, shared,
       Critical, Updating

(* Only the owner of the mutex is between load and store.                   *)
LEMMA OneUpdater ==
    ASSUME MutexInv, NEW t \in Thread, pc[t] \in Critical,
           NEW u \in Thread \ {t}
    PROVE  pc[u] \notin Critical
BY DEF MutexInv

LEMMA OperationKeepsRegistry ==
    ASSUME TypeOK, RegistryInv, NEW t \in Thread,
           Invocation(t) \/ LockMutex(t) \/ RejectRule(t) \/ AnswerGetRule(t)
             \/ AnswerContains(t) \/ Unlock(t)
    PROVE  RegistryInv'
<1>. USE DEF RegistryInv, MutexInv, CallInv, LoadInv, ModeInv, Critical,
       Updating, Goto, TypeOK, shared
<1>1. CASE Invocation(t)
  BY <1>1 DEF Invocation, Invoke
<1>2. CASE LockMutex(t)
  BY <1>2, ConstantsAssumption DEF LockMutex
<1>3. CASE RejectRule(t)
  BY <1>3 DEF RejectRule
<1>4. CASE AnswerGetRule(t)
  BY <1>4 DEF AnswerGetRule
<1>5. CASE AnswerContains(t)
  BY <1>5 DEF AnswerContains
<1>6. CASE Unlock(t)
  BY <1>6, ConstantsAssumption DEF Unlock
<1>. QED BY <1>1, <1>2, <1>3, <1>4, <1>5, <1>6

LEMMA UpdateCheckModeKeepsRegistry ==
    ASSUME TypeOK, RegistryInv, NEW t \in Thread, UpdateCheckMode(t)
    PROVE  RegistryInv'
<1>1. /\ pc[t] = "locked" /\ pc' = [pc EXCEPT ![t] = "load"]
      /\ UNCHANGED <<mutexLock, processRules, call, loaded, ret>>
      /\ call[t].op \in UpdateOps /\ CheckRule(call[t].rule)
  BY DEF UpdateCheckMode, Goto
<1>2. \A u \in Thread \ {t} : pc[u] \notin Critical /\ pc'[u] = pc[u]
  BY <1>1, OneUpdater DEF RegistryInv, Critical, TypeOK
<1>3. MutexInv' /\ CallInv' /\ LoadInv'
  BY <1>1, <1>2 DEF RegistryInv, MutexInv, CallInv, LoadInv, Critical,
       Updating, TypeOK
<1>4. checkMode <=> RULE_CHECK_SLOW_EVENT \in processRules
  BY <1>1, <1>2 DEF RegistryInv, ModeInv, Critical, Updating
<1>5. checkMode' <=> IF RULE_CHECK_SLOW_EVENT \in call[t].rule
                     THEN call[t].op = "AddRule"
                     ELSE RULE_CHECK_SLOW_EVENT \in processRules
  BY <1>4 DEF UpdateCheckMode
<1>6. ModeInv'
  BY <1>1, <1>2, <1>5 DEF ModeInv, Critical, Updating, TypeOK
<1>. QED BY <1>3, <1>6 DEF RegistryInv

LEMMA LoadKeepsRegistry ==
    ASSUME TypeOK, RegistryInv, NEW t \in Thread, LoadProcessRules(t)
    PROVE  RegistryInv'
<1>1. \A u \in Thread \ {t} : pc[u] \notin Critical
  BY OneUpdater DEF LoadProcessRules, Goto, RegistryInv, Critical
<1>. QED
  BY <1>1 DEF LoadProcessRules, Goto, RegistryInv, MutexInv, CallInv, LoadInv,
       ModeInv, Critical, Updating, TypeOK, shared

(* The heart of it: what was loaded is still there when it is stored, so    *)
(* the store adds or removes the rule and nothing else, and checkMode_ is   *)
(* again a copy of the bit.                                                 *)
LEMMA StoreEffect ==
    ASSUME TypeOK, RegistryInv, NEW t \in Thread, pc[t] = "store"
    PROVE  NewProcessRules(t) =
               IF call[t].op = "AddRule"
               THEN processRules \cup (call[t].rule \cap ProcessScope)
               ELSE processRules \ call[t].rule
BY DEF NewProcessRules, RegistryInv, LoadInv

LEMMA StoreKeepsRegistry ==
    ASSUME TypeOK, RegistryInv, NEW t \in Thread, StoreProcessRules(t)
    PROVE  RegistryInv'
<1>1. /\ pc[t] = "store" /\ pc' = [pc EXCEPT ![t] = "unlock"]
      /\ UNCHANGED <<mutexLock, checkMode, call, ret>>
      /\ processRules' = NewProcessRules(t)
  BY DEF StoreProcessRules, Goto
<1>2. \A u \in Thread \ {t} : pc[u] \notin Critical /\ pc'[u] = pc[u]
  BY <1>1, OneUpdater DEF RegistryInv, Critical, TypeOK
<1>3. MutexInv' /\ CallInv' /\ LoadInv'
  BY <1>1, <1>2 DEF RegistryInv, MutexInv, CallInv, LoadInv, Critical,
       Updating, TypeOK
<1>4. RULE_CHECK_SLOW_EVENT \in ProcessScope
  BY DEF ProcessScope, ALL_PROCESS_RULES
<1>5. checkMode <=> RULE_CHECK_SLOW_EVENT \in processRules'
  BY <1>1, <1>4, StoreEffect DEF RegistryInv, ModeInv, CallInv, Updating,
       UpdateOps
<1>6. ModeInv'
  BY <1>1, <1>2, <1>5 DEF ModeInv, Critical, Updating, TypeOK
<1>. QED BY <1>3, <1>6 DEF RegistryInv

LEMMA RegistryStep == TypeOK /\ RegistryInv /\ Steps => RegistryInv'
<1>1. ASSUME UNCHANGED vars, RegistryInv PROVE RegistryInv'
  BY <1>1 DEF vars, shared, RegistryInv, MutexInv, CallInv, LoadInv, ModeInv
<1>. QED
  BY <1>1, NotifyKeepsRegistry, OperationKeepsRegistry,
     UpdateCheckModeKeepsRegistry, LoadKeepsRegistry, StoreKeepsRegistry
     DEF Steps

LEMMA RegistryInvariant == Spec => []RegistryInv
BY TypeCorrect, RegistryInit, RegistryStep, StepCases, PTL DEF Spec

(* checkMode_ and the SLOW_EVENT bit agree whenever the mutex is free.      *)
THEOREM SlowEventModeCorrect == Spec => []SlowEventModeAgrees
<1>1. RegistryInv => SlowEventModeAgrees
  BY ConstantsAssumption
     DEF RegistryInv, MutexInv, ModeInv, SlowEventModeAgrees, Critical, Updating
<1>. QED BY <1>1, RegistryInvariant, PTL

(* A reader without the lock sees the old word or the new one, on every     *)
(* machine: all the bits of the shared word are in its high half.           *)
THEOREM NoTearing == Spec => []NoTornMask
<1>1. ASSUME NEW m \in SUBSET ProcessScope
      PROVE  LowWord(m) = {} /\ HighWord(m) = m
  <2>1. \A b \in ProcessScope : b \in 32..63 /\ b \notin 0..31
    BY DEF ProcessScope, ALL_PROCESS_RULES, ALL_CAUTION_RULES,
           RULE_CHECK_SLOW_EVENT, RULE_CHECK_ABILITY_CONNECTION_LEAK,
           RULE_CHECK_ARKUI_PERFORMANCE, RULE_CAUTION_PRINT_LOG,
           RULE_CAUTION_TRIGGER_CRASH
  <2>2. m \cap 0..31 = {}
    BY <2>1, Zenon
  <2>3. m \cap 32..63 = m
    BY <2>1, Zenon
  <2>. QED BY <2>2, <2>3 DEF LowWord, HighWord
<1>2. ASSUME TypeOK, RegistryInv PROVE NoTornMask
  <2>1. ASSUME NEW t \in Thread, pc[t] = "store"
        PROVE  /\ processRules \in SUBSET ProcessScope
               /\ NewProcessRules(t) \in SUBSET ProcessScope
    BY <1>2, <2>1, StoreEffect DEF TypeOK
  <2>. QED BY <1>1, <2>1 DEF NoTornMask
<1>. QED BY <1>2, TypeCorrect, RegistryInvariant, PTL

-----------------------------------------------------------------------------
(* HiChecker implements RuleRegistry.                                       *)

LEMMA RefinementInit == Init => Registry!Init
BY DEF Init, Registry!Init, Request, Registry!NoRequest, Registry!NoReply

(* Everything but a call, a return and the deciding step of an operation is *)
(* invisible.                                                               *)
LEMMA RefinementStutter ==
    ASSUME TypeOK, NEW t \in Thread,
           \/ Report(t) \/ LockMutex(t) \/ UpdateCheckMode(t)
           \/ LoadProcessRules(t) \/ HandleThreadCaution(t)
           \/ HandleProcessCaution(t) \/ TakeDetail(t)
           \/ OnThreadCautionFound(t) \/ NotifyReturn(t)
    PROVE  UNCHANGED Registry!vars
<1>1. UNCHANGED <<processRules, threadLocalRules, ret>>
  BY DEF Report, Notify, LockMutex, UpdateCheckMode, LoadProcessRules,
         HandleThreadCaution, HandleProcessCaution, TakeDetail,
         OnThreadCautionFound, NotifyReturn, shared
<1>2. \A u \in Thread \ {t} : pc'[u] = pc[u] /\ call'[u] = call[u]
  BY DEF Report, Notify, LockMutex, UpdateCheckMode, LoadProcessRules,
         HandleThreadCaution, HandleProcessCaution, TakeDetail,
         OnThreadCautionFound, NotifyReturn, Goto, TypeOK
<1>3. Request(t)' = Request(t)
  BY DEF Report, Notify, LockMutex, UpdateCheckMode, LoadProcessRules,
         HandleThreadCaution, HandleProcessCaution, TakeDetail,
         OnThreadCautionFound, NotifyReturn, Goto, TypeOK, Request
<1>4. \A u \in Thread : Request(u)' = Request(u)
  BY <1>2, <1>3 DEF Request
<1>. QED BY <1>1, <1>4 DEF Registry!vars

(* Both modules speak of the same rules.                                    *)
LEMMA SameRules ==
    /\ Registry!ProcessScope = ProcessScope
    /\ Registry!ThreadScope = ThreadScope
    /\ Registry!ALLOWED_RULE = ALLOWED_RULE
    /\ \A rule : Registry!CheckRule(rule) <=> CheckRule(rule)
<1>1. /\ Registry!ALL_PROCESS_RULES = ALL_PROCESS_RULES
      /\ Registry!ALL_THREAD_RULES = ALL_THREAD_RULES
      /\ Registry!ALL_CAUTION_RULES = ALL_CAUTION_RULES
      /\ Registry!ALLOWED_RULE = ALLOWED_RULE
  BY DEF Registry!ALL_PROCESS_RULES, ALL_PROCESS_RULES,
         Registry!ALL_THREAD_RULES, ALL_THREAD_RULES,
         Registry!ALL_CAUTION_RULES, ALL_CAUTION_RULES,
         Registry!ALLOWED_RULE, ALLOWED_RULE,
         Registry!RULE_CHECK_SLOW_EVENT, RULE_CHECK_SLOW_EVENT,
         Registry!RULE_CHECK_ABILITY_CONNECTION_LEAK,
         RULE_CHECK_ABILITY_CONNECTION_LEAK,
         Registry!RULE_CHECK_ARKUI_PERFORMANCE, RULE_CHECK_ARKUI_PERFORMANCE,
         Registry!RULE_THREAD_CHECK_SLOW_PROCESS, RULE_THREAD_CHECK_SLOW_PROCESS,
         Registry!RULE_THREAD_CHECK_NETWORK_USAGE, RULE_THREAD_CHECK_NETWORK_USAGE,
         Registry!RULE_CAUTION_PRINT_LOG, RULE_CAUTION_PRINT_LOG,
         Registry!RULE_CAUTION_TRIGGER_CRASH, RULE_CAUTION_TRIGGER_CRASH
<1>2. Registry!ALL_RULES = ALL_RULES
  BY <1>1 DEF Registry!ALL_RULES, ALL_RULES
<1>. QED
  BY <1>1, <1>2 DEF Registry!ProcessScope, ProcessScope, Registry!ThreadScope,
       ThreadScope, Registry!CheckRule, CheckRule

(* A step of t leaves the request of every other thread alone.              *)
LEMMA RefinementCall ==
    ASSUME TypeOK, NEW t \in Thread, Invocation(t)
    PROVE  Registry!Call(t)
<1>1. PICK op \in UpdateOps \cup QueryOps, rule \in Args : Invoke(t, op, rule)
  BY DEF Invocation
<1>2. /\ Request(t).op = "none"
      /\ Request(t)' = [op |-> op, rule |-> rule]
      /\ \A u \in Thread \ {t} : Request(u)' = Request(u)
      /\ UNCHANGED <<processRules, threadLocalRules, ret>>
  BY <1>1 DEF Invoke, Goto, Request, TypeOK, shared
<1>3. op \in {"AddRule", "RemoveRule", "GetRule", "Contains"}
  BY DEF UpdateOps, QueryOps
<1>4. rule \in RuleArgs \cup {{}, Registry!ALLOWED_RULE}
  BY SameRules DEF Args
<1>. QED BY <1>2, <1>3, <1>4 DEF Registry!Call, Registry!Pending

(* The steps that decide an operation.                                      *)
LEMMA RefinementDecide ==
    ASSUME TypeOK, RegistryInv, NEW t \in Thread,
           StoreProcessRules(t) \/ RejectRule(t) \/ AnswerGetRule(t)
             \/ AnswerContains(t)
    PROVE  \/ Registry!AddRule(t) \/ Registry!RemoveRule(t)
           \/ Registry!Reject(t) \/ Registry!GetRule(t) \/ Registry!Contains(t)
<1>1. /\ Request(t) = [op |-> call[t].op, rule |-> call[t].rule]
      /\ Request(t)' = Registry!Answered
      /\ \A u \in Thread \ {t} : Request(u)' = Request(u)
  BY DEF StoreProcessRules, RejectRule, AnswerGetRule, AnswerContains, Goto,
         TypeOK, Request, Registry!Answered
<1>2. [u \in Thread |-> Request(u)]' =
          [[u \in Thread |-> Request(u)] EXCEPT ![t] = Registry!Answered]
  BY <1>1
<1>3. pc[t] # "unlock" /\ ret[t] = {}
  BY DEF StoreProcessRules, RejectRule, AnswerGetRule, AnswerContains, Goto,
         RegistryInv, CallInv
<1>. DEFINE request == [u \in Thread |-> Request(u)]
<1>r. request[t].op = call[t].op /\ request[t].rule = call[t].rule
  BY <1>1
<1>p. ASSUME NEW op, call[t].op = op PROVE Registry!Pending(t, op)
  BY <1>r, <1>p DEF Registry!Pending
<1>d. ASSUME NEW answer, ret' = [ret EXCEPT ![t] = answer]
      PROVE  Registry!Done(t, answer)
  BY <1>2, <1>d DEF Registry!Done
<1>. HIDE DEF request
<1>4. CASE StoreProcessRules(t)
  <2>1. /\ pc[t] = "store"
        /\ processRules' = NewProcessRules(t)
        /\ threadLocalRules' = [threadLocalRules EXCEPT ![t] = NewLocalRules(t)]
        /\ ret' = [ret EXCEPT ![t] = Registry!NoReply]
    BY <1>3, <1>4 DEF StoreProcessRules, Goto, TypeOK, Registry!NoReply
  <2>2. call[t].op \in UpdateOps /\ CheckRule(call[t].rule)
    BY <2>1 DEF RegistryInv, CallInv, Updating
  <2>3. CASE call[t].op = "AddRule"
    <3>1. /\ processRules' = processRules \cup (call[t].rule \cap ProcessScope)
          /\ threadLocalRules' = [threadLocalRules EXCEPT ![t] =
                 threadLocalRules[t] \cup (call[t].rule \cap ThreadScope)]
      BY <2>1, <2>3, StoreEffect DEF NewLocalRules
    <3>. QED
      BY <1>r, <1>p, <1>d, <2>1, <2>2, <2>3, <3>1, SameRules
         DEF Registry!AddRule, request
  <2>4. CASE call[t].op = "RemoveRule"
    <3>1. /\ processRules' = processRules \ call[t].rule
          /\ threadLocalRules' = [threadLocalRules EXCEPT ![t] =
                 threadLocalRules[t] \ call[t].rule]
      BY <2>1, <2>4, StoreEffect DEF NewLocalRules
    <3>. QED
      BY <1>r, <1>p, <1>d, <2>1, <2>2, <2>4, <3>1, SameRules
         DEF Registry!RemoveRule, request
  <2>. QED BY <2>2, <2>3, <2>4 DEF UpdateOps
<1>5. CASE RejectRule(t)
  <2>1. /\ call[t].op \in {"AddRule", "RemoveRule", "Contains"}
        /\ ~CheckRule(call[t].rule)
        /\ UNCHANGED <<processRules, threadLocalRules>>
    BY <1>5 DEF RejectRule, RegistryInv, CallInv, UpdateOps, QueryOps, Goto,
         shared
  <2>2. ret' = [ret EXCEPT ![t] = Registry!NoReply]
    BY <1>3, <1>5 DEF RejectRule, TypeOK, Registry!NoReply
  <2>. QED
    BY <1>r, <1>p, <1>d, <2>1, <2>2, SameRules DEF Registry!Reject, request
<1>6. CASE AnswerGetRule(t)
  BY <1>p, <1>d, <1>6 DEF AnswerGetRule, shared, Registry!GetRule
<1>7. CASE AnswerContains(t)
  <2>1. /\ call[t].op = "Contains" /\ CheckRule(call[t].rule)
        /\ ret' = [ret EXCEPT ![t] =
               IF call[t].rule \subseteq threadLocalRules[t] \cup processRules
               THEN call[t].rule ELSE {}]
        /\ UNCHANGED <<processRules, threadLocalRules>>
    BY <1>7 DEF AnswerContains, shared
  <2>. QED
    BY <1>r, <1>p, <1>d, <2>1, SameRules
       DEF Registry!Contains, Registry!NoReply, request
<1>. QED BY <1>4, <1>5, <1>6, <1>7

LEMMA RefinementReturn ==
    ASSUME TypeOK, NEW t \in Thread, Unlock(t)
    PROVE  Registry!Return(t)
<1>1. /\ Request(t) = Registry!Answered
      /\ Request(t)' = Registry!NoRequest
      /\ \A u \in Thread \ {t} : Request(u)' = Request(u)
  BY DEF Unlock, Goto, TypeOK, Request, Registry!Answered, Registry!NoRequest
<1>2. [u \in Thread |-> Request(u)]' =
          [[u \in Thread |-> Request(u)] EXCEPT ![t] = Registry!NoRequest]
  BY <1>1
<1>3. Registry!Pending(t, "done")
  BY <1>1 DEF Registry!Pending, Registry!Answered
<1>. QED
  BY <1>2, <1>3 DEF Unlock, Registry!Return, Registry!NoReply

LEMMA RefinementStep ==
    ASSUME TypeOK, RegistryInv, Steps
    PROVE  [Registry!Next]_Registry!vars
<1>1. CASE UNCHANGED vars
  <2>1. \A u \in Thread : Request(u)' = Request(u)
    BY <1>1 DEF vars, Request
  <2>. QED BY <1>1, <2>1 DEF vars, shared, Registry!vars
<1>. QED
  BY <1>1, RefinementStutter, RefinementCall, RefinementDecide,
     RefinementReturn DEF Registry!Next, Steps

(* Every behaviour of the code is one of the abstract registry: updates by  *)
(* any number of threads are atomic and none is lost.                       *)
THEOREM ImplementsRegistry == Spec => RegistryAtomic
<1>1. Spec => Registry!Init
  BY RefinementInit DEF Spec
<1>2. Spec => [][Registry!Next]_Registry!vars
  BY TypeCorrect, RegistryInvariant, RefinementStep, StepCases, PTL DEF Spec
<1>. QED BY <1>1, <1>2 DEF RegistryAtomic, Registry!Spec

-----------------------------------------------------------------------------
(* Notifications: what the history brackets, and what an outcome implies.   *)

AlarmInv ==
    WindowInv /\ AlarmJustified /\ AlarmNotLost /\ CrashJustified /\ CrashHonoured

LEMMA AlarmInit == Init => AlarmInv
BY DEF Init, AlarmInv, WindowInv, AlarmJustified, AlarmNotLost, CrashJustified,
       CrashHonoured, Deciding

(* The invariant speaks of a thread's own state, its history and the shared *)
(* word; a step that keeps the word disturbs one thread at most.            *)
AlarmInvOf(t) ==
    LET private == call[t].trigger \cap threadLocalRules[t] # {} IN
    /\ pc[t] \in Deciding =>
           always[t] \subseteq processRules /\ processRules \subseteq ever[t]
    /\ pc[t] = "take" => ~private /\ call[t].trigger \cap ever[t] # {}
    /\ pc[t] = "detail" =>
           IF private THEN loaded[t] = threadLocalRules[t]
           ELSE /\ call[t].trigger \cap ever[t] # {}
                /\ always[t] \subseteq loaded[t]
                /\ loaded[t] \subseteq ever[t]
    /\ pc[t] \in {"logged", "crashed"} =>
           call[t].trigger \cap (threadLocalRules[t] \cup ever[t]) # {}
    /\ pc[t] = "ignored" =>
           LET stable == threadLocalRules[t] \cup always[t]
           IN call[t].rule \cap stable = {} \/ call[t].trigger \cap stable = {}
    /\ pc[t] = "crashed" =>
           RULE_CAUTION_TRIGGER_CRASH \in threadLocalRules[t] \cup ever[t]
    /\ pc[t] = "logged" =>
           RULE_CAUTION_TRIGGER_CRASH \notin
               IF private THEN threadLocalRules[t] ELSE always[t]

LEMMA AlarmInvByThread == AlarmInv <=> \A t \in Thread : AlarmInvOf(t)
BY DEF AlarmInv, AlarmInvOf, WindowInv, AlarmJustified, AlarmNotLost,
       CrashJustified, CrashHonoured

LEMMA OthersKeepAlarms ==
    ASSUME NEW u \in Thread, AlarmInvOf(u), UNCHANGED processRules,
           /\ pc'[u] = pc[u] /\ call'[u] = call[u] /\ loaded'[u] = loaded[u]
           /\ threadLocalRules'[u] = threadLocalRules[u]
           /\ ever'[u] = ever[u] /\ always'[u] = always[u]
    PROVE  AlarmInvOf(u)'
BY DEF AlarmInvOf

(* Operations other than the store.                                         *)
LEMMA OperationKeepsAlarms ==
    ASSUME TypeOK, \A u \in Thread : AlarmInvOf(u), NEW t \in Thread,
           \/ Invocation(t) \/ LockMutex(t) \/ RejectRule(t)
           \/ UpdateCheckMode(t) \/ LoadProcessRules(t) \/ AnswerGetRule(t)
           \/ AnswerContains(t) \/ Unlock(t)
    PROVE  \A u \in Thread : AlarmInvOf(u)'
<1>1. /\ UNCHANGED <<processRules, threadLocalRules, ever, always>>
      /\ \A u \in Thread \ {t} :
             pc'[u] = pc[u] /\ call'[u] = call[u] /\ loaded'[u] = loaded[u]
      /\ pc'[t] \in {"idle", "lock"} \cup Critical
  BY DEF Invocation, Invoke, LockMutex, RejectRule, UpdateCheckMode,
         LoadProcessRules, AnswerGetRule, AnswerContains, Unlock, Goto, TypeOK,
         shared, history, Critical
<1>2. AlarmInvOf(t)'
  BY <1>1 DEF AlarmInvOf, Critical, Deciding
<1>. QED BY <1>1, <1>2, OthersKeepAlarms

(* The store widens the bracket of every notification that is still         *)
(* deciding.                                                                *)
LEMMA StoreKeepsAlarms ==
    ASSUME TypeOK, \A u \in Thread : AlarmInvOf(u), NEW t \in Thread,
           StoreProcessRules(t)
    PROVE  \A u \in Thread : AlarmInvOf(u)'
<1>1. AlarmInvOf(t)'
  BY DEF StoreProcessRules, Goto, TypeOK, AlarmInvOf, Deciding
<1>2. ASSUME NEW u \in Thread \ {t}
      PROVE  /\ pc'[u] = pc[u] /\ call'[u] = call[u] /\ loaded'[u] = loaded[u]
             /\ threadLocalRules'[u] = threadLocalRules[u]
             /\ pc[u] \in Deciding =>
                    /\ ever'[u] = ever[u] \cup processRules'
                    /\ always'[u] = always[u] \cap processRules'
             /\ pc[u] \notin Deciding =>
                    ever'[u] = ever[u] /\ always'[u] = always[u]
  BY DEF StoreProcessRules, Goto, TypeOK
<1>3. ASSUME NEW u \in Thread \ {t} PROVE AlarmInvOf(u)'
  <2>1. CASE pc[u] \in Deciding
    BY <1>2, <2>1 DEF AlarmInvOf, Deciding
  <2>2. CASE pc[u] \notin Deciding
    BY <1>2, <2>2 DEF AlarmInvOf, Deciding
  <2>. QED BY <2>1, <2>2
<1>. QED BY <1>1, <1>3

LEMMA NotifyKeepsAlarms ==
    ASSUME TypeOK, \A u \in Thread : AlarmInvOf(u), NEW t \in Thread,
           \/ Report(t) \/ HandleThreadCaution(t) \/ HandleProcessCaution(t)
           \/ TakeDetail(t) \/ OnThreadCautionFound(t) \/ NotifyReturn(t)
    PROVE  \A u \in Thread : AlarmInvOf(u)'
<1>1. /\ UNCHANGED <<processRules, threadLocalRules>>
      /\ \A u \in Thread \ {t} :
             /\ pc'[u] = pc[u] /\ call'[u] = call[u] /\ loaded'[u] = loaded[u]
             /\ ever'[u] = ever[u] /\ always'[u] = always[u]
  BY DEF Report, Notify, HandleThreadCaution, HandleProcessCaution, TakeDetail,
         OnThreadCautionFound, NotifyReturn, Goto, TypeOK, shared, history
<1>2. AlarmInvOf(t)'
  <2>. USE DEF AlarmInvOf, Deciding, Goto, TypeOK, shared, history
  <2>1. CASE Report(t)
    <3>1. PICK rule \in Mask, trigger \in Mask :
              \/ Notify(t, rule, trigger, TRUE)
              \/ /\ Notify(t, rule, trigger, FALSE)
                 /\ rule \cap (threadLocalRules[t] \cup processRules) = {}
      BY <2>1 DEF Report
    <3>2. CASE Notify(t, rule, trigger, TRUE)
      BY <3>2 DEF Notify
    <3>3. CASE /\ Notify(t, rule, trigger, FALSE)
               /\ rule \cap (threadLocalRules[t] \cup processRules) = {}
      BY <3>3 DEF Notify
    <3>. QED BY <3>1, <3>2, <3>3
  <2>2. CASE HandleThreadCaution(t)
    BY <2>2 DEF HandleThreadCaution
  <2>3. CASE HandleProcessCaution(t)
    BY <2>3 DEF HandleProcessCaution
  <2>4. CASE TakeDetail(t)
    BY <2>4 DEF TakeDetail
  <2>5. CASE OnThreadCautionFound(t)
    <3>1. RULE_CAUTION_TRIGGER_CRASH \in WithDefaultCaution(loaded[t])
              <=> RULE_CAUTION_TRIGGER_CRASH \in loaded[t]
      BY DEF WithDefaultCaution, ALL_CAUTION_RULES, RULE_CAUTION_TRIGGER_CRASH,
             RULE_CAUTION_PRINT_LOG
    <3>. QED BY <2>5, <3>1 DEF OnThreadCautionFound
  <2>6. CASE NotifyReturn(t)
    BY <2>6 DEF NotifyReturn
  <2>. QED BY <2>1, <2>2, <2>3, <2>4, <2>5, <2>6
<1>. QED BY <1>1, <1>2, OthersKeepAlarms

LEMMA AlarmStep == TypeOK /\ AlarmInv /\ Steps => AlarmInv'
<1>. SUFFICES ASSUME TypeOK, \A t \in Thread : AlarmInvOf(t), Steps
              PROVE  \A t \in Thread : AlarmInvOf(t)'
  <2>1. (\A t \in Thread : AlarmInvOf(t)') => AlarmInv'
    BY DEF AlarmInv, AlarmInvOf, WindowInv, AlarmJustified, AlarmNotLost,
           CrashJustified, CrashHonoured
  <2>. QED BY <2>1, AlarmInvByThread
<1>1. CASE UNCHANGED vars
  BY <1>1, OthersKeepAlarms DEF vars, shared, history
<1>. QED
  BY <1>1, OperationKeepsAlarms, StoreKeepsAlarms, NotifyKeepsAlarms DEF Steps

(* The inductive invariant, for any number of threads.                      *)
THEOREM Invariance == Spec => []IInv
<1>1. Spec => []AlarmInv
  BY TypeCorrect, AlarmInit, AlarmStep, StepCases, PTL DEF Spec
<1>2. TypeOK /\ RegistryInv /\ AlarmInv => IInv
  BY DEF RegistryInv, AlarmInv, IInv
<1>. QED BY <1>1, <1>2, TypeCorrect, RegistryInvariant, PTL

(* No alarm is raised for a rule that nobody has registered.                *)
THEOREM AlarmsJustified == Spec => []AlarmJustified
BY Invariance, PTL DEF IInv

(* A caution whose rules stay registered throughout its notification is     *)
(* never dropped, whatever other threads add and remove meanwhile.          *)
THEOREM NoAlarmLost == Spec => []AlarmNotLost
BY Invariance, PTL DEF IInv

(* The process is killed only if TRIGGER_CRASH was registered.              *)
THEOREM CrashesJustified == Spec => []CrashJustified
BY Invariance, PTL DEF IInv

(* An alarm does not log only while the word that triggers it holds         *)
(* TRIGGER_CRASH throughout.                                                *)
THEOREM CrashesHonoured == Spec => []CrashHonoured
BY Invariance, PTL DEF IInv

=============================================================================
