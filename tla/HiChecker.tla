------------------------------ MODULE HiChecker ------------------------------
(***************************************************************************)
(* The HiChecker class (frameworks/native/hichecker.cpp): threads of one   *)
(* process add, remove and query rules under mutexLock_, while other       *)
(* threads report cautions, which read the same words without the lock.    *)
(*                                                                         *)
(* A step is one access to a word other threads can see, or the private    *)
(* work up to the next one.  "processRules_ |= x" is a load and a store.   *)
(* The message and the stack trace of a caution are left out: they steer   *)
(* nothing.  threadLocalRules_ is thread_local: only its owner reads it,   *)
(* never while it is inside AddRule or RemoveRule, so it is updated in the *)
(* step that stores the shared word.                                       *)
(***************************************************************************)
EXTENDS HiCheckerRules

CONSTANTS
    Thread,       \* the threads of the process
    NoThread,     \* the owner of mutexLock_ when it is free
    RuleArgs,     \* the rule words callers pass, valid or not
    ParamValues,  \* what strtoull makes of the values a parameter may have
    Triggers      \* the trigger rules of the Caution objects callers build

ASSUME ConstantsAssumption ==
    /\ NoThread \notin Thread
    /\ RuleArgs \subseteq Mask
    /\ ParamValues \subseteq Mask
    /\ Triggers \subseteq Mask

VARIABLES
    mutexLock,         \* the thread inside mutexLock_, or NoThread
    checkMode,         \* checkMode_
    processRules,      \* processRules_
    threadLocalRules,  \* threadLocalRules_ of every thread
    pc,                \* where each thread is
    call,              \* the operation it is in, with its arguments
    loaded,            \* the rule word it has read: of |= and ^=, CautionDetail
    ret,               \* what GetRule and Contains answer
    ever, always       \* history: the bits processRules had at some moment, and
                       \* at every moment, of the notification in progress

shared  == <<mutexLock, checkMode, processRules, threadLocalRules>>
history == <<ever, always>>
vars    == <<shared, pc, call, loaded, ret, history>>

Critical == {"locked", "load", "store", "unlock"}
Deciding == {"handle", "take"}
PC == {"idle", "lock", "detail", "ignored", "logged", "crashed"}
          \cup Critical \cup Deciding

UpdateOps == {"AddRule", "RemoveRule"}
QueryOps  == {"GetRule", "Contains"}
Op == UpdateOps \cup QueryOps \cup {"none", "Notify"}

NoCall == [op |-> "none", rule |-> {}, trigger |-> {}]

Init ==
    /\ mutexLock = NoThread
    /\ checkMode = FALSE
    /\ processRules = {}
    /\ threadLocalRules = [t \in Thread |-> {}]
    /\ pc = [t \in Thread |-> "idle"]
    /\ call = [t \in Thread |-> NoCall]
    /\ loaded = [t \in Thread |-> {}]
    /\ ret = [t \in Thread |-> {}]
    /\ ever = [t \in Thread |-> {}]
    /\ always = [t \in Thread |-> {}]

\* SIGABRT ends the process, and with it every thread.
Alive == \A t \in Thread : pc[t] # "crashed"

Goto(t, from, to) == Alive /\ pc[t] = from /\ pc' = [pc EXCEPT ![t] = to]

-----------------------------------------------------------------------------
(* AddRule, RemoveRule, GetRule, Contains.                                 *)

Invoke(t, op, rule) ==
    /\ Goto(t, "idle", "lock")
    /\ call' = [call EXCEPT ![t] = [op |-> op, rule |-> rule, trigger |-> {}]]
    /\ UNCHANGED <<shared, loaded, ret, history>>

AddRule(t)    == \E rule \in RuleArgs : Invoke(t, "AddRule", rule)
RemoveRule(t) == \E rule \in RuleArgs : Invoke(t, "RemoveRule", rule)
GetRule(t)    == Invoke(t, "GetRule", {})
Contains(t)   == \E rule \in RuleArgs : Invoke(t, "Contains", rule)

\* Called by the framework when the process starts or loads the module.  It
\* does nothing when the name overflows, when the parameter is empty or too
\* long, and when the number does not hold the one rule it may add.
InitHicheckerParam(t) ==
    \E value \in ParamValues :
        /\ value \cap ALLOWED_RULE # {}
        /\ Invoke(t, "AddRule", value \cap ALLOWED_RULE)

\* Mutant: the guard of the mutex is forgotten.
LockMutexUnguarded(t) ==
    /\ Goto(t, "lock", "locked")
    /\ mutexLock' = t
    /\ UNCHANGED <<checkMode, processRules, threadLocalRules, call, loaded,
                   ret, history>>

\* std::lock_guard<std::mutex> lock(mutexLock_)
LockMutex(t) ==
    /\ Goto(t, "lock", "locked")
    /\ mutexLock = NoThread
    /\ mutexLock' = t
    /\ UNCHANGED <<checkMode, processRules, threadLocalRules, call, loaded,
                   ret, history>>

\* Mutant: lock() and unlock() by hand, and an early return between them.
RejectRuleHoldingLock(t) ==
    /\ call[t].op # "GetRule"
    /\ ~CheckRule(call[t].rule)
    /\ Goto(t, "locked", "idle")
    /\ call' = [call EXCEPT ![t] = NoCall]
    /\ UNCHANGED <<shared, loaded, ret, history>>

\* The early return of AddRule, RemoveRule and Contains.
RejectRule(t) ==
    /\ call[t].op # "GetRule"
    /\ ~CheckRule(call[t].rule)
    /\ Goto(t, "locked", "unlock")
    /\ UNCHANGED <<shared, call, loaded, ret, history>>

\* Mutant: RemoveRule forgets checkMode_.
UpdateCheckModeNeverReset(t) ==
    /\ call[t].op \in UpdateOps
    /\ CheckRule(call[t].rule)
    /\ Goto(t, "locked", "load")
    /\ checkMode' = (checkMode \/ (call[t].op = "AddRule"
                                   /\ RULE_CHECK_SLOW_EVENT \in call[t].rule))
    /\ UNCHANGED <<mutexLock, processRules, threadLocalRules, call, loaded,
                   ret, history>>

UpdateCheckMode(t) ==
    /\ call[t].op \in UpdateOps
    /\ CheckRule(call[t].rule)
    /\ Goto(t, "locked", "load")
    /\ checkMode' = IF RULE_CHECK_SLOW_EVENT \in call[t].rule
                    THEN call[t].op = "AddRule"
                    ELSE checkMode
    /\ UNCHANGED <<mutexLock, processRules, threadLocalRules, call, loaded,
                   ret, history>>

LoadProcessRules(t) ==
    /\ Goto(t, "load", "store")
    /\ loaded' = [loaded EXCEPT ![t] = processRules]
    /\ UNCHANGED <<shared, call, ret, history>>

\* Mutant: AddRule does not mask the rule with the scope of the word.
NewProcessRulesUnmasked(t) ==
    IF call[t].op = "AddRule"
    THEN loaded[t] \cup call[t].rule
    ELSE loaded[t] \ call[t].rule

NewProcessRules(t) ==
    IF call[t].op = "AddRule"
    THEN loaded[t] \cup (call[t].rule \cap ProcessScope)
    ELSE loaded[t] \ call[t].rule

NewLocalRules(t) ==
    IF call[t].op = "AddRule"
    THEN threadLocalRules[t] \cup (call[t].rule \cap ThreadScope)
    ELSE threadLocalRules[t] \ call[t].rule

StoreProcessRules(t) ==
    /\ Goto(t, "store", "unlock")
    /\ processRules' = NewProcessRules(t)
    /\ threadLocalRules' = [threadLocalRules EXCEPT ![t] = NewLocalRules(t)]
    /\ loaded' = [loaded EXCEPT ![t] = {}]
    /\ ever' = [u \in Thread |-> IF pc[u] \in Deciding
                                 THEN ever[u] \cup processRules' ELSE ever[u]]
    /\ always' = [u \in Thread |-> IF pc[u] \in Deciding
                                   THEN always[u] \cap processRules'
                                   ELSE always[u]]
    /\ UNCHANGED <<mutexLock, checkMode, call, ret>>

AnswerGetRule(t) ==
    /\ call[t].op = "GetRule"
    /\ Goto(t, "locked", "unlock")
    /\ ret' = [ret EXCEPT ![t] = threadLocalRules[t] \cup processRules]
    /\ UNCHANGED <<shared, call, loaded, history>>

\* True is the rule asked for, false is no bit.
AnswerContains(t) ==
    LET rule == call[t].rule IN
    /\ call[t].op = "Contains"
    /\ CheckRule(rule)
    /\ Goto(t, "locked", "unlock")
    /\ ret' = [ret EXCEPT ![t] =
                   IF rule \subseteq threadLocalRules[t] \cup processRules
                   THEN rule ELSE {}]
    /\ UNCHANGED <<shared, call, loaded, history>>

\* The lock_guard is destroyed and the operation returns.
Unlock(t) ==
    /\ Goto(t, "unlock", "idle")
    /\ mutexLock' = NoThread
    /\ call' = [call EXCEPT ![t] = NoCall]
    /\ ret' = [ret EXCEPT ![t] = {}]
    /\ UNCHANGED <<checkMode, processRules, threadLocalRules, loaded, history>>

CriticalStep(t) ==
    \/ RejectRule(t) \/ UpdateCheckMode(t) \/ LoadProcessRules(t)
    \/ StoreProcessRules(t) \/ AnswerGetRule(t) \/ AnswerContains(t)
    \/ Unlock(t)

-----------------------------------------------------------------------------
(* The notifications.  Each begins with a test of its own rule, which is   *)
(* one read of processRules at most.                                       *)

Notify(t, rule, trigger, enabled) ==
    /\ Goto(t, "idle", IF enabled THEN "handle" ELSE "ignored")
    /\ call' = [call EXCEPT ![t] =
                    [op |-> "Notify", rule |-> rule, trigger |-> trigger]]
    /\ ever' = [ever EXCEPT ![t] = processRules]
    /\ always' = [always EXCEPT ![t] = processRules]
    /\ UNCHANGED <<shared, loaded, ret>>

NotifySlowProcess(t) ==
    Notify(t, {RULE_THREAD_CHECK_SLOW_PROCESS}, {RULE_THREAD_CHECK_SLOW_PROCESS},
           RULE_THREAD_CHECK_SLOW_PROCESS \in threadLocalRules[t])

NotifyNetWorkUsage(t) ==
    Notify(t, {RULE_THREAD_CHECK_NETWORK_USAGE}, {RULE_THREAD_CHECK_NETWORK_USAGE},
           RULE_THREAD_CHECK_NETWORK_USAGE \in threadLocalRules[t])

NotifySlowEvent(t) ==
    Notify(t, {RULE_CHECK_SLOW_EVENT}, {RULE_CHECK_SLOW_EVENT},
           RULE_CHECK_SLOW_EVENT \in processRules)

\* The caution comes from the caller, with whatever trigger it was built.
NotifyAbilityConnectionLeak(t) ==
    \E trigger \in Triggers :
        Notify(t, {RULE_CHECK_ABILITY_CONNECTION_LEAK}, trigger,
               RULE_CHECK_ABILITY_CONNECTION_LEAK \in processRules)

\* The rule that is tested and the trigger rule of the caution are two
\* arguments: the code does not compare them.
NotifyCaution(t) ==
    \E rule \in RuleArgs, trigger \in Triggers :
        Notify(t, rule, trigger,
               rule \cap (threadLocalRules[t] \cup processRules) # {})

\* HandleCaution, the thread's own rules: threadLocalRules_ is private, so
\* the test and the copy into CautionDetail see the same word.
HandleThreadCaution(t) ==
    /\ threadLocalRules[t] \cap call[t].trigger # {}
    /\ Goto(t, "handle", "detail")
    /\ loaded' = [loaded EXCEPT ![t] = threadLocalRules[t]]
    /\ UNCHANGED <<shared, call, ret, history>>

\* Mutant: the trigger rule is not tested.
HandleAnyCaution(t) ==
    /\ threadLocalRules[t] \cap call[t].trigger = {}
    /\ Goto(t, "handle", IF processRules # {} THEN "take" ELSE "ignored")
    /\ UNCHANGED <<shared, call, loaded, ret, history>>

\* Mutant: the process rules are tested under try_lock.
HandleProcessCautionTryLock(t) ==
    /\ threadLocalRules[t] \cap call[t].trigger = {}
    /\ Goto(t, "handle", IF mutexLock = NoThread
                            /\ processRules \cap call[t].trigger # {}
                         THEN "take" ELSE "ignored")
    /\ UNCHANGED <<shared, call, loaded, ret, history>>

\* Mutant: the process rules are tested under the mutex.
HandleProcessCautionLocked(t) ==
    /\ mutexLock = NoThread
    /\ threadLocalRules[t] \cap call[t].trigger = {}
    /\ Goto(t, "handle", IF processRules \cap call[t].trigger # {}
                         THEN "take" ELSE "ignored")
    /\ UNCHANGED <<shared, call, loaded, ret, history>>

\* HandleCaution, the test of the process rules ...
HandleProcessCaution(t) ==
    /\ threadLocalRules[t] \cap call[t].trigger = {}
    /\ Goto(t, "handle", IF processRules \cap call[t].trigger # {}
                         THEN "take" ELSE "ignored")
    /\ UNCHANGED <<shared, call, loaded, ret, history>>

\* Mutant: CautionDetail gets the rules that triggered, not all of them.
TakeTriggeredRules(t) ==
    /\ Goto(t, "take", "detail")
    /\ loaded' = [loaded EXCEPT ![t] = processRules \cap call[t].trigger]
    /\ UNCHANGED <<shared, call, ret, history>>

\* ... and the second read, which fills CautionDetail.
TakeDetail(t) ==
    /\ Goto(t, "take", "detail")
    /\ loaded' = [loaded EXCEPT ![t] = processRules]
    /\ UNCHANGED <<shared, call, ret, history>>

\* OnThreadCautionFound, also reached through OnProcessCautionFound.
OnThreadCautionFound(t) ==
    LET rules == WithDefaultCaution(loaded[t]) IN
    /\ Goto(t, "detail", IF RULE_CAUTION_TRIGGER_CRASH \in rules
                         THEN "crashed" ELSE "logged")
    /\ loaded' = [loaded EXCEPT ![t] = {}]
    /\ UNCHANGED <<shared, call, ret, history>>

NotifyReturn(t) ==
    /\ pc[t] \in {"ignored", "logged"}
    /\ Goto(t, pc[t], "idle")
    /\ call' = [call EXCEPT ![t] = NoCall]
    /\ ever' = [ever EXCEPT ![t] = {}]
    /\ always' = [always EXCEPT ![t] = {}]
    /\ UNCHANGED <<shared, loaded, ret>>

NotifyStep(t) ==
    \/ HandleThreadCaution(t) \/ HandleProcessCaution(t) \/ TakeDetail(t)
    \/ OnThreadCautionFound(t)

Next == \E t \in Thread :
    \/ AddRule(t) \/ RemoveRule(t) \/ GetRule(t) \/ Contains(t)
    \/ InitHicheckerParam(t) \/ LockMutex(t) \/ CriticalStep(t)
    \/ NotifySlowProcess(t) \/ NotifyNetWorkUsage(t) \/ NotifySlowEvent(t)
    \/ NotifyAbilityConnectionLeak(t) \/ NotifyCaution(t)
    \/ NotifyStep(t) \/ NotifyReturn(t)

Spec == Init /\ [][Next]_vars

\* A thread that runs is scheduled: it leaves the critical section, which does
\* not block, and it finishes the notification it has begun.  Nothing is
\* assumed of who gets the mutex: std::mutex is not fair.
FairSpec ==
    Spec /\ \A t \in Thread : WF_vars(CriticalStep(t)) /\ WF_vars(NotifyStep(t))

=============================================================================
