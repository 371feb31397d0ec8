------------------------- MODULE HiCheckerProperties -------------------------
(***************************************************************************)
(* What HiChecker must guarantee, stated of the variables of HiChecker.    *)
(***************************************************************************)
EXTENDS HiChecker

(* The types.  A rule word only ever holds the bits AddRule keeps for it.   *)
TypeOK ==
    /\ mutexLock \in Thread \cup {NoThread}
    /\ checkMode \in BOOLEAN
    /\ processRules \in SUBSET ProcessScope
    /\ threadLocalRules \in [Thread -> SUBSET ThreadScope]
    /\ pc \in [Thread -> PC]
    /\ call \in [Thread -> [op : Op, rule : Mask, trigger : Mask]]
    /\ loaded \in [Thread -> Mask]
    /\ ret \in [Thread -> Mask]
    /\ ever \in [Thread -> SUBSET ProcessScope]
    /\ always \in [Thread -> SUBSET ProcessScope]

(* checkMode_, which NeedCheckSlowEvent reads without the lock (line 215),  *)
(* is a second copy of one bit of processRules_: whenever no operation is   *)
(* in progress the two agree.                                               *)
SlowEventModeAgrees ==
    mutexLock = NoThread => (checkMode <=> RULE_CHECK_SLOW_EVENT \in processRules)

(* A notification reads processRules_ while AddRule or RemoveRule writes    *)
(* it.  Where the 64 bits are two words, the mixes of the old and the new   *)
(* value it can see are the old or the new value: the unlocked read needs   *)
(* no more than the code gives it.                                          *)
NoTornMask ==
    \A t \in Thread : pc[t] = "store" =>
        LET old == processRules
            new == NewProcessRules(t)
        IN /\ LowWord(old) \cup HighWord(new) \in {old, new}
           /\ LowWord(new) \cup HighWord(old) \in {old, new}

(* An alarm is raised only for a rule that was registered, for this thread  *)
(* or for the process, at some moment of the notification.                  *)
AlarmJustified ==
    \A t \in Thread : pc[t] \in {"logged", "crashed"} =>
        call[t].trigger \cap (threadLocalRules[t] \cup ever[t]) # {}

(* A caution is dropped only if the rule it is reported under, or the rule  *)
(* it names as its trigger, was absent at some moment of the notification:  *)
(* rules that stay registered throughout are never missed, whatever other   *)
(* threads add and remove meanwhile.                                        *)
AlarmNotLost ==
    \A t \in Thread : pc[t] = "ignored" =>
        LET stable == threadLocalRules[t] \cup always[t]
        IN call[t].rule \cap stable = {} \/ call[t].trigger \cap stable = {}

(* The process is killed only if TRIGGER_CRASH was registered, for this     *)
(* thread or for the process, at some moment of the notification.           *)
CrashJustified ==
    \A t \in Thread : pc[t] = "crashed" =>
        RULE_CAUTION_TRIGGER_CRASH \in threadLocalRules[t] \cup ever[t]

(* An alarm that only logs had no TRIGGER_CRASH to obey: none among the     *)
(* thread's rules if one of them triggered it, and otherwise none that was  *)
(* registered for the process throughout the notification.                  *)
CrashHonoured ==
    \A t \in Thread : pc[t] = "logged" =>
        RULE_CAUTION_TRIGGER_CRASH \notin
            IF call[t].trigger \cap threadLocalRules[t] # {}
            THEN threadLocalRules[t] ELSE always[t]

(* README.md:55 says TRIGGER_CRASH forces the application to exit when an   *)
(* alarm is generated.  The code asks this of the word that holds the       *)
(* triggering rule only, so an alarm may log although TRIGGER_CRASH is in   *)
(* force, and in what getRule answers, throughout.                          *)
CrashOnAlarm ==
    \A t \in Thread : pc[t] = "logged" =>
        RULE_CAUTION_TRIGGER_CRASH \notin threadLocalRules[t] \cup always[t]

(* Every thread that got the mutex releases it, also when CheckRule rejects *)
(* its rule, unless the process is killed first.                            *)
LockReleased ==
    \A t \in Thread : (mutexLock = t) ~> (mutexLock # t \/ ~Alive)

(* A notification that has passed its guard ends, however long other        *)
(* threads keep the mutex busy: it takes no lock.                           *)
NotifyFinishes ==
    \A t \in Thread :
        (pc[t] = "handle") ~> (pc[t] \in {"ignored", "logged"} \/ ~Alive)

-----------------------------------------------------------------------------
(* The inductive invariant behind the safety properties, in named parts.    *)

Updating == {"load", "store"}

(* Exactly the owner of the mutex is inside an operation.                   *)
MutexInv ==
    \A t \in Thread : pc[t] \in Critical <=> mutexLock = t

(* What a thread is doing tells which operation it is in, an update only    *)
(* gets past CheckRule with a valid rule, and answers do not outlive calls. *)
CallInv ==
    \A t \in Thread :
        /\ pc[t] \in {"lock", "locked"} => call[t].op \in UpdateOps \cup QueryOps
        /\ pc[t] \in Updating => call[t].op \in UpdateOps
        /\ pc[t] \in Updating => CheckRule(call[t].rule)
        /\ pc[t] # "unlock" => ret[t] = {}

(* Between load and store nobody else changes the shared word.              *)
LoadInv ==
    \A t \in Thread : pc[t] = "store" => loaded[t] = processRules

(* checkMode_ follows processRules_, except that an update in progress has  *)
(* already set it to what it is about to store.                             *)
ModeInv ==
    /\ (\A t \in Thread : pc[t] \notin Updating)
           => (checkMode <=> RULE_CHECK_SLOW_EVENT \in processRules)
    /\ \A t \in Thread : pc[t] \in Updating =>
           (checkMode <=> IF RULE_CHECK_SLOW_EVENT \in call[t].rule
                          THEN call[t].op = "AddRule"
                          ELSE RULE_CHECK_SLOW_EVENT \in processRules)

(* The history of a notification brackets the shared word, and the word it  *)
(* has copied for CautionDetail.                                            *)
WindowInv ==
    \A t \in Thread :
        LET private == call[t].trigger \cap threadLocalRules[t] # {} IN
        /\ pc[t] \in Deciding =>
               always[t] \subseteq processRules /\ processRules \subseteq ever[t]
        /\ pc[t] = "take" => ~private /\ call[t].trigger \cap ever[t] # {}
        /\ pc[t] = "detail" =>
               IF private THEN loaded[t] = threadLocalRules[t]
               ELSE /\ call[t].trigger \cap ever[t] # {}
                    /\ always[t] \subseteq loaded[t]
                    /\ loaded[t] \subseteq ever[t]

IInv ==
    /\ TypeOK
    /\ MutexInv /\ CallInv /\ LoadInv /\ ModeInv
    /\ WindowInv /\ AlarmJustified /\ AlarmNotLost
    /\ CrashJustified /\ CrashHonoured

-----------------------------------------------------------------------------
(* The abstract registry.  An operation is pending until the step that      *)
(* decides its answer, and done from there to its return.                   *)

Request(t) ==
    IF pc[t] \in {"lock", "locked", "load", "store"}
    THEN [op |-> call[t].op, rule |-> call[t].rule]
    ELSE IF pc[t] = "unlock"
    THEN [op |-> "done", rule |-> {}]
    ELSE [op |-> "none", rule |-> {}]

Registry == INSTANCE RuleRegistry
    WITH request <- [t \in Thread |-> Request(t)], reply <- ret

(* HiChecker implements RuleRegistry: operations of any number of threads   *)
(* take effect one at a time, none is lost, and each answer is the state of *)
(* the registry at one moment of the call.                                  *)
RegistryAtomic == Registry!Spec

=============================================================================
