---------------------------- MODULE RuleRegistry ----------------------------
(***************************************************************************)
(* What HiChecker promises its callers: one registry of rules in which     *)
(* every AddRule, RemoveRule, GetRule and Contains takes effect, whole, at *)
(* one moment between the call and the return.  There is no lock, no       *)
(* half-done update and no lost one.  HiChecker.tla is the code, and       *)
(* implements this module.                                                 *)
(***************************************************************************)
EXTENDS HiCheckerRules

CONSTANTS Thread,      \* the threads of the process
          RuleArgs     \* the rule words callers pass

VARIABLES processRules,      \* rules and cautions all threads share
          threadLocalRules,  \* rules and cautions of one thread
          request,           \* the operation a thread is waiting for
          reply              \* what the operation answered

vars == <<processRules, threadLocalRules, request, reply>>

NoRequest == [op |-> "none", rule |-> {}]
Answered  == [op |-> "done", rule |-> {}]
NoReply   == {}

Init ==
    /\ processRules = {}
    /\ threadLocalRules = [t \in Thread |-> {}]
    /\ request = [t \in Thread |-> NoRequest]
    /\ reply = [t \in Thread |-> NoReply]

Pending(t, op) == request[t].op = op

Call(t) ==
    /\ Pending(t, "none")
    /\ \E op \in {"AddRule", "RemoveRule", "GetRule", "Contains"},
          rule \in RuleArgs \cup {{}, ALLOWED_RULE} :
          request' = [request EXCEPT ![t] = [op |-> op, rule |-> rule]]
    /\ UNCHANGED <<processRules, threadLocalRules, reply>>

\* The operation has taken effect; the answer is a mask (Contains answers
\* true with the mask it was asked for).
Done(t, answer) ==
    /\ request' = [request EXCEPT ![t] = Answered]
    /\ reply' = [reply EXCEPT ![t] = answer]

AddRule(t) ==
    LET rule == request[t].rule IN
    /\ Pending(t, "AddRule")
    /\ CheckRule(rule)
    /\ processRules' = processRules \cup (rule \cap ProcessScope)
    /\ threadLocalRules' = [threadLocalRules EXCEPT ![t] =
                                @ \cup (rule \cap ThreadScope)]
    /\ Done(t, NoReply)

RemoveRule(t) ==
    LET rule == request[t].rule IN
    /\ Pending(t, "RemoveRule")
    /\ CheckRule(rule)
    /\ processRules' = processRules \ rule
    /\ threadLocalRules' = [threadLocalRules EXCEPT ![t] = @ \ rule]
    /\ Done(t, NoReply)

\* A word that is no rule changes nothing and is contained in nothing.
Reject(t) ==
    /\ \E op \in {"AddRule", "RemoveRule", "Contains"} : Pending(t, op)
    /\ ~CheckRule(request[t].rule)
    /\ Done(t, NoReply)
    /\ UNCHANGED <<processRules, threadLocalRules>>

GetRule(t) ==
    /\ Pending(t, "GetRule")
    /\ Done(t, threadLocalRules[t] \cup processRules)
    /\ UNCHANGED <<processRules, threadLocalRules>>

Contains(t) ==
    LET rule == request[t].rule IN
    /\ Pending(t, "Contains")
    /\ CheckRule(rule)
    /\ Done(t, IF rule \subseteq threadLocalRules[t] \cup processRules
               THEN rule ELSE NoReply)
    /\ UNCHANGED <<processRules, threadLocalRules>>

Return(t) ==
    /\ Pending(t, "done")
    /\ request' = [request EXCEPT ![t] = NoRequest]
    /\ reply' = [reply EXCEPT ![t] = NoReply]
    /\ UNCHANGED <<processRules, threadLocalRules>>

Next == \E t \in Thread :
    \/ Call(t) \/ Return(t) \/ Reject(t)
    \/ AddRule(t) \/ RemoveRule(t) \/ GetRule(t) \/ Contains(t)

Spec == Init /\ [][Next]_vars

=============================================================================
