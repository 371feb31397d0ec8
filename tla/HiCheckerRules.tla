--------------------------- MODULE HiCheckerRules ---------------------------
(***************************************************************************)
(* The rule words of HiChecker (hichecker.h, namespace Rule).              *)
(*                                                                         *)
(* A uint64_t of rules is the set of its bits that are 1, and a rule is    *)
(* the number of its bit.  Then x | y is the union, x & y the              *)
(* intersection, and the x ^= x & y of RemoveRule is the set difference.   *)
(***************************************************************************)
EXTENDS Integers

Bit  == 0..63
Mask == SUBSET Bit

RULE_CAUTION_PRINT_LOG             == 63
RULE_CAUTION_TRIGGER_CRASH         == 62
RULE_THREAD_CHECK_SLOW_PROCESS     == 0
RULE_THREAD_CHECK_NETWORK_USAGE    == 1
RULE_CHECK_SLOW_EVENT              == 32
RULE_CHECK_ABILITY_CONNECTION_LEAK == 33
RULE_CHECK_ARKUI_PERFORMANCE       == 34

ALL_THREAD_RULES ==
    {RULE_THREAD_CHECK_SLOW_PROCESS, RULE_THREAD_CHECK_NETWORK_USAGE}

ALL_PROCESS_RULES ==
    {RULE_CHECK_SLOW_EVENT, RULE_CHECK_ABILITY_CONNECTION_LEAK,
     RULE_CHECK_ARKUI_PERFORMANCE}

ALL_CAUTION_RULES == {RULE_CAUTION_PRINT_LOG, RULE_CAUTION_TRIGGER_CRASH}

ALL_RULES == ALL_THREAD_RULES \cup ALL_PROCESS_RULES \cup ALL_CAUTION_RULES

\* The only rule a system parameter may switch on (hichecker.cpp).
ALLOWED_RULE == {RULE_CHECK_ARKUI_PERFORMANCE}

\* The bits AddRule keeps in thread-local storage and in the process word.
ThreadScope  == ALL_THREAD_RULES \cup ALL_CAUTION_RULES
ProcessScope == ALL_PROCESS_RULES \cup ALL_CAUTION_RULES

\* Mutant: the test of hichecker.cpp:232 for zero is left out.
CheckRuleOrZero(rule) == rule \subseteq ALL_RULES

\* Not zero, and no bit that is not a rule.
CheckRule(rule) == rule # {} /\ rule \subseteq ALL_RULES

\* Mutant: the default caution is the wrong one.
WithCrashByDefault(rules) ==
    IF rules \cap ALL_CAUTION_RULES = {}
    THEN rules \cup {RULE_CAUTION_TRIGGER_CRASH}
    ELSE rules

\* OnThreadCautionFound logs when the caller configured no caution at all.
WithDefaultCaution(rules) ==
    IF rules \cap ALL_CAUTION_RULES = {}
    THEN rules \cup {RULE_CAUTION_PRINT_LOG}
    ELSE rules

\* The low and the high 32-bit word of a mask: on a 32-bit build a uint64_t
\* is read and written one word at a time.
LowWord(m)  == m \cap 0..31
HighWord(m) == m \cap 32..63

=============================================================================
