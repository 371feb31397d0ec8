----------------------------- MODULE MCHiChecker -----------------------------
(* Instances of HiChecker for TLC. *)
EXTENDS HiCheckerProperties, TLC

CONSTANTS t1, t2

Symmetry == Permutations(Thread)

\* 1 << 5 is no rule: CheckRule rejects it.
NotARule == {5}

\* A rule of the process with the caution that kills, and a rule of a thread
\* next to that of the process.
MixedArgs ==
    {{RULE_CHECK_SLOW_EVENT, RULE_CAUTION_TRIGGER_CRASH},
     {RULE_THREAD_CHECK_NETWORK_USAGE, RULE_CHECK_SLOW_EVENT},
     NotARule}

MixedTriggers ==
    {{RULE_CHECK_SLOW_EVENT}, {RULE_CHECK_ABILITY_CONNECTION_LEAK}}

NoParams == {}

=============================================================================
