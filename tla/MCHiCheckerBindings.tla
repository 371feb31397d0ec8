------------------------- MODULE MCHiCheckerBindings -------------------------
(* Instances of HiCheckerBindings for TLC. *)
EXTENDS HiCheckerBindings

CONSTANTS t1, t2

OneRule ==
    {RULE_CHECK_SLOW_EVENT, RULE_CAUTION_TRIGGER_CRASH, RULE_CAUTION_PRINT_LOG}

\* One rule with both cautions, and every bit, which CheckRule rejects.
BindingArgs == {OneRule, Bit}

\* "18446744073709551616" and more saturate, "4294967296" is SLOW_EVENT.
BindingParams == {Bit, {RULE_CHECK_SLOW_EVENT}}

BindingTriggers == {{RULE_CHECK_SLOW_EVENT}}

\* No BigInt, 0, the rule, the rule and 2^64, and -1.
BindingValues ==
    {[bigint |-> FALSE, negative |-> FALSE, bits |-> {}],
     BigInt(FALSE, {}), BigInt(FALSE, OneRule),
     BigInt(FALSE, OneRule \cup {64}), BigInt(TRUE, {0})}

=============================================================================
