---------------------------- MODULE MCLeakDetection ----------------------------
(* Instances of LeakDetection for TLC. *)
EXTENDS LeakDetection

\* More leaks are needed in the foreground than in the background.
SomeThresholds == {[foreground |-> 2, background |-> 1]}

=============================================================================
