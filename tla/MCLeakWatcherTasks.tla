-------------------------- MODULE MCLeakWatcherTasks --------------------------
(* Instances of LeakWatcherTasks for TLC: one unit of time stands for about *)
(* 30 seconds, and WordSize is larger than every delay that does not wrap.  *)
EXTENDS LeakWatcherTasks

\* In halves: a longer interval, one that is too short, a wait that is too
\* long; and of the accepted ones a wait below zero (delays 4 and 5), a wait
\* that equals the interval without its fraction (4 and 4), an interval that
\* wraps (2 and 1).
SomeObjects ==
    {[interval |-> 8, wait |-> 4], [interval |-> 4, wait |-> 2],
     [interval |-> 8, wait |-> 10], [interval |-> 8, wait |-> -2],
     [interval |-> 9, wait |-> 8], [interval |-> 16, wait |-> 2]}

NoObjects == {}
NoArgs == {}

=============================================================================
