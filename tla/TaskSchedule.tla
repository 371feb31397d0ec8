----------------------------- MODULE TaskSchedule -----------------------------
(***************************************************************************)
(* What the tasks of the leak watcher may rely on: the order of its calls  *)
(* and events without their times.  LeakWatcherTasks implements it; the    *)
(* modules of what the tasks do (LeakDetection, LifecycleCallbacks) extend *)
(* it.  An event is only counted: gcDue and dumpDue are the GC and DUMP    *)
(* events that have been sent and not yet processed.                       *)
(***************************************************************************)
EXTENDS Integers

CONSTANT MaxSessions   \* bound: sessions started

ASSUME SessionAssumption == MaxSessions \in Nat

VARIABLES
    enabled,    \* JS: enabled
    isRunning,  \* native: isRunning_
    session,    \* sessions started so far
    gcDue, dumpDue

schedule == <<enabled, isRunning, session, gcDue, dumpDue>>

ScheduleInit ==
    /\ enabled = FALSE /\ isRunning = FALSE
    /\ session = 0 /\ gcDue = 0 /\ dumpDue = 0

\* enable(isEnable).
Enable(isEnable) ==
    /\ enabled' = isEnable
    /\ UNCHANGED <<isRunning, session, gcDue, dumpDue>>

\* enableLeakWatcher(true) that fails half way.
EnableFails ==
    /\ ~enabled
    /\ Enable(TRUE)

\* enableLeakWatcher(true).  An event of an older session may be due still.
EnableLeakWatcher ==
    /\ session < MaxSessions
    /\ ~enabled
    /\ enabled' = TRUE /\ isRunning' = TRUE
    /\ session' = session + 1
    /\ gcDue' = gcDue + 1
    /\ UNCHANGED dumpDue

\* enableLeakWatcher(false): shutdownJsLeakWatcher.
DisableLeakWatcher ==
    /\ enabled
    /\ enabled' = FALSE /\ isRunning' = FALSE
    /\ UNCHANGED <<session, gcDue, dumpDue>>

\* ProcessEvent.  A GC event sends its successor, so gcDue stays, and one DUMP
\* event.  When the DUMP event comes is open: further GC tasks may run before
\* it, as they do when the DUMP delay is the longer one.
RunGcTask ==
    /\ isRunning /\ gcDue > 0
    /\ dumpDue' = dumpDue + 1
    /\ UNCHANGED <<enabled, isRunning, session, gcDue>>

RunDumpTask ==
    /\ isRunning /\ dumpDue > 0
    /\ dumpDue' = dumpDue - 1
    /\ UNCHANGED <<enabled, isRunning, session, gcDue>>

\* An event that is due while the watcher does not run is lost.
DropEvent ==
    /\ ~isRunning
    /\ \/ gcDue > 0 /\ gcDue' = gcDue - 1 /\ UNCHANGED dumpDue
       \/ dumpDue > 0 /\ dumpDue' = dumpDue - 1 /\ UNCHANGED gcDue
    /\ UNCHANGED <<enabled, isRunning, session>>

ScheduleNext ==
    \/ \E isEnable \in BOOLEAN : Enable(isEnable)
    \/ EnableFails \/ EnableLeakWatcher \/ DisableLeakWatcher
    \/ RunGcTask \/ RunDumpTask \/ DropEvent

ScheduleSpec == ScheduleInit /\ [][ScheduleNext]_schedule

=============================================================================
