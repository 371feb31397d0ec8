--------------------------- MODULE LeakWatcherTasks ---------------------------
(***************************************************************************)
(* The life cycle of the JS leak watcher: enable and enableLeakWatcher of  *)
(* js_leak_watcher.ts, and the native LeakWatcherEventHandler that runs    *)
(* its two tasks from timed events (js_leak_watcher_napi.h, .cpp).         *)
(*                                                                         *)
(* Everything here runs on one thread: a call from JS is one step, and so  *)
(* is the processing of one event.  What is hard is the order of the two:  *)
(* an event outlives the session that sent it.  Events are IDLE priority:  *)
(* they wait in the order of their due time, and may run late.  What the   *)
(* tasks do is modelled elsewhere; here a task is named by the session     *)
(* whose callback runs.                                                    *)
(***************************************************************************)
EXTENDS Integers, Sequences, FiniteSets, SequencesExt

CONSTANTS
    MinCheckInterval,  \* MIN_CHECK_INTERVAL, 90000 ms
    DefaultDumpWait,   \* leakWatcherConfig.dumpHeapWaitTimeMs, 5000 ms
    NativeGcDelay,     \* gcDelayTime_ before any setGcDelay, 90000 ms
    NativeDumpDelay,   \* dumpDelayTime_ before any setDumpDelay, 3000 ms
    WordSize,          \* 2^32: a delay is a uint32_t
    ObjectConfigs,     \* the LeakWatcherConfig objects: checkInterval and
                       \* dumpHeapWaitTimeMs, in halves (see Number)
    LegacyArgs,        \* what enable() is called with
    ContextKnown,      \* did getApplicationContext succeed at load time
    MaxSessions,       \* bound: sessions started
    MaxWait            \* bound: the longest time the history tells apart

ASSUME DelayAssumption ==
    /\ MinCheckInterval \in Nat /\ DefaultDumpWait \in Nat
    /\ NativeGcDelay \in Nat /\ NativeDumpDelay \in Nat
    /\ WordSize \in Nat \ {0}
    /\ DefaultDumpWait < MinCheckInterval /\ MinCheckInterval < WordSize
    /\ NativeDumpDelay < NativeGcDelay /\ NativeGcDelay < WordSize
    /\ MinCheckInterval <= NativeGcDelay

ASSUME ArgumentAssumption ==
    /\ ObjectConfigs \subseteq [interval : Int, wait : Int]
    /\ LegacyArgs \subseteq BOOLEAN

\* The bounds; the history has to tell MinCheckInterval from less.
ASSUME BoundAssumption ==
    /\ MaxSessions \in Nat
    /\ MaxWait \in Nat /\ MaxWait >= MinCheckInterval

VARIABLES
    enabled,      \* JS: enabled
    isRunning,    \* native: isRunning_
    gcRef, dumpRef, shutdownRef,  \* native: the session a callback belongs to
    gcDelay, dumpDelay,           \* native: gcDelayTime_, dumpDelayTime_
    pending,      \* the events sent and not yet processed, with the time left
    session,      \* sessions started so far
    ran,          \* history: the last task run, or a dropped event
    gcDone,       \* history: has the present session run its GC task
    overlapped,   \* history: did a session start while an event was pending
    sinceGc,      \* history: time since the GC task ran, at most MaxWait
    inverted,     \* history: did accepted numbers become delays out of order
    shortened,    \* history: did an accepted interval become a short delay
    refused       \* history: was the last enableLeakWatcher(true) ignored

jsVars      == <<enabled>>
handlerVars == <<isRunning, gcRef, dumpRef, shutdownRef>>
delayVars   == <<gcDelay, dumpDelay>>
history     == <<ran, gcDone, overlapped, sinceGc>>
wrapVars    == <<inverted, shortened>>
vars == <<jsVars, handlerVars, delayVars, pending, session, history, wrapVars,
          refused>>

NoRef == 0

Init ==
    /\ enabled = FALSE
    /\ isRunning = FALSE
    /\ gcRef = NoRef /\ dumpRef = NoRef /\ shutdownRef = NoRef
    /\ gcDelay = NativeGcDelay /\ dumpDelay = NativeDumpDelay
    /\ pending = <<>>
    /\ session = 0
    /\ ran = [task |-> "none", session |-> NoRef]
    /\ gcDone = FALSE
    /\ overlapped = FALSE
    /\ sinceGc = MaxWait
    /\ inverted = FALSE /\ shortened = FALSE
    /\ refused = FALSE

Count(id) == Cardinality({i \in DOMAIN pending : pending[i].id = id})

\* Mutant: a queue in the order of sending.
SendLast(queue, id, delay) == Append(queue, [id |-> id, left |-> delay])

\* SendEvent: behind every event that is due no later.
Send(queue, id, delay) ==
    LET place == CHOOSE i \in 1..(Len(queue) + 1) :
                     \A j \in DOMAIN queue : queue[j].left <= delay <=> j < i
    IN  InsertAt(queue, place, [id |-> id, left |-> delay])

\* A configured number may have a fraction: it is written in halves.
Number(ms) == 2 * ms

\* napi_get_value_uint32: the fraction is cut off, and what is left is taken
\* modulo 2^32, a negative number too.
Uint32(number) ==
    LET Whole == IF number >= 0 THEN number \div 2 ELSE -((-number) \div 2)
    IN  Whole % WordSize

-----------------------------------------------------------------------------
(* enable and enableLeakWatcher.                                           *)

\* enable(isEnable) of the older API: no task is started or stopped.
Enable ==
    /\ \E isEnable \in LegacyArgs : enabled' = isEnable
    /\ UNCHANGED <<handlerVars, delayVars, pending, session, history, wrapVars,
                   refused>>

\* enableLeakWatcher with the present state: a log, and nothing else.
AlreadyStartedOrStopped ==
    /\ \E isEnabled \in BOOLEAN : /\ isEnabled = enabled
                                  /\ refused' = isEnabled
    /\ UNCHANGED <<jsVars, handlerVars, delayVars, pending, session, history,
                   wrapVars>>

\* The numbers of a config object are used only if they are in order; 0
\* stands for undefined: both are falsy.  A negative wait is in order.
Accepted(config) ==
    /\ config.interval > Number(MinCheckInterval)
    /\ config.wait # 0 /\ config.wait < config.interval

SetDelays(interval, wait) == gcDelay' = Uint32(interval) /\ dumpDelay' = Uint32(wait)
SetDefaultDelays == SetDelays(Number(MinCheckInterval), Number(DefaultDumpWait))

\* Mutant: the wait is not compared with the interval.
SetAnyDelays(config) ==
    IF config.interval > Number(MinCheckInterval) /\ config.wait # 0
    THEN SetDelays(config.interval, config.wait) ELSE SetDefaultDelays

\* Mutant: the interval is not compared with MIN_CHECK_INTERVAL.
SetShortDelays(config) ==
    IF config.wait # 0 /\ config.wait < config.interval
    THEN SetDelays(config.interval, config.wait) ELSE SetDefaultDelays

SetGcDelayAndDumpDelay(config) ==
    IF Accepted(config)
    THEN SetDelays(config.interval, config.wait) ELSE SetDefaultDelays

\* The history of what the conversion made of accepted numbers.
RecordWrap(config) ==
    /\ inverted' = \/ inverted
                   \/ Accepted(config) /\ Uint32(config.interval) <= Uint32(config.wait)
    /\ shortened' = \/ shortened
                    \/ Accepted(config) /\ Uint32(config.interval) < MinCheckInterval

\* A config array leaves the delays of an earlier session in place.
TakeConfig ==
    \/ UNCHANGED <<delayVars, wrapVars>>
    \/ \E config \in ObjectConfigs : /\ SetGcDelayAndDumpDelay(config)
                                    /\ RecordWrap(config)

\* enableLeakWatcher(true) that gives up after "enabled = isEnabled": an array
\* with an unknown name throws, an unknown context returns, and mkdirSync may
\* throw.
EnableFails ==
    /\ ~enabled
    /\ enabled' = TRUE
    /\ TakeConfig
    /\ refused' = FALSE
    /\ UNCHANGED <<handlerVars, pending, session, history>>

\* Mutant: HandleDumpTask sends a DUMP event, as HandleGCTask sends a GC event.
StartBothTasks ==
    /\ gcRef' = session + 1
    /\ pending' = Send(Send(pending, "gc", gcDelay'), "dump", dumpDelay')
    /\ dumpRef' = session + 1
    /\ isRunning' = TRUE
    /\ shutdownRef' = session + 1

\* HandleGCTask sends the first GC event with the delay just configured,
\* HandleDumpTask sets isRunning_; references of an older session are replaced.
StartTasks ==
    /\ gcRef' = session + 1
    /\ pending' = Send(pending, "gc", gcDelay')
    /\ dumpRef' = session + 1
    /\ isRunning' = TRUE
    /\ shutdownRef' = session + 1

EnableLeakWatcher ==
    /\ session < MaxSessions
    /\ ContextKnown
    /\ ~enabled
    /\ enabled' = TRUE
    /\ TakeConfig
    /\ StartTasks
    /\ session' = session + 1
    /\ gcDone' = FALSE
    /\ overlapped' = (overlapped \/ pending # <<>>)
    /\ sinceGc' = MaxWait
    /\ refused' = FALSE
    /\ UNCHANGED ran

\* Mutant: the references are deleted, but isRunning_ stays.
RemoveReferences ==
    /\ gcRef' = NoRef /\ dumpRef' = NoRef /\ shutdownRef' = NoRef
    /\ UNCHANGED <<isRunning, pending>>

\* removeTask: SetJsLeakWatcherStatus(false) and Reset.  The events already
\* sent stay in the queue.
RemoveTask ==
    /\ isRunning' = FALSE
    /\ gcRef' = NoRef /\ dumpRef' = NoRef /\ shutdownRef' = NoRef
    /\ UNCHANGED pending

\* enableLeakWatcher(false): shutdownJsLeakWatcher.
DisableLeakWatcher ==
    /\ enabled
    /\ enabled' = FALSE
    /\ RemoveTask
    /\ refused' = FALSE
    /\ UNCHANGED <<delayVars, session, history, wrapVars>>

-----------------------------------------------------------------------------
(* The event handler.                                                      *)

Tick ==
    /\ \E i \in DOMAIN pending : pending[i].left > 0
    /\ pending' = [i \in DOMAIN pending |->
                      [pending[i] EXCEPT !.left = IF @ > 0 THEN @ - 1 ELSE 0]]
    /\ sinceGc' = IF sinceGc < MaxWait THEN sinceGc + 1 ELSE MaxWait
    /\ UNCHANGED <<jsVars, handlerVars, delayVars, session, ran, gcDone,
                   overlapped, wrapVars, refused>>

Due(id) == pending # <<>> /\ Head(pending).left = 0 /\ Head(pending).id = id

DropEvent ==
    /\ ~isRunning
    /\ \E id \in {"gc", "dump"} : Due(id)
    /\ pending' = Tail(pending)
    /\ ran' = [task |-> "dropped", session |-> NoRef]
    /\ UNCHANGED <<jsVars, handlerVars, delayVars, session, gcDone, overlapped,
                   sinceGc, wrapVars, refused>>

ProcessDumpEvent ==
    /\ isRunning
    /\ Due("dump")
    /\ pending' = Tail(pending)
    /\ ran' = [task |-> "dump", session |-> dumpRef]
    /\ UNCHANGED <<jsVars, handlerVars, delayVars, session, gcDone, overlapped,
                   sinceGc, wrapVars, refused>>

\* Mutant: the next GC event is forgotten when the watcher is switched off by
\* enable(false) while its tasks run.
ProcessGcEventIfEnabled ==
    /\ isRunning
    /\ Due("gc")
    /\ pending' = IF enabled
                  THEN Send(Send(Tail(pending), "gc", gcDelay), "dump", dumpDelay)
                  ELSE Tail(pending)
    /\ ran' = [task |-> "gc", session |-> gcRef]
    /\ gcDone' = TRUE
    /\ sinceGc' = 0
    /\ UNCHANGED <<jsVars, handlerVars, delayVars, session, overlapped, wrapVars,
                   refused>>

\* The task, then the next GC event and the DUMP event of this round.
ProcessGcEvent ==
    /\ isRunning
    /\ Due("gc")
    /\ pending' = Send(Send(Tail(pending), "gc", gcDelay), "dump", dumpDelay)
    /\ ran' = [task |-> "gc", session |-> gcRef]
    /\ gcDone' = TRUE
    /\ sinceGc' = 0
    /\ UNCHANGED <<jsVars, handlerVars, delayVars, session, overlapped, wrapVars,
                   refused>>

ProcessEvent == DropEvent \/ ProcessDumpEvent \/ ProcessGcEvent

Next ==
    \/ Enable \/ AlreadyStartedOrStopped
    \/ EnableFails \/ EnableLeakWatcher \/ DisableLeakWatcher
    \/ Tick \/ ProcessEvent

Spec == Init /\ [][Next]_vars

\* Time passes, and the main thread is idle again and again.
FairSpec == Spec /\ WF_vars(Tick) /\ WF_vars(ProcessEvent)

-----------------------------------------------------------------------------
(* Properties.                                                             *)

(* The types; the queue holds GC and DUMP events in the order of their due *)
(* times.                                                                  *)
TypeOK ==
    /\ enabled \in BOOLEAN /\ isRunning \in BOOLEAN
    /\ session \in 0..MaxSessions
    /\ {gcRef, dumpRef, shutdownRef} \subseteq 0..session
    /\ {gcDelay, dumpDelay} \subseteq 0..(WordSize - 1)
    /\ pending \in Seq([id : {"gc", "dump"}, left : 0..(WordSize - 1)])
    /\ \A i, j \in DOMAIN pending : i < j => pending[i].left <= pending[j].left
    /\ ran \in [task : {"none", "gc", "dump", "dropped"}, session : 0..session]
    /\ {gcDone, overlapped, inverted, shortened, refused} \subseteq BOOLEAN
    /\ sinceGc \in 0..MaxWait

(* ExecuteJsFunc is only ever given a live reference, and it is that of the *)
(* present session: an event left over from an older session never runs a   *)
(* callback that Reset has deleted, or one of that session.                 *)
TasksAreCurrent ==
    isRunning => gcRef = session /\ dumpRef = session /\ session # NoRef

(* While the tasks run the next check is always scheduled: whatever order   *)
(* of enable, enableLeakWatcher and events led here, the chain of GC events *)
(* never breaks.                                                            *)
GcScheduled == isRunning => Count("gc") >= 1

(* DUMP events do not pile up: each waits behind its own GC event, whatever *)
(* is configured and in whatever order sessions start and stop -- except    *)
(* once an accepted wait has become a delay that is not shorter than the    *)
(* interval: one below zero, which ts:263 takes for short and               *)
(* napi_get_value_uint32 makes nearly 2^32 ms, one that equals the interval *)
(* without its fraction, or an interval of 2^32 ms and more.                *)
NoDumpBacklog == ~inverted => Count("dump") <= Count("gc")

(* Unless a session is started while an event of an older one is pending,   *)
(* its first task is a GC task: nothing is dumped that has not survived a   *)
(* collection of this session.                                              *)
DumpAfterGc ==
    (ran.task = "dump" /\ ran.session = session /\ ~overlapped) => gcDone

(* Under both provisos, the result of one check is dumped before the next   *)
(* check begins ...                                                         *)
GcThenDump ==
    [][(ProcessGcEvent /\ ~overlapped /\ ~inverted) =>
           ~(ran.task = "gc" /\ ran.session = session)]_vars

(* ... and, whatever the wait, checks of a session that overlapped no older *)
(* one are never closer than MIN_CHECK_INTERVAL (ts:39), unless an interval *)
(* of 2^32 ms and more has become a shorter one.                            *)
ChecksSpaced ==
    [][(ProcessGcEvent /\ ~overlapped /\ ~shortened) =>
           sinceGc >= MinCheckInterval]_vars

(* While the watcher runs, it checks and dumps again and again.             *)
ChecksGoOn ==
    <>[]isRunning => []<>(ran.task = "gc") /\ []<>(ran.task = "dump")

(* Without their times, calls and tasks come in the order TaskSchedule      *)
(* promises to what the tasks do, whatever is configured: every DUMP task   *)
(* has a GC task of its own before it, the chain of GC events ends only     *)
(* with its watcher, and no task runs of a watcher that does not run.       *)
Schedule == INSTANCE TaskSchedule
                WITH gcDue <- Count("gc"), dumpDue <- Count("dump")
KeepsSchedule == Schedule!ScheduleSpec

(* js_leak_watcher_napi.h:132 gives the period of the checks as 90 s.  A    *)
(* session started while the GC event of a stopped one is pending has two   *)
(* chains of GC events for good, and its checks come closer than that.      *)
CheckEvery90s == [][ProcessGcEvent => sinceGc >= MinCheckInterval]_vars

(* js_leak_watcher.ts:802 says "already started or stopped" when it ignores *)
(* enableLeakWatcher(true); after an enableLeakWatcher(true) that failed    *)
(* with an error nothing has been started.                                  *)
RefusedIsStarted == refused => isRunning

=============================================================================
