# A TLA+ verification project for HiChecker

This project models [HiChecker](../src/README.md), the OpenHarmony library
with which an application finds slow calls, network use on the main thread, leaked
abilities and leaked JS objects. It has two halves that hardly touch:

- **HiChecker** proper, a C++ class that all threads of a process call
  (`frameworks/native/hichecker.cpp`);
- the **JS leak watcher**, a TypeScript module on top of a NAPI module
  (`interfaces/js/kits/napi/js_leak_watcher/`).

`PROJECT.json` lists the components, the runs of the model checker, the map from
definitions to source lines, the hazards, the findings and the theorems.

## 1. Inventory

| Component | State | Operations | Interaction | What makes it correct |
|---|---|---|---|---|
| Rule words (`hichecker.h:27-40`) | none | bit tests, `CheckRule` | used by all | only rules get in |
| HiChecker (`hichecker.cpp`) | `mutexLock_`, `checkMode_`, `processRules_`, thread-local `threadLocalRules_` | add, remove, get, contains; `Notify*`; start-up parameter | shared memory between threads; notifications read without the lock | operations are atomic, alarms are neither lost nor invented, only TRIGGER_CRASH kills |
| Leak watcher life cycle (`js_leak_watcher.ts:781-870`, `js_leak_watcher_napi.h`) | `enabled`; `isRunning_`, references, delays, queued events | `enable`, `enableLeakWatcher`, `removeTask`, `ProcessEvent` | timed events between native and JS | tasks of the present session only, in order, for ever, and not too often |
| Dump files (`js_leak_watcher.ts:200-248, 420-587, 677-740`, `DumpRawHeap`) | a directory, `firstDump`, `curTimeStamp`, `dumpStatus` | `dump`, `dumpInner`, list, three deletions | a native thread, a threadsafe function, other processes through the directory | lists match heaps, pairs stay whole, space is bounded, users are answered |
| Leak detection (`js_leak_watcher.ts:325-418, 754-773`) | `watchObjMap`, lists of leaks, thresholds | `watch`, `check`, GC task, DUMP task | garbage collector, a promise | only survivors are reported, and every leak that lasts is |
| Life-cycle registrations (`js_leak_watcher.ts:589-675`, `js_leak_watcher_napi.cpp:189-256`) | global references, attempt counter | register, unregister, retry | window, ArkUI and ability callbacks | silent after a shutdown, no reference lost or used after its deletion, no kind of object forgotten |
| Bindings (`napi_hichecker.cpp`, `ani_hichecker.cpp`) | none | BigInt to `uint64_t`, errors | JS and ETS to HiChecker | no bit is lost on the way out and back, a refused call does nothing |
| Early start (`js_leak_watcher_ts.cpp`) | parameters | `JSLeakWatcherEarlyInit` | application start | loaded only where asked for |
| Caution, C wrapper, module embedding, report | data, byte code | getters, forwarding | | nothing to go wrong in state |

Hard behaviour: in HiChecker, readers without the lock next to writers with it;
in the watcher, events that outlive the session that sent them; in the dump
files, a native thread, a JS thread and other processes that use the same
files, and processes that die in between. The hazards, each at its line, are in
`PROJECT.json`.

## 2. The modules and the code

### HiCheckerRules, RuleRegistry, HiChecker, HiCheckerProperties

A `uint64_t` of rules is the set of its bits that are 1. `HiChecker` has one
action per step that touches something another thread can see: taking and
releasing `mutexLock_`, the write to `checkMode_`, the load and the store of
`processRules_ |= x`, each read of a notification. `threadLocalRules_` is
`thread_local` and its owner is busy while it changes, so it is updated with
the store. A notification is two or three such steps: the guard of `NotifyX`,
the test in `HandleCaution` (`HandleThreadCaution` or `HandleProcessCaution`)
and, for process rules, the second read that fills `CautionDetail`
(`TakeDetail`). `OnThreadCautionFound` decides between log and `SIGABRT`;
after the latter nothing happens any more. `ever` and `always` are history: the
bits that `processRules_` had at some moment, and at every moment, of the
notification in progress. Only properties read them.

`RuleRegistry` is the promise: operations that take effect at one moment
between call and return. `HiCheckerProperties` has the refinement mapping: an
operation is pending until the step that decides its answer.

### LeakWatcherTasks

Everything here happens on one thread, so a call is one step and so is the
processing of one event. The queue `pending` holds the events with the time left; the
actions are `Enable`, `EnableLeakWatcher` (and its three ways to fail),
`DisableLeakWatcher`, `Tick` and the three branches of `ProcessEvent`. `Send` puts
an event behind all that are due no later. A session
is one successful `enableLeakWatcher(true)`; callbacks are named by it. Events
have IDLE priority: they may run late, never early. A pending event is not removed when
the watcher stops (`RemoveTask`), as in the code.

A configuration object holds JS numbers, which `setGcDelayAndDumpDelay` compares as they
are and `napi_get_value_uint32` converts: the fraction is cut off and the rest
taken modulo 2^32 (`Accepted`, `Uint32`; the model writes numbers in halves). So a
wait below zero passes for short and becomes nearly 2^32 ms, and one that equals the
interval without its fraction becomes as long. The histories `inverted` and
`shortened` record that this has happened. Left out are values that are no numbers.

### HeapDump

The directory is a function from names to contents; a content is the set of
parts written (heap, metadata), which stands for its hash. Each process has a JS
thread (`pc`, `work`) and one native thread per raw heap dump (`native`). The
dump, the callback, the append, the list and each `unlinkSync` are steps of
their own; what `createHeapDumpFile` deletes before is part of the step that
creates the file. Time stamps come from a global clock that never gives one
twice: two processes that dump in the same millisecond are not modelled.
`getJsleaklistFile` reads `curTimeStamp` and `dumpStatus` as they are when the
callback runs, not as they were when the dump began. Failures (`Faults`): the
file or the threadsafe function cannot be created, the native dump fails, the
metadata cannot be read; a process may die at any step. The history `overlap` marks dumps
that were under way together with another, of this process or any: for those the
code promises nothing, see the hazards, and most properties are about the others.
`MaxFileNum` is twice the number of dumps to keep, which `setDumpFileSaveAmount`
replaces by its default unless it is positive: a natural number from 2 on (a
configuration with half a dump is left out).
Not modelled: reading and writing in pieces, a list that fails half way, a
`maxFileNum` that differs between processes.

### TaskSchedule, LeakDetection, LifecycleCallbacks

`TaskSchedule` is `LeakWatcherTasks` without times: what the tasks may rely on. A
GC event sends its successor and one DUMP event, so two counters, `gcDue` and
`dumpDue`, are all that is left of the queue. `LeakWatcherTasks` implements it
(`KeepsSchedule`: the counters are the numbers of pending events of each kind),
and the modules of what the tasks *do* extend it, each action adding its
part to one of the schedule's. Several GC tasks may run before a DUMP task:
that is what an accepted wait does that is converted to more than the interval. In the
modules that extend it the number of DUMP events due is bounded by `MaxBacklog`.

`LeakDetection` is the work of the tasks. `watchObjMap` and the two lists are sequences of
objects, since the code compares them element by element in the
order of the map (`Filtered` is the `filter` of the code, in that order); an object stands for its hash. `heap` is
the collector's view. `Finalize` (the callback of the `FinalizationRegistry`)
may run at any moment after an object became garbage. `startGCtask` copies the
map and asks for the process information; the answer is a step of its own
(`SettleQuery`: the entry of this process, none, or a rejection), which the DUMP
task does not wait for. A threshold that is left out of a configuration is
`undefined` and behaves like 0. `JSLeakWatcherEarlyInit` is the start without
thresholds; its gates (parameters, the kind of build) are the constant
`EarlyInit`. Histories: `survivors`, what the last forced collection left of the
list, and `dumped`, whether a dump was made when the present list was
recorded. What a dump does with its files is `HeapDump`.

`LifecycleCallbacks` is `executeRegister`, its retries from the GC task, and
what a shutdown takes back. The current UI context changes freely: that is how a registration
fails. `currentAttempt` is never reset, and counts over all sessions. The
native callback belongs to a context, but its JS function is found
through one global reference. To unregister with an id the application context
does not know is assumed to do nothing. The filters by name and ID only let
objects go, so they are part of `ObjectDestroyed`. Histories: `contextless`,
`elsewhere`, `restarted`, `lost` name the situations in which the code promises
less; `asked` is what the last session was started for.

### HiCheckerBindings

Scripts on the threads of `HiChecker`, next to its native callers. A BigInt is a
sign and the bits of its magnitude. NAPI takes it without loss or refuses
it; ANI takes the low 64 bits of its two's complement. A refused value is 0: the
older functions ignore it, the `...CheckRule` ones throw 401, and both `contains` functions ask
HiChecker about it all the same. One thread may use either binding; in
reality a script has one, so this includes more behaviours than a process has.

## 3. What is checked

| Run | Question | Bounds |
|---|---|---|
| `hichecker_cautions` | which cautions become alarms, logs or a crash while another thread changes the rules; the inductive invariant | two threads; a process rule with the fatal caution, a thread rule next to a process rule, and a word that is no rule; two triggers |
| `hichecker_registry` | refinement of `RuleRegistry`, release of the mutex, termination of notifications, with scripts calling through the bindings | two threads; natively one rule word and one that is no rule; from scripts no BigInt, 0, the rule, the rule plus 2^64, and -1; parameter values that saturate or hold other bits |
| `hichecker_crash_scope` | **violation**: TRIGGER_CRASH ends the application whenever an alarm is generated | as the first |
| `leak_watcher_tasks` | order, spacing and continuity of the tasks; refinement of `TaskSchedule` | two sessions; a unit of time is about 30 s, so 90 s is 3 units; configurations longer than and shorter than the minimum, with a wait that is too long, below zero, or equal to the interval but for its fraction, and an interval that wraps |
| `leak_watcher_interval` | **violation**: 90 s between checks | two sessions; a unit of time is about 20 s; no configuration object |
| `leak_watcher_refused` | **violation**: refused because already started | as the last |
| `heap_dump_shared` | two processes, crashes, retention | three dumps of both kinds, room for one pair of files |
| `heap_dump_alone` | one process with every call and failure: one dump kept, files reported, who is called back, the list of a snapshot | three dumps, room for one pair |
| `leak_detection` | what is reported has survived; what leaks is recorded | two objects, one session, one promise at a time, at most two DUMP events due; configurations with a threshold that one object is below and two reach; process in the foreground or unknown; early start without thresholds |
| `leak_detection_lost` | **violation**: a leak that is not new has been dumped | as above, the application in the foreground or in the background |
| `lifecycle_callbacks` | silence after a shutdown, references, retries | two UI contexts, three sessions, at most two DUMP events due; all kinds, the kinds of the UI context only, the others |

The bounds are small because the mistakes are: a race in HiChecker needs one
writer and one other thread; overlap of sessions shows with two, and what more of them
do is proved, but for liveness; the directory is full with the second dump and trims with
each one after. `WordSize` in `leak_watcher_tasks` is just above the delays that do not
wrap, so that a small negative wait becomes the longest delay there is, as
in the code, and an interval can wrap to a short one; in the other two runs nothing wraps. Two
DUMP events due (`MaxBacklog`) are one more than configurations in order ever have in
one session. In
`LeakDetection` two objects are enough to have lists that differ in length, in
members and in order, and to be on either side of a threshold. It has one
session only (and only the violation run has the state `background`), because a second one exceeds what TLC does in minutes: a list
that outlives its session, which the code does not reset, is in the module but not explored. `MaxQueries`
= 1 still lets the DUMP task of a round run before its promise is settled, but not the
next GC task. In `LifecycleCallbacks` two contexts show a callback
registered in one and taken back in another; three sessions are needed to use up the attempts and
start afresh.

What holds: `RegistryAtomic` (updates are not lost, answers are states of the
registry), `SlowEventModeAgrees` (the unlocked `checkMode_` agrees with the rules
whenever nobody updates), `NoTornMask` (a 64-bit read in two halves sees a
word that was there: every bit that `AddRule` lets into `processRules_` is in its upper half),
`AlarmJustified`/`AlarmNotLost`/`CrashJustified`/`CrashHonoured`; `TasksAreCurrent`,
`GcScheduled`; until an accepted configuration is converted out of order,
`NoDumpBacklog`; and, unless a session starts while an event of an older one is
pending, `DumpAfterGc`, `GcThenDump` (with the same proviso) and `ChecksSpaced` (unless an
interval wraps); for dumps that do not overlap, `ListCoversHeap`, `KeptInPairs`, `OrphansSwept`, `DirectoryBounded`,
`ReportedFilesExist`; always, `OthersKept`; and for a process that has the directory to
itself `OneDumpKept`, `SnapshotHashMatches` (the list of a snapshot names its hash,
also after late callbacks) and `DumpAnswered`. `KeepsSchedule`
carries the order of the tasks over to the modules that extend `TaskSchedule`:
`DumpedHaveSurvived` (unless the promise is late), `LeakRecorded`;
`SilentAfterShutdown`, `ReferencesKept`, `RegisteredOrGivenUp`, each with the
exceptions its comment names. `RuleWordRoundTrips` and `ThrownIsRefused` say
that the bindings lose no bit of a rule word, and that the calls which throw
leave HiChecker alone.

The exceptions are worth a reader's attention, because each is something the code
does: a shutdown in another UI context leaves the ArkUI callback registered
without its reference; a session started over a running one (`enable(false)`
in between) leaves the first ability callback for good; a second
registration overwrites a reference that is not deleted; a wait below zero lets DUMP
events pile up. `DumpAnswered` is about raw dumps that have begun: nobody is called
back when the file or the threadsafe function cannot be created, a dump that makes no raw
heap may take the answer of the raw dump it overtakes, and with two processes an
`unlinkSync` of a file the other has deleted ends the callback. The list of
a raw heap may name the hash of the file before the metadata is appended
(`js_leak_watcher_napi.cpp:448-450`); no document says which of the two hashes it should be, so
`ListCoversHeap` allows both.

What does not (the findings): an alarm only logs although TRIGGER_CRASH is set
for the process, when a rule of the thread triggered it; restarting the watcher within
one interval leaves two chains of checks; a failed `enableLeakWatcher` blocks the
next; a leak that is recorded in a round below the threshold, or before the
promise has come, is not new later and never dumped, unless another one joins it.

### Fairness

- HiChecker: a thread inside the critical section or inside a notification is
  scheduled (weak fairness of `CriticalStep`, `NotifyStep`). Nothing is assumed
  of who gets the mutex, and no thread has to call anything.
- LeakWatcherTasks: time passes, and the main thread is idle again and again,
  which IDLE events need (weak fairness of `Tick`, `ProcessEvent`).
- LeakDetection, LifecycleCallbacks: the tasks go on (weak fairness of `GcTask`,
  `DumpTask`), which is what `ChecksGoOn` shows of LeakWatcherTasks; promises are
  settled (`SettleQuery`). No object has to be released or finalized, no UI
  context has to come.
- HiCheckerBindings: as HiChecker. No script has to call.
- HeapDump: the native dump goes on and the main thread handles queued
  callbacks. Nobody has to dump, and nobody has to die.

Deadlock is not checked where the system may stop: after SIGABRT, and when the
time stamps or sessions of the bound are used up.

## 4. What is proved

Every invariant and every safety property of a step that a passing run checks is
a theorem here, for every value of the constants that satisfies the
assumptions named in the modules; so are the refinements. What stays with TLC is
at the end of this section. `PROJECT.json` lists the theorems one by one.

| Module | Proves | For any |
|---|---|---|
| `HiCheckerProofs` | `TypeOK`, `SlowEventModeAgrees`, `NoTornMask`, `AlarmJustified`, `AlarmNotLost`, `CrashJustified`, `CrashHonoured`; `RegistryAtomic` | threads, rule words as arguments, parameter values, trigger rules |
| `BindingsProofs` | `IInv` of HiChecker and `RegistryAtomic` again for `BindingsSpec`; `RuleWordRoundTrips`, `ThrownIsRefused` | sets of BigInts |
| `LeakWatcherProofs` | `TypeOK`, `TasksAreCurrent`, `GcScheduled`, `DumpAfterGc`, `NoDumpBacklog`, `GcThenDump`, `ChecksSpaced`, `KeepsSchedule` | delays, configurations (any integers, in halves), sessions |
| `LeakDetectionProofs` | `TypeOK`, `DumpedHaveSurvived`; that LeakDetection implements TaskSchedule | objects, thresholds, process states, promises open at a time, sessions |
| `LifecycleProofs` | `TypeOK`, `SilentAfterShutdown`, `ReferencesKept`; that LifecycleCallbacks implements TaskSchedule | UI contexts, sets of kinds, sessions |
| `HeapDumpProofs` | `TypeOK`, `OthersKept`, `OneDumpKept` | processes, calls, faults, dumps |
| `HeapDumpAloneProofs` | `ReportedFilesExist`, `KeptInPairs`, `OrphansSwept`; if the native dump does not fail, `ListCoversHeap`; if files can be created, `DirectoryBounded` | the same, and any limit of files from 2 on |
| `SequenceLemmas` | what inserting an element into a sequence does; that a nonempty set of naturals has a least member | |

### HiChecker and its bindings

The inductive invariant is `IInv`, needed because none of the properties is
inductive. `MutexInv` says
that only the owner of the mutex is inside an operation, so nobody else stores
between a load and its store (`LoadInv`), and a rule past `CheckRule` is valid
(`CallInv`); together they make an update atomic. `ModeInv` follows the bit of
`checkMode_` through the update, where it runs ahead of `processRules_`.
`WindowInv` says that the word a notification has copied lies between the
histories `always` and `ever`. The type invariant carries the scopes of the two
words, which `NoTornMask` and the guards of `NotifyX` rest on. The refinement
theorem shows for every step that it is a step of the registry or a stutter:
`StoreProcessRules`, `AnswerGetRule`, `AnswerContains` and `RejectRule` are where operations take
effect.

The steps of `BindingsSpec` are steps of HiChecker with arguments that came
through a conversion, so the invariant and the refinement carry over as soon as
each converted argument is shown to be a word. `ThrownIsRefused` needs
`ThrownInv`: a thread whose call has thrown is at rest or asks HiChecker for the
word 0, which `CheckRule` refuses before anything is read or written.

### The tasks of the leak watcher

`BaseInv` does not depend on the delays. `GcScheduled` is preserved because
the GC event sends its successor in the same step; `DumpAfterGc` needs
`FirstIsGc`: before the first check of a session that overlaps no older one, only GC events
are pending; and such a session never has more than one GC event (`OneGc`). The
order and the spacing of the tasks need `FitInv`, for any configured numbers.
`DelaysFit` says what `setGcDelayAndDumpDelay` leaves: a DUMP delay below the GC delay
unless `inverted`, and a GC delay of at least `MIN_CHECK_INTERVAL` unless
`shortened`. Until then `Matched` says that from every place of the queue on there are
at least as many GC events as DUMP events, which is `NoDumpBacklog` in a form that
insertion and removal preserve, and `OneChain`, that a session without overlap has
at most one DUMP event before its GC event. `Spaced` relates the time since the
last check to the time left of the next one, and does not look at the wait. What the provisos
except does happen: see the hazards at `js_leak_watcher.ts:262` and
`js_leak_watcher_napi.cpp:304`. The refinement needs none of this, only `BaseInv`: it
maps the queue to the numbers of its events; each `Send` adds one, each
`ProcessEvent` takes one away.

### Leak detection and registrations

Both implement `TaskSchedule`, action by action. `DumpedHaveSurvived` needs
`ListWasCollected`: when no promise is open, a verdict that says GC was reached in a step that
collected the list as it is now. The theorem is stronger than the
run in one respect: it covers several sessions and several open promises, which TLC
could not explore.

`LifecycleProofs` needs two more facts (`IInv`). `IdKnown`:
unless a session was started over a running one, the only registered ability callback is
the one of the id that a shutdown will use. `ReferenceOwned`: a reference that
outlives its session, and anything left to be tried again, come from a
registration or shutdown without a UI context; otherwise a registration that
finds a reference would lose it.

### Dump files

`BaseInv` says which states of a native thread, its callback and the JS thread
go together, and whose stamp is whose. The bound on stamps needs an argument of its own
(`BoundInv`): a raw dump may give a second stamp when its list is written, so `clock` plus
the number of lists still to come never exceeds `2 * MaxDumps + 1`. `OthersKept`
is about one step: the prefix in the name keeps a dump from deleting
another process's files. `OneDumpKept` follows from `OneInv`: in a directory of one process
the only list is the one of its last stamp.

The rest is about dumps that overlap no other. `AloneInv`: such a dump
is the only one under way and the last that got a stamp. So nobody else adds a
file while it runs, and what it does can be followed step by step:

- `FilesInv`: its raw heap and, once written, its list are there and nobody is about to
  delete them. `deleteOldFile` keeps the newest files, and `MaxFileNum >= 2` leaves
  room for these two; `deleteUnMatchDumpFile` would take a heap that waits for its list, but
  belongs to a first dump, and that one would overlap.
- `HeapInv`: the heap is in its file before the callback is queued. This rests
  on `"dump" \notin Faults`, and TLC shows `ListCoversHeap` wrong without it: the code
  passes the result of the native dump to JS, where nobody looks at it.
- `VictimPairs`, `PairInv`: the files `deleteOldFile` picks hold both files of a pair or
  neither, since what counts is how many files have an older stamp; while one of a
  pair is gone, some JS thread is in the loop that deletes the other, and deletes it next
  (`Finishes`).
- `LostInv`, `OrphanInv`: a process that lives loses a callback only before the list is
  written. A heap whose callback is lost, and that has no list, is gone once another
  process has begun its first dump, up to one that some process is about to delete.
- `WhollyInv`, `SyncInv`, `TrimInv`: the loop finds all files it was given, so what is left when
  it ends is what `OldFiles` left, `MaxFileNum` files at most. This needs `"create" \notin
  Faults`: a raw dump that made its file and then cannot create its threadsafe function is
  never called back, so nobody trims the directory, and TLC finds one file too many.

### How the proofs go

An invariant has one lemma that says a step preserves it. In the large ones, what
a step can change and what it leaves alone is stated first, in lemmas of its own
(`ThreadChanges`, `CallbackChanges`, `FilesGone` and others in the proofs about HeapDump), so that each
invariant looks at the few steps that matter to it. There is no induction over data. Where one would be
natural, the least counterexample is taken instead (`MinNat`, proved from the library's
well-founded order of finite sets). `LeakWatcherTasks` and `LeakDetection` pick places
in a sequence with `CHOOSE` and `Cardinality` rather than with a recursive
definition for the same reason.

### Only model-checked

- Liveness: `LockReleased`, `NotifyFinishes`, `ChecksGoOn`, `DumpAnswered`,
  `LeakRecorded`, `RegisteredOrGivenUp`. Fairness means `ENABLED`, which the prover does not
  reason about. `RuleRegistry` and `TaskSchedule` are safety specifications, so the
  refinements are not concerned.
- The findings: a violation is a behaviour, and TLC shows it.

## 5. Not modelled

- `Caution`: a data class; the one field that steers something, the trigger rule,
  is an argument of the notifications.
- The C wrapper and the module embedding: forwarding, and addresses of byte code.
- The leak report (`setReportData`, `reportRawHeap`): fields copied into a system
  event.
- The gates of `JSLeakWatcherEarlyInit` (system parameters, the kind of build)
  and `g_enableStatus`, which only the framework reads: see `EarlyInit` above.

## 6. Plan

1. done: HiCheckerRules, RuleRegistry, HiChecker.
2. done: LeakWatcherTasks, HeapDump; TaskSchedule and the refinement.
3. done: LeakDetection, LifecycleCallbacks, HiCheckerBindings.
4. done: proofs of every safety property and refinement of the runs.
5. `Retention`: the loop of `deleteOldFile` as a function over a sequence, against
   the set `OldFiles` of HeapDump, for directories with odd files too.
6. An abstract directory of dumps (begun, kept, deleted), which HeapDump implements
   for dumps that do not overlap.
7. Shorter proofs of HeapDump: its step lemmas share most of their cases.
8. Thresholds and the lists of an older session, in a smaller instance of LeakDetection.
