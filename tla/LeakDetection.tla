----------------------------- MODULE LeakDetection -----------------------------
(***************************************************************************)
(* What the tasks of the leak watcher find (js_leak_watcher.ts): the map   *)
(* of watched objects, the GC task that forces a collection, and the DUMP  *)
(* task that dumps what is left.  TaskSchedule gives the order of the      *)
(* tasks.  An object is its hash; the map and the lists are sequences,     *)
(* because the code compares them element by element.                      *)
(*                                                                         *)
(* The GC task decides only when the promise of the process information    *)
(* is settled, and nothing makes the DUMP task of its round wait for that. *)
(* The files of a dump are the subject of HeapDump.                        *)
(***************************************************************************)
EXTENDS TaskSchedule, Sequences, FiniteSets, SequencesExt

CONSTANTS
    Object,         \* the objects the application makes
    Thresholds,     \* the thresholds of the LeakWatcherConfig objects users pass
    ProcessStates,  \* what getRunningProcessInformation may say of this process
    EarlyInit,      \* may JSLeakWatcherEarlyInit be called, and pass its gates
    MaxQueries,     \* bound: promises that are not settled
    MaxBacklog      \* bound: DUMP events that are due

ASSUME QueryAssumption == MaxQueries \in Nat /\ MaxBacklog \in Nat

VARIABLES
    heap,              \* object -> "reachable", "garbage" or "collected"
    watchObjMap,
    currentLeakList,   \* what was watched when the GC task began
    duplicateLeakList, \* of the last round; appState.intersection is this array
    isConfigObj,
    threshold,         \* fgLeakCountThreshold, bgLeakCountThreshold
    queries,           \* promises of the process information not settled
    isGC,              \* the verdict of the last promise that was settled
    exists,            \* appState.exists and the state in it, or "absent"
    survivors,         \* history: what the last forced collection left of it
    dumped             \* history: was a dump made when the list was recorded?

config  == <<isConfigObj, threshold>>
verdict == <<queries, isGC, exists>>
history == <<survivors, dumped>>
vars == <<schedule, heap, watchObjMap, currentLeakList, duplicateLeakList,
          config, verdict, history>>

\* A threshold that the configuration does not give is undefined: like 0, no
\* length is less.
Undefined == [foreground |-> 0, background |-> 0]
DefaultThreshold == [foreground |-> 5, background |-> 1]

Init ==
    /\ ScheduleInit
    /\ heap = [o \in Object |-> "reachable"]
    /\ watchObjMap = <<>>
    /\ currentLeakList = <<>> /\ duplicateLeakList = <<>>
    /\ isConfigObj = FALSE
    /\ threshold = DefaultThreshold
    /\ queries = 0 /\ isGC = TRUE /\ exists = "absent"
    /\ survivors = {} /\ dumped = TRUE

Watched == ToSet(watchObjMap)

\* The elements of a list that are in a set, in the order of the list.
Filtered(list, set) ==
    LET kept == {i \in DOMAIN list : list[i] \in set}
        Place(i) == Cardinality({j \in kept : j <= i})
    IN  [k \in 1..Cardinality(kept) |-> list[CHOOSE i \in kept : Place(i) = k]]

-----------------------------------------------------------------------------
(* Objects.                                                                *)

\* Mutant: the watched objects are a list that is pushed to.
RegisterObjectAgain(o) ==
    /\ enabled \/ isRunning
    /\ heap[o] = "reachable"
    /\ watchObjMap' = Append(watchObjMap, o)
    /\ UNCHANGED <<schedule, heap, currentLeakList, duplicateLeakList, config,
                   verdict, history>>

\* watch(), and the life-cycle callbacks, which are registered as long as the
\* tasks run.  An object in the map keeps its place.
RegisterObject(o) ==
    /\ enabled \/ isRunning
    /\ heap[o] = "reachable"
    /\ o \notin Watched
    /\ watchObjMap' = Append(watchObjMap, o)
    /\ UNCHANGED <<schedule, heap, currentLeakList, duplicateLeakList, config,
                   verdict, history>>

\* The application lets go of an object.  It is of no consequence for an object
\* that is not watched: it may as well not be watched again.
Release(o) ==
    /\ o \in Watched
    /\ heap[o] = "reachable"
    /\ heap' = [heap EXCEPT ![o] = "garbage"]
    /\ UNCHANGED <<schedule, watchObjMap, currentLeakList, duplicateLeakList,
                   config, verdict, history>>

\* The callback of the FinalizationRegistry: some time after a collection that
\* was forced, or after one of the virtual machine's own.
Finalize(o) ==
    /\ heap[o] \in {"garbage", "collected"}
    /\ o \in Watched
    /\ heap' = [heap EXCEPT ![o] = "collected"]
    /\ watchObjMap' = Filtered(watchObjMap, Watched \ {o})
    /\ UNCHANGED <<schedule, currentLeakList, duplicateLeakList, config, verdict,
                   history>>

\* ArkTools.forceFullGC().
ForceFullGC ==
    /\ heap' = [o \in Object |->
                    IF heap[o] = "garbage" THEN "collected" ELSE heap[o]]
    /\ survivors' = {o \in ToSet(currentLeakList) : heap'[o] = "reachable"}
    /\ UNCHANGED dumped

-----------------------------------------------------------------------------
(* Calls.                                                                  *)

\* getCustomAttribute: an array leaves the settings of an earlier object alone.
GetCustomAttribute ==
    \/ UNCHANGED config
    \/ isConfigObj' = TRUE /\ threshold' \in Thresholds

EnableLegacy ==
    /\ \E isEnable \in BOOLEAN :
        /\ Enable(isEnable)
        /\ watchObjMap' = IF isEnable THEN watchObjMap ELSE <<>>
    /\ UNCHANGED <<heap, currentLeakList, duplicateLeakList, config, verdict,
                   history>>

\* The lists of an older session stay as they are.
Start ==
    /\ EnableLeakWatcher \/ EnableFails
    /\ GetCustomAttribute
    /\ UNCHANGED <<heap, watchObjMap, currentLeakList, duplicateLeakList,
                   verdict, history>>

\* JSLeakWatcherEarlyInit, on a build and with a parameter that let it through:
\* enableLeakWatcher(true) with an object that has no thresholds.
JSLeakWatcherEarlyInit ==
    /\ EarlyInit
    /\ EnableLeakWatcher
    /\ isConfigObj' = TRUE /\ threshold' = Undefined
    /\ UNCHANGED <<heap, watchObjMap, currentLeakList, duplicateLeakList,
                   verdict, history>>

Shutdown ==
    /\ DisableLeakWatcher
    /\ watchObjMap' = <<>>
    /\ UNCHANGED <<heap, currentLeakList, duplicateLeakList, config, verdict,
                   history>>

-----------------------------------------------------------------------------
(* The GC task.                                                            *)

TooFew(list, state) ==
    /\ state \in DOMAIN threshold
    /\ Len(list) < threshold[state]

StartGCtask ==
    /\ queries < MaxQueries
    /\ currentLeakList' = watchObjMap
    /\ queries' = queries + 1
    /\ UNCHANGED <<heap, isGC, exists, history>>

GcTask ==
    /\ RunGcTask /\ dumpDue < MaxBacklog
    /\ IF isConfigObj
       THEN StartGCtask
       ELSE ForceFullGC /\ UNCHANGED <<currentLeakList, verdict>>
    /\ UNCHANGED <<watchObjMap, duplicateLeakList, config>>

\* Without an entry of this process the verdict of the round before stays.
Settle(state) ==
    /\ exists' = state
    /\ IF state = "absent" THEN UNCHANGED <<heap, isGC, history>>
       ELSE IF TooFew(currentLeakList, state)
            THEN isGC' = FALSE /\ UNCHANGED <<heap, history>>
            ELSE isGC' = TRUE /\ ForceFullGC

Reject == isGC' = FALSE /\ UNCHANGED <<heap, exists, history>>

\* The then and the catch of the promise.
SettleQuery ==
    /\ queries > 0
    /\ queries' = queries - 1
    /\ Reject \/ \E state \in ProcessStates : Settle(state)
    /\ UNCHANGED <<schedule, watchObjMap, currentLeakList, duplicateLeakList, config>>

-----------------------------------------------------------------------------
(* The DUMP task.                                                          *)

\* Mutant: everything that is watched when the DUMP task runs.
WatchedNow == watchObjMap

\* What was watched before the collection and still is.
Intersection == Filtered(watchObjMap, ToSet(currentLeakList))

\* Mutant: only the lengths are compared.
SameLength == Len(currentLeakList) = Len(duplicateLeakList)

NoNewLeak == currentLeakList = duplicateLeakList

\* Does the round of a config object get as far as a dump?  dumpInner leaves
\* it out again while the watcher is disabled.
DumpDue ==
    /\ isGC /\ ~NoNewLeak
    /\ exists # "absent" /\ ~TooFew(Intersection, exists)
    /\ enabled

StartDumptask ==
    IF isGC /\ ~NoNewLeak
    THEN duplicateLeakList' = Intersection /\ dumped' = (DumpDue \/ Intersection = <<>>)
    ELSE UNCHANGED <<duplicateLeakList, dumped>>

\* With a config array everything that is watched is dumped.
DumpTask ==
    /\ RunDumpTask
    /\ IF isConfigObj THEN StartDumptask ELSE UNCHANGED <<duplicateLeakList, dumped>>
    /\ UNCHANGED <<heap, watchObjMap, currentLeakList, config, verdict, survivors>>

DropTask ==
    /\ DropEvent
    /\ UNCHANGED <<heap, watchObjMap, currentLeakList, duplicateLeakList,
                   config, verdict, history>>

-----------------------------------------------------------------------------

Next ==
    \/ \E o \in Object : RegisterObject(o) \/ Release(o) \/ Finalize(o)
    \/ EnableLegacy \/ Start \/ JSLeakWatcherEarlyInit \/ Shutdown
    \/ GcTask \/ SettleQuery \/ DumpTask \/ DropTask

Spec == Init /\ [][Next]_vars

\* The tasks run on (LeakWatcherTasks!ChecksGoOn), and promises are settled.
FairSpec == Spec /\ WF_vars(GcTask) /\ WF_vars(DumpTask) /\ WF_vars(SettleQuery)

-----------------------------------------------------------------------------
(* Properties.                                                             *)

TypeOK ==
    /\ enabled \in BOOLEAN /\ isRunning \in BOOLEAN
    /\ session \in 0..MaxSessions /\ {gcDue, dumpDue} \subseteq Nat
    /\ heap \in [Object -> {"reachable", "garbage", "collected"}]
    /\ \A list \in {watchObjMap, currentLeakList, duplicateLeakList} :
         ToSet(list) \subseteq Object /\ IsInjective(list)
    /\ isConfigObj \in BOOLEAN
    /\ threshold \in Thresholds \cup {Undefined, DefaultThreshold}
    /\ queries \in 0..MaxQueries /\ isGC \in BOOLEAN
    /\ exists \in ProcessStates \cup {"absent"}
    /\ survivors \subseteq Object /\ dumped \in BOOLEAN

(* What a DUMP task reports has survived: each object it names was there    *)
(* when a full collection was last forced and was not collected by it, or   *)
(* it has been collected and waits for its finalizer.  Except if the     *)
(* promise of the process information is late: then the verdict, and the    *)
(* collection, are those of the round before.                               *)
DumpedHaveSurvived ==
    (isRunning /\ isConfigObj /\ dumpDue > 0 /\ queries = 0 /\ DumpDue) =>
        \A o \in ToSet(Intersection) : o \in survivors \/ heap[o] = "collected"

(* An object that leaks for good, while the tasks run and collections are   *)
(* forced for good, is recorded as a leak and stays so.                     *)
LeakRecorded ==
    \A o \in Object :
        <>[](isRunning /\ isConfigObj /\ isGC /\ o \in Watched /\ heap[o] = "reachable")
            => <>[](o \in ToSet(duplicateLeakList))

(* js_leak_watcher.ts says "No new leakage objects were added." when it     *)
(* leaves a dump out: what it found has been dumped before.  A leak that    *)
(* was recorded in a round without a dump is not new in the next one.       *)
NotNewIsDumped ==
    [][(DumpTask /\ isConfigObj /\ isGC /\ NoNewLeak) => dumped]_vars

=============================================================================
