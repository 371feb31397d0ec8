------------------------------- MODULE HeapDump -------------------------------
(***************************************************************************)
(* The dump files of the JS leak watcher (js_leak_watcher.ts, and          *)
(* DumpRawHeap of js_leak_watcher_napi.cpp).                               *)
(*                                                                         *)
(* A dump is a data file (.rawheap, or .heapsnapshot of the older dump())  *)
(* and a .jsleaklist that names its SHA256.  A raw heap is written by a    *)
(* native thread, which then queues the callback that writes the list.     *)
(* Processes of one application write into one directory, and one that is  *)
(* started again after a crash is a new Process: the pid in its prefix is  *)
(* new.  A file is named by its time stamp, which a global clock gives,    *)
(* and its content is the set of its parts, which stands for its SHA256    *)
(* too.  Each process has one JS thread in here.                           *)
(***************************************************************************)
EXTENDS Integers, FiniteSets, Functions

CONSTANTS
    Process,      \* the processes that use the directory
    Calls,        \* the calls made: "raw", "list", "sync", "refused"
    MaxFileNum,   \* maxFileNum: 2 * maxStoredHeapDumps
    Faults,       \* what may fail: "create", "dump", "metadata"
    MaxDumps      \* bound: dumps asked for

ASSUME MaxFileNumAssumption == MaxFileNum \in Nat \ {0, 1}

ASSUME ProcessAssumption == IsFiniteSet(Process) /\ Process # {}

ASSUME BoundAssumption == MaxDumps \in Nat \ {0}

VARIABLES
    clock,         \* the next time stamp
    files,         \* the directory: name -> content
    owner,         \* time stamp -> the process whose prefix the name has
    firstDump,     \* JS globals of each process
    curTimeStamp,
    dumpStatus,
    pc,            \* where the JS thread is
    work,          \* the call it is in: its kind and the dump it answers
    victims,       \* the files deleteOldFile has yet to delete
    native,        \* time stamp -> where the native thread is
    callback,      \* time stamp -> what became of the user's callback
    alive,
    overlap        \* history: the time stamps of the dumps that were under way
                   \* together with another one

jsGlobals  == <<firstDump, curTimeStamp, dumpStatus>>
jsThread   == <<pc, work, victims>>
dumpVars   == <<native, callback>>
vars == <<clock, files, owner, jsGlobals, jsThread, dumpVars, alive, overlap>>

Stamp == 1..2 * MaxDumps
NoStamp == 0
Idle == [kind |-> "none", stamp |-> NoStamp]

Name(stamp, kind) == [stamp |-> stamp, kind |-> kind]
Names == DOMAIN files
RawHeap(stamp) == Name(stamp, "rawheap")
HeapSnapshot(stamp) == Name(stamp, "heapsnapshot")
LeakList(stamp) == Name(stamp, "jsleaklist")

\* A list holds the hash of its data file; none if only the list was asked
\* for, and none in a list that was opened and never written.
Hashed(parts) == [hash |-> parts]
NoHash == [hash |-> {"none"}]
Unwritten == [hash |-> {"unwritten"}]
Parts == {"heap", "meta"}

Init ==
    /\ clock = 1
    /\ files = [name \in {} |-> {}]
    /\ owner = [stamp \in {} |-> NoStamp]
    /\ firstDump = [p \in Process |-> TRUE]
    /\ curTimeStamp = [p \in Process |-> NoStamp]
    /\ dumpStatus = [p \in Process |-> TRUE]
    /\ pc = [p \in Process |-> "idle"]
    /\ work = [p \in Process |-> Idle]
    /\ victims = [p \in Process |-> {}]
    /\ native = [stamp \in Stamp |-> "none"]
    /\ callback = [stamp \in Stamp |-> "none"]
    /\ alive = [p \in Process |-> TRUE]
    /\ overlap = {}

-----------------------------------------------------------------------------
(* The directory.                                                          *)

With(dir, name, content) ==
    [n \in DOMAIN dir \cup {name} |-> IF n = name THEN content ELSE dir[n]]

Without(dir, names) == Restrict(dir, DOMAIN dir \ names)

\* Mutant: the data file that misses its list is not the one deleted.
DeleteUnMatchList(dir) ==
    Without(dir, {n \in DOMAIN dir : n.kind = "jsleaklist"
                                     /\ RawHeap(n.stamp) \notin DOMAIN dir})

\* deleteUnMatchDumpFile: raw heaps of anybody that have no list.
DeleteUnMatchDumpFile(dir) ==
    Without(dir, {n \in DOMAIN dir : n.kind = "rawheap"
                                     /\ LeakList(n.stamp) \notin DOMAIN dir})

\* Mutant: the prefix of the newest dump is not looked at.
DeleteLastOfAnybody(dir, p) ==
    LET lists  == {n \in DOMAIN dir : n.kind = "jsleaklist"}
        newest == {n.stamp : n \in {n \in lists : \A m \in lists : m.stamp <= n.stamp}}
    IN  Without(dir, {n \in DOMAIN dir : n.stamp \in newest})

\* deleteLastOldFile: the newest dump, if it is the process's own.
DeleteLastOldFile(dir, p) ==
    LET lists  == {n \in DOMAIN dir : n.kind = "jsleaklist"}
        newest == {n \in lists : \A m \in lists : m.stamp <= n.stamp}
        own    == {n.stamp : n \in {m \in newest : owner[m.stamp] = p}}
        data   == {IF RawHeap(s) \in DOMAIN dir THEN RawHeap(s) ELSE HeapSnapshot(s)
                   : s \in own}
    IN  Without(dir, {LeakList(s) : s \in own} \cup data)

\* What precedes every dump.
CleanUp(p) ==
    IF firstDump[p] THEN DeleteUnMatchDumpFile(files) ELSE DeleteLastOldFile(files, p)

\* Mutant: the limit counts dumps and not files.
OldDumps(dir) ==
    LET older(n) == {m \in DOMAIN dir : m.stamp < n.stamp}
    IN  {n \in DOMAIN dir :
             Cardinality(older(n)) < Cardinality(DOMAIN dir) - 2 * MaxFileNum}

\* Mutant: the sort is the other way round.
NewFiles(dir) ==
    LET newer(n) == {m \in DOMAIN dir : m.stamp > n.stamp}
    IN  {n \in DOMAIN dir :
             Cardinality(newer(n)) < Cardinality(DOMAIN dir) - MaxFileNum}

\* The loop of deleteOldFile: from the oldest file on, and each with the other
\* file of its stamp, until no more than MaxFileNum are left.
OldFiles(dir) ==
    LET older(n) == {m \in DOMAIN dir : m.stamp < n.stamp}
    IN  {n \in DOMAIN dir :
             Cardinality(older(n)) < Cardinality(DOMAIN dir) - MaxFileNum}

Pending == {"waiting", "queued", "taken"}

\* The dumps that are under way, but for the call that p is in.
UnderWay(p) ==
    {s \in DOMAIN owner :
        \/ native[s] \notin {"none", "done"} \/ callback[s] \in Pending
        \/ \E q \in Process \ {p} : pc[q] # "idle" /\ curTimeStamp[q] = s}

\* Mutant: getHeapBaseName(false): the base name of the dump before.
NewStampReused(p) ==
    /\ UNCHANGED clock
    /\ owner' = With(owner, clock, p)
    /\ curTimeStamp' = [curTimeStamp EXCEPT ![p] = clock]
    /\ firstDump' = [firstDump EXCEPT ![p] = FALSE]
    /\ UNCHANGED overlap

\* Mutant: firstDump is never reset.
NewStampOfFirst(p) ==
    /\ clock' = clock + 1
    /\ owner' = With(owner, clock, p)
    /\ curTimeStamp' = [curTimeStamp EXCEPT ![p] = clock]
    /\ UNCHANGED firstDump
    /\ overlap' = IF UnderWay(p) = {} THEN overlap
                  ELSE overlap \cup UnderWay(p) \cup {clock}

\* getHeapBaseName(true): a new stamp for p, which has the clean-up behind it.
NewStamp(p) ==
    /\ clock' = clock + 1
    /\ owner' = With(owner, clock, p)
    /\ curTimeStamp' = [curTimeStamp EXCEPT ![p] = clock]
    /\ firstDump' = [firstDump EXCEPT ![p] = FALSE]
    /\ overlap' = IF UnderWay(p) = {} THEN overlap
                  ELSE overlap \cup UnderWay(p) \cup {clock}

Running(p) == alive[p] /\ pc[p] = "idle"

\* Bound: MaxDumps.
MayDump(p, call) == Running(p) /\ call \in Calls /\ clock <= MaxDumps

Enter(p, where, kind, stamp) ==
    /\ pc' = [pc EXCEPT ![p] = where]
    /\ work' = [work EXCEPT ![p] = [kind |-> kind, stamp |-> stamp]]

-----------------------------------------------------------------------------
(* Dumps.                                                                  *)

\* dumpInner with the dump parameter on: the file is created, and the native
\* dump begins.  If the file or the threadsafe function cannot be created
\* nobody calls back.
DumpRawHeap(p) ==
    /\ MayDump(p, "raw")
    /\ dumpStatus' = [dumpStatus EXCEPT ![p] = TRUE]
    /\ NewStamp(p)
    /\ \/ /\ files' = With(CleanUp(p), RawHeap(clock), {})
          /\ native' = [native EXCEPT ![clock] = "dumping"]
          /\ callback' = [callback EXCEPT ![clock] = "waiting"]
       \/ /\ "create" \in Faults
          /\ files' \in {CleanUp(p), With(CleanUp(p), RawHeap(clock), {})}
          /\ callback' = [callback EXCEPT ![clock] = "lost"]
          /\ UNCHANGED native
    /\ UNCHANGED <<jsThread, alive>>

\* The first half of getJsleaklistFile with the parameter off: only a list is
\* made, of a stamp of its own.
MakeListOnly(p) ==
    /\ NewStamp(p)
    /\ files' = With(CleanUp(p), LeakList(clock), NoHash)

\* dumpInner with the parameter off, which calls getJsleaklistFile at once.
DumpListOnly(p) ==
    /\ MayDump(p, "list")
    /\ dumpStatus' = [dumpStatus EXCEPT ![p] = FALSE]
    /\ MakeListOnly(p)
    /\ Enter(p, "trim", "listOnly", clock)
    /\ UNCHANGED <<victims, dumpVars, alive>>

\* dumpInner that returns early, switched off by enable(false) or without a
\* directory: it has read the parameter by then.
DumpRefused(p) ==
    /\ Running(p) /\ "refused" \in Calls
    /\ \E status \in BOOLEAN : dumpStatus' = [dumpStatus EXCEPT ![p] = status]
    /\ UNCHANGED <<clock, files, owner, firstDump, curTimeStamp, jsThread,
                   dumpVars, alive, overlap>>

\* dump(): a heap snapshot is written and moved here before the list, or one of
\* the two fails and the call returns.
DumpSync(p) ==
    /\ MayDump(p, "sync")
    /\ NewStamp(p)
    /\ \/ /\ files' = With(CleanUp(p), HeapSnapshot(clock), {"heap"})
          /\ Enter(p, "list", "sync", clock)
       \/ /\ "create" \in Faults
          /\ files' = CleanUp(p)
          /\ UNCHANGED <<pc, work>>
    /\ UNCHANGED <<dumpStatus, victims, dumpVars, alive>>

-----------------------------------------------------------------------------
(* The native thread of one dump: the heap, then the callback of           *)
(* DumpRawHeapImpl, which queues the JS callback and appends the metadata. *)

\* A file deleted meanwhile stays deleted: the dump goes on in its inode.
WriteHeap(s) ==
    /\ native[s] = "dumping"
    /\ \/ files' = IF RawHeap(s) \in Names
                   THEN With(files, RawHeap(s), {"heap"}) ELSE files
       \/ "dump" \in Faults /\ UNCHANGED files
    /\ native' = [native EXCEPT ![s] = "dumped"]
    /\ UNCHANGED <<clock, owner, jsGlobals, jsThread, callback, alive, overlap>>

\* Mutant: the callback does not wait for the heap.
QueueCallbackAtOnce(s) ==
    /\ native[s] = "dumped" \/ (native[s] = "dumping" /\ callback[s] = "waiting")
    /\ native' = [native EXCEPT ![s] = IF @ = "dumped" THEN "append" ELSE @]
    /\ callback' = [callback EXCEPT ![s] = IF @ = "waiting" THEN "queued" ELSE @]
    /\ UNCHANGED <<clock, files, owner, jsGlobals, jsThread, alive, overlap>>

\* napi_call_threadsafe_function.
QueueCallback(s) ==
    /\ native[s] = "dumped"
    /\ native' = [native EXCEPT ![s] = "append"]
    /\ callback' = [callback EXCEPT ![s] = "queued"]
    /\ UNCHANGED <<clock, files, owner, jsGlobals, jsThread, alive, overlap>>

\* AppendMetaData: fopen(path, "ab") makes the file if it is gone; without
\* metadata nothing is appended.
AppendMetaData(s) ==
    /\ native[s] = "append"
    /\ LET opened == IF RawHeap(s) \in Names THEN files
                     ELSE With(files, RawHeap(s), {})
       IN \/ files' = With(opened, RawHeap(s), opened[RawHeap(s)] \cup {"meta"})
          \/ "metadata" \in Faults /\ files' = opened
    /\ native' = [native EXCEPT ![s] = "done"]
    /\ UNCHANGED <<clock, owner, jsGlobals, jsThread, callback, alive, overlap>>

NativeStep(s) == WriteHeap(s) \/ QueueCallback(s) \/ AppendMetaData(s)

-----------------------------------------------------------------------------
(* getJsleaklistFile and dumpInnerSync, after the data file.               *)

\* MainThreadExec.
TakeCallback(p, s) ==
    /\ Running(p)
    /\ callback[s] = "queued" /\ owner[s] = p
    /\ callback' = [callback EXCEPT ![s] = "taken"]
    /\ Enter(p, "list", "async", s)
    /\ UNCHANGED <<clock, files, owner, jsGlobals, victims, native, alive, overlap>>

\* An exception, or a return before the user's callback is called.
GiveUp(p) ==
    /\ Enter(p, "idle", "none", NoStamp)
    /\ callback' = IF work[p].kind = "async"
                   THEN [callback EXCEPT ![work[p].stamp] = "lost"]
                   ELSE callback

\* Mutant: the list is truncated when it is opened.
HashAndListTruncating(p, data) ==
    LET list == LeakList(curTimeStamp[p]) IN
    \/ /\ data \in Names
       /\ files' = With(files, list, Hashed(files[data]))
       /\ pc' = [pc EXCEPT ![p] = "trim"]
       /\ UNCHANGED <<work, callback>>
    \/ /\ data \notin Names
       /\ files' = With(files, list, Unwritten)
       /\ GiveUp(p)

\* The list of the present stamp, whichever dump that is, with the hash its
\* data file has now.  openSync makes the list before the data file is read.
HashAndList(p, data) ==
    LET list == LeakList(curTimeStamp[p]) IN
    \/ /\ data \in Names
       /\ files' = With(files, list, Hashed(files[data]))
       /\ pc' = [pc EXCEPT ![p] = "trim"]
       /\ UNCHANGED <<work, callback>>
    \/ /\ data \notin Names
       /\ files' = IF list \in Names THEN files ELSE With(files, list, Unwritten)
       /\ GiveUp(p)

\* Mutant: the hash is looked for in the file with the other suffix.
WriteListOfSnapshot(p) ==
    /\ alive[p] /\ pc[p] = "list"
    /\ work[p].kind = "sync" \/ dumpStatus[p]
    /\ HashAndList(p, HeapSnapshot(curTimeStamp[p]))
    /\ UNCHANGED <<clock, owner, jsGlobals, victims, native, alive, overlap>>

\* The first half of getJsleaklistFile, and of dumpInnerSync after the dump.
WriteList(p) ==
    /\ alive[p] /\ pc[p] = "list"
    /\ IF work[p].kind = "sync"
       THEN HashAndList(p, HeapSnapshot(curTimeStamp[p]))
       ELSE dumpStatus[p] /\ HashAndList(p, RawHeap(curTimeStamp[p]))
    /\ UNCHANGED <<clock, owner, jsGlobals, victims, native, alive, overlap>>

\* The dump of this callback began with the parameter on, a later one turned it
\* off.
WriteListOnly(p) ==
    /\ alive[p] /\ pc[p] = "list"
    /\ work[p].kind = "async" /\ ~dumpStatus[p]
    /\ MakeListOnly(p)
    /\ pc' = [pc EXCEPT ![p] = "trim"]
    /\ UNCHANGED <<dumpStatus, work, victims, dumpVars, alive>>

\* deleteOldFile: the directory is listed ...
ListOldFiles(p) ==
    /\ alive[p] /\ pc[p] = "trim"
    /\ victims' = [victims EXCEPT ![p] = OldFiles(files)]
    /\ pc' = [pc EXCEPT ![p] = "unlink"]
    /\ UNCHANGED <<clock, files, owner, jsGlobals, work, dumpVars, alive, overlap>>

\* ... and the files unlinked one by one, the oldest first.  One that another
\* process has unlinked meanwhile makes unlinkSync throw.
Unlink(p) ==
    /\ alive[p] /\ pc[p] = "unlink"
    /\ \E n \in victims[p] :
        /\ \A m \in victims[p] : n.stamp <= m.stamp
        /\ \/ /\ n \in Names
              /\ files' = Without(files, {n})
              /\ victims' = [victims EXCEPT ![p] = @ \ {n}]
              /\ UNCHANGED <<pc, work, callback>>
           \/ /\ n \notin Names
              /\ victims' = [victims EXCEPT ![p] = {}]
              /\ GiveUp(p)
              /\ UNCHANGED files
    /\ UNCHANGED <<clock, owner, jsGlobals, native, alive, overlap>>

\* The user's callback, with the names of the files.
Report(p) ==
    /\ alive[p] /\ pc[p] = "unlink" /\ victims[p] = {}
    /\ Enter(p, "idle", "none", NoStamp)
    /\ callback' = IF work[p].kind = "async"
                   THEN [callback EXCEPT ![work[p].stamp] = "answered"]
                   ELSE callback
    /\ UNCHANGED <<clock, files, owner, jsGlobals, victims, native, alive, overlap>>

ListStep(p) ==
    WriteList(p) \/ WriteListOnly(p) \/ ListOldFiles(p) \/ Unlink(p) \/ Report(p)

-----------------------------------------------------------------------------

\* The process is killed: nothing of it goes on, its files stay.
Crash(p) ==
    /\ alive[p]
    /\ alive' = [alive EXCEPT ![p] = FALSE]
    /\ Enter(p, "idle", "none", NoStamp)
    /\ victims' = [victims EXCEPT ![p] = {}]
    /\ native' = [s \in Stamp |->
          IF s \in DOMAIN owner /\ owner[s] = p THEN "done" ELSE native[s]]
    /\ callback' = [s \in Stamp |->
          IF s \in DOMAIN owner /\ owner[s] = p /\ callback[s] \in Pending
          THEN "lost" ELSE callback[s]]
    /\ UNCHANGED <<clock, files, owner, jsGlobals, overlap>>

Next ==
    \/ \E p \in Process :
         \/ DumpRawHeap(p) \/ DumpListOnly(p) \/ DumpSync(p) \/ DumpRefused(p)
         \/ (\E s \in Stamp : TakeCallback(p, s))
         \/ ListStep(p) \/ Crash(p)
    \/ \E s \in Stamp : NativeStep(s)

Spec == Init /\ [][Next]_vars

\* The native thread runs, and the main thread handles what is queued.
FairSpec ==
    /\ Spec
    /\ \A s \in Stamp : WF_vars(NativeStep(s))
    /\ \A p \in Process :
         /\ WF_vars(ListStep(p))
         /\ \A s \in Stamp : WF_vars(TakeCallback(p, s))

-----------------------------------------------------------------------------
(* Properties.                                                             *)

(* The types; whoever is in a call is alive.                               *)
TypeOK ==
    /\ clock \in 1..(2 * MaxDumps + 1)
    /\ DOMAIN owner = 1..(clock - 1) /\ Range(owner) \subseteq Process
    /\ \A n \in Names :
         /\ n.stamp \in DOMAIN owner
         /\ IF n.kind = "jsleaklist"
            THEN files[n] \in {NoHash, Unwritten} \cup {Hashed(parts) : parts \in SUBSET Parts}
            ELSE files[n] \subseteq Parts
    /\ firstDump \in [Process -> BOOLEAN] /\ dumpStatus \in [Process -> BOOLEAN]
    /\ curTimeStamp \in [Process -> Stamp \cup {NoStamp}]
    /\ pc \in [Process -> {"idle", "list", "trim", "unlink"}]
    /\ \A p \in Process : pc[p] # "idle" => alive[p] /\ work[p].kind # "none"
    /\ native \in [Stamp -> {"none", "dumping", "dumped", "append", "done"}]
    /\ callback \in [Stamp -> Pending \cup {"none", "answered", "lost"}]
    /\ overlap \subseteq DOMAIN owner

\* A raw heap dump that ran alone, whose process lives, and that is through.
Through(s) ==
    /\ s \in DOMAIN owner \ overlap /\ alive[owner[s]]
    /\ native[s] = "done" /\ callback[s] = "answered"

(* What a dump leaves behind: unless dumps overlap or a process dies, a raw *)
(* heap has its list, and the list carries a hash of at least the whole     *)
(* heap: a list whose heap was still being written is never kept.           *)
ListCoversHeap ==
    \A s \in Stamp : (Through(s) /\ LeakList(s) \in Names) =>
        \E parts \in SUBSET Parts :
            "heap" \in parts /\ files[LeakList(s)] = Hashed(parts)

\* Nothing is under way.
Quiet ==
    /\ \A p \in Process : pc[p] = "idle"
    /\ \A s \in DOMAIN owner : native[s] \in {"none", "done"} /\ callback[s] \notin Pending

(* A dump is kept or deleted whole: when nothing is under way, no dump that *)
(* ran alone has one file of its two.                                       *)
KeptInPairs ==
    (Quiet /\ \A p \in Process : alive[p]) =>
        \A s \in Stamp : Through(s) => (RawHeap(s) \in Names <=> LeakList(s) \in Names)

IsFirstDump(t) == \A s \in DOMAIN owner : owner[s] = owner[t] => s >= t

(* What a crash leaves behind does not stay: a raw heap whose callback was  *)
(* lost before it had a list is gone as soon as another process has begun   *)
(* its first dump, unless the two dumps overlapped, somebody is deleting    *)
(* the pair just now, or a second process has died, perhaps over that.      *)
OrphansSwept ==
    \A s, t \in DOMAIN owner :
        /\ s < t /\ IsFirstDump(t) /\ s \notin overlap /\ callback[s] = "lost"
        /\ \A p \in Process \ {owner[s]} : alive[p] /\ RawHeap(s) \notin victims[p]
        => (RawHeap(s) \in Names => LeakList(s) \in Names)

(* The directory is bounded: when nothing is under way and no dump has      *)
(* overlapped another, it holds no more than maxFileNum files.              *)
DirectoryBounded ==
    (Quiet /\ overlap = {} /\ \A p \in Process : alive[p])
        => Cardinality(Names) <= MaxFileNum

(* A process that has the directory to itself keeps one dump: each deletes  *)
(* the one before.                                                          *)
OneDumpKept ==
    Cardinality(Process) = 1 =>
        Cardinality({n \in Names : n.kind = "jsleaklist"}) <= 1

(* The beginning of a dump deletes no listed dump of another process.      *)
OthersKept ==
    [][\A n \in Names \ DOMAIN files' :
          LeakList(n.stamp) \in Names =>
              \/ \E p \in Process : pc[p] = "unlink"
              \/ curTimeStamp'[owner[n.stamp]] # curTimeStamp[owner[n.stamp]]]_vars

(* The callback names two files that exist, unless dumps overlap.           *)
ReportedFilesExist ==
    [][\A p \in Process :
          (Report(p) /\ curTimeStamp[p] \notin overlap /\ work[p].kind = "async")
              => RawHeap(curTimeStamp[p]) \in Names /\ LeakList(curTimeStamp[p]) \in Names]_vars

(* Whose dump has begun is called back.  The answer to a raw dump is lost  *)
(* only with its process, or if that has meanwhile begun a dump that makes  *)
(* no raw heap, be it of another kind or because its file could not be      *)
(* created: raw dumps may overtake each other.  A dump of the list alone    *)
(* always ends in its callback, with one process at work.  (A raw dump      *)
(* whose file or threadsafe function cannot be created has not begun, and   *)
(* nobody is called back: js_leak_watcher_napi.cpp:471-488.)                *)
DumpAnswered ==
    /\ \A s \in 1..MaxDumps :
         callback[s] = "waiting" ~>
             \/ callback[s] = "answered"
             \/ s \in DOMAIN owner /\ ~alive[owner[s]]
             \/ \E t \in DOMAIN owner : t > s /\ owner[t] = owner[s] /\ native[t] = "none"
    /\ \A p \in Process : pc[p] # "idle" ~> pc[p] = "idle"
    /\ [][\A p \in Process :
             work[p].kind = "listOnly" /\ pc'[p] = "idle" /\ alive'[p] => Report(p)]_vars

(* The list of a snapshot that dump() makes names the hash of that very     *)
(* file (test_jsleakwatcher_auto.py:48 asserts it of one dump), as long as  *)
(* both are there: also when the callback of an earlier raw dump comes      *)
(* late, opens the list of the snapshot and finds no raw heap of its stamp  *)
(* (js_leak_watcher.ts:209-214).  Stated of one process, for another one    *)
(* may delete the list before the late callback makes it again.             *)
SnapshotHashMatches ==
    Cardinality(Process) = 1 =>
        \A s \in Stamp :
            (HeapSnapshot(s) \in Names /\ LeakList(s) \in Names) =>
                files[LeakList(s)] = Hashed(files[HeapSnapshot(s)])

=============================================================================
