--------------------------- MODULE LifecycleProofs ---------------------------
(***************************************************************************)
(* The safety properties of LifecycleCallbacks for any contexts, any       *)
(* configurations, and any number of sessions.  None is inductive: what a  *)
(* shutdown takes back depends on what the last id is, and whether a       *)
(* registration overwrites a reference on how the last one ended.          *)
(***************************************************************************)
EXTENDS LifecycleCallbacks, TLAPS

(* The ability callback that is registered is the one whose id is known.   *)
IdKnown == ~restarted => abilities \subseteq {lifecycleId}

(* A reference outlives its session, and a kind is tried again, only after *)
(* a call of the native functions without a UI context.                    *)
ReferenceOwned ==
    /\ ~isRunning /\ arkUIRef => contextless
    /\ retry # {} => contextless

IInv == TypeOK /\ SilentAfterShutdown /\ ReferencesKept /\ IdKnown /\ ReferenceOwned

(* The steps that leave registrations and objects alone, or just forget    *)
(* the objects.                                                            *)
Quiet ==
    /\ UNCHANGED <<isRunning, session, callbacks>>
    /\ watched' \in {watched, FALSE}

-----------------------------------------------------------------------------
(* The initial states. *)
LEMMA InitIInv == Init => IInv
<1>. SUFFICES ASSUME Init PROVE IInv
  OBVIOUS
<1>1. TypeOK
  <2>1. enabled \in BOOLEAN /\ isRunning \in BOOLEAN
    BY DEF Init, ScheduleInit
  <2>2. /\ session \in 0..MaxSessions /\ {gcDue, dumpDue} \subseteq Nat
        /\ abilities \subseteq 1..session /\ lifecycleId \in 0..session
    BY SessionAssumption DEF Init, ScheduleInit, NoId
  <2>3. attempt \in 1..(ATTEMPT_COUNT + 1)
    BY DEF Init, ATTEMPT_COUNT
  <2>4. /\ {custom, window, arkUIRef, watched} \subseteq BOOLEAN
        /\ {lost, contextless, elsewhere, restarted} \subseteq BOOLEAN
    BY DEF Init
  <2>5. /\ current \in Context \cup {NoContext}
        /\ retry \in {{}, NodeKinds}
        /\ arkUI \subseteq Context /\ asked \subseteq Kind
    BY DEF Init
  <2>6. QED
    BY <2>1, <2>2, <2>3, <2>4, <2>5 DEF TypeOK
<1>2. SilentAfterShutdown /\ ReferencesKept /\ IdKnown /\ ReferenceOwned
  BY DEF Init, SilentAfterShutdown, ReferencesKept, IdKnown, ReferenceOwned
<1>3. QED
  BY <1>1, <1>2 DEF IInv

(* What executeRegister leaves to be tried again is nothing or the kinds of *)
(* the UI context, and nothing when there is a context.                     *)
LEMMA FailedKindsType ==
    ASSUME NEW config
    PROVE  /\ FailedKinds(config) \in {{}, NodeKinds}
           /\ FailedKinds(config) # {} =>
                current = NoContext /\ config \cap NodeKinds # {}
BY DEF FailedKinds

(* A retry is about node containers and XComponents only. *)
LEMMA RetriedKinds ==
    /\ {"WINDOW", "ABILITY", "CUSTOM_COMPONENT"} \cap NodeKinds = {}
    /\ NodeKinds # {}
BY DEF NodeKinds

(* The steps of the schedule keep the types of its variables. *)
LEMMA ScheduleType ==
    ASSUME IInv,
           \/ \E isEnable \in BOOLEAN : Enable(isEnable)
           \/ EnableFails
           \/ EnableLeakWatcher
           \/ DisableLeakWatcher
           \/ RunGcTask
           \/ RunDumpTask
           \/ DropEvent
           \/ UNCHANGED schedule
    PROVE  /\ enabled' \in BOOLEAN /\ isRunning' \in BOOLEAN
           /\ session' \in 0..MaxSessions
           /\ {gcDue', dumpDue'} \subseteq Nat
<1>1. /\ enabled \in BOOLEAN /\ isRunning \in BOOLEAN
      /\ session \in 0..MaxSessions /\ gcDue \in Nat /\ dumpDue \in Nat
  BY DEF IInv, TypeOK
<1>2. enabled' \in BOOLEAN /\ isRunning' \in BOOLEAN
  BY <1>1 DEF Enable, EnableFails, EnableLeakWatcher, DisableLeakWatcher,
              RunGcTask, RunDumpTask, DropEvent, schedule
<1>3. session' \in 0..MaxSessions
  BY <1>1, SessionAssumption
     DEF Enable, EnableFails, EnableLeakWatcher, DisableLeakWatcher,
         RunGcTask, RunDumpTask, DropEvent, schedule
<1>4. gcDue' \in Nat /\ dumpDue' \in Nat
  BY <1>1 DEF Enable, EnableFails, EnableLeakWatcher, DisableLeakWatcher,
              RunGcTask, RunDumpTask, DropEvent, schedule
<1>5. QED
  BY <1>2, <1>3, <1>4

(* A quiet step keeps the part of the invariant that is not about types. *)
LEMMA QuietStep ==
    ASSUME IInv, Quiet
    PROVE  SilentAfterShutdown' /\ ReferencesKept' /\ IdKnown' /\ ReferenceOwned'
<1>1. /\ isRunning' = isRunning /\ custom' = custom /\ window' = window
      /\ arkUI' = arkUI /\ arkUIRef' = arkUIRef /\ retry' = retry
      /\ abilities' = abilities /\ lifecycleId' = lifecycleId
      /\ lost' = lost /\ contextless' = contextless
      /\ elsewhere' = elsewhere /\ restarted' = restarted
  BY DEF Quiet, callbacks, retries, node, ability, history
<1>2. watched' => watched
  BY DEF Quiet, IInv, TypeOK
<1>3. SilentAfterShutdown'
  BY <1>1, <1>2 DEF IInv, SilentAfterShutdown
<1>4. ReferencesKept' /\ IdKnown' /\ ReferenceOwned'
  BY <1>1 DEF IInv, ReferencesKept, IdKnown, ReferenceOwned
<1>5. QED
  BY <1>3, <1>4

(* A quiet step that moves the schedule and the context only keeps the     *)
(* whole invariant.                                                        *)
LEMMA QuietInvariance ==
    ASSUME IInv, Quiet,
           enabled' \in BOOLEAN, {gcDue', dumpDue'} \subseteq Nat,
           current' \in Context \cup {NoContext}
    PROVE  IInv'
<1>1. TypeOK'
  BY DEF IInv, TypeOK, Quiet, callbacks, retries, node, ability, history
<1>2. QED
  BY <1>1, QuietStep DEF IInv

(* A session that starts.  If none was running, everything had been taken *)
(* back, up to what the histories excuse.                                  *)
LEMMA StartInvariance ==
    ASSUME IInv, Start
    PROVE  IInv'
<1>1. PICK config \in Configs :
        /\ EnableLeakWatcher
        /\ ExecuteRegister(config)
        /\ asked' = config
        /\ restarted' = (restarted \/ isRunning)
        /\ UNCHANGED <<current, attempt, watched>>
  BY DEF Start
<1>2. /\ isRunning' = TRUE
      /\ session' = session + 1
  BY <1>1 DEF EnableLeakWatcher
<1>3. /\ retry' = FailedKinds(config)
      /\ custom' = (custom \/ "CUSTOM_COMPONENT" \in config)
      /\ window' \in {window, TRUE}
      /\ \/ arkUIRef' = TRUE /\ arkUI' \in {arkUI, arkUI \cup {current}}
            /\ (current = NoContext => arkUI' = arkUI)
         \/ UNCHANGED node
      /\ \/ abilities' = abilities \cup {session'} /\ lifecycleId' = session'
         \/ UNCHANGED ability
      /\ lost' = (lost \/ ("WINDOW" \in config /\ window)
                       \/ (config \cap NodeKinds # {} /\ arkUIRef))
      /\ contextless' = (contextless \/ (config \cap NodeKinds # {} /\ current = NoContext))
      /\ elsewhere' = elsewhere
  BY <1>1 DEF ExecuteRegister, RegisterWindow, RegisterArkUI, RegisterAbility
<1>4. TypeOK'
  <2>1. /\ enabled' \in BOOLEAN /\ isRunning' \in BOOLEAN
        /\ session' \in 0..MaxSessions /\ {gcDue', dumpDue'} \subseteq Nat
    BY <1>1, ScheduleType
  <2>2. retry' \in {{}, NodeKinds}
    BY <1>3, FailedKindsType
  <2>3. {custom', window', arkUIRef', watched'} \subseteq BOOLEAN
    BY <1>1, <1>3 DEF IInv, TypeOK, node
  <2>4. arkUI' \subseteq Context /\ current' \in Context \cup {NoContext}
    BY <1>1, <1>3 DEF IInv, TypeOK, node
  <2>5. abilities' \subseteq 1..session' /\ lifecycleId' \in 0..session'
    <3>1. /\ session \in Nat /\ session' = session + 1
          /\ abilities \subseteq 1..session /\ lifecycleId \in 0..session
      BY <1>2, SessionAssumption DEF IInv, TypeOK
    <3>2. session' \in 1..session' /\ 1..session \subseteq 1..session'
      BY <3>1
    <3>3. abilities' \subseteq abilities \cup {session'}
      BY <1>3 DEF ability
    <3>4. lifecycleId' \in 0..session'
      BY <1>3, <3>1 DEF ability
    <3>5. QED
      BY <3>1, <3>2, <3>3, <3>4
  <2>6. asked' \subseteq Kind
    BY <1>1, ContextAssumption
  <2>7. {lost', contextless', elsewhere', restarted'} \subseteq BOOLEAN
    BY <1>1, <1>3 DEF IInv, TypeOK
  <2>8. attempt' \in 1..(ATTEMPT_COUNT + 1)
    BY <1>1 DEF IInv, TypeOK
  <2>9. QED
    BY <2>1, <2>2, <2>3, <2>4, <2>5, <2>6, <2>7, <2>8 DEF TypeOK
<1>5. SilentAfterShutdown'
  BY <1>2 DEF SilentAfterShutdown
<1>6. ReferencesKept'
  <2>1. arkUI' # {} /\ ~elsewhere' => arkUIRef'
    BY <1>3 DEF IInv, ReferencesKept, node
  <2>2. lost' => contextless' \/ restarted'
    BY <1>1, <1>3 DEF IInv, TypeOK, ReferencesKept, SilentAfterShutdown, ReferenceOwned
  <2>3. QED
    BY <2>1, <2>2 DEF ReferencesKept
<1>7. IdKnown'
  <2>1. CASE restarted \/ isRunning
    BY <2>1, <1>1 DEF IdKnown
  <2>2. CASE ~restarted /\ ~isRunning
    <3>1. abilities = {}
      BY <2>2 DEF IInv, SilentAfterShutdown
    <3>2. abilities' \subseteq {lifecycleId'}
      BY <3>1, <1>3 DEF ability
    <3>3. QED
      BY <3>2 DEF IdKnown
  <2>3. QED
    BY <2>1, <2>2
<1>8. ReferenceOwned'
  BY <1>2, <1>3, FailedKindsType DEF ReferenceOwned
<1>9. QED
  BY <1>4, <1>5, <1>6, <1>7, <1>8 DEF IInv

(* A shutdown takes back what it can reach, and the histories tell what it *)
(* could not.                                                              *)
LEMMA ShutdownInvariance ==
    ASSUME IInv, Shutdown
    PROVE  IInv'
<1>1. /\ isRunning' = FALSE /\ session' = session
      /\ custom' = FALSE /\ window' = FALSE /\ watched' = FALSE
      /\ abilities' = abilities \ {lifecycleId} /\ lifecycleId' = lifecycleId
      /\ contextless' = (contextless \/ current = NoContext)
      /\ elsewhere' = (elsewhere \/ arkUI \ {current} # {})
      /\ UNCHANGED <<current, retries, asked, lost, restarted>>
  BY DEF Shutdown, DisableLeakWatcher, UnregisterWindow, UnregisterAbility
<1>2. /\ arkUI' = arkUI \ {current}
      /\ arkUIRef' = (arkUIRef /\ current = NoContext)
  <2>1. CASE current = NoContext
    BY <2>1, ContextAssumption DEF Shutdown, UnregisterArkUI, node, IInv, TypeOK
  <2>2. CASE current # NoContext
    BY <2>2 DEF Shutdown, UnregisterArkUI
  <2>3. QED
    BY <2>1, <2>2
<1>3. TypeOK'
  <2>1. /\ enabled' \in BOOLEAN /\ isRunning' \in BOOLEAN
        /\ session' \in 0..MaxSessions /\ {gcDue', dumpDue'} \subseteq Nat
    BY ScheduleType DEF Shutdown
  <2>2. QED
    BY <2>1, <1>1, <1>2 DEF IInv, TypeOK, retries
<1>4. SilentAfterShutdown'
  BY <1>1, <1>2 DEF IInv, IdKnown, SilentAfterShutdown
<1>5. ReferencesKept'
  BY <1>1, <1>2 DEF IInv, ReferencesKept
<1>6. IdKnown'
  BY <1>1 DEF IInv, IdKnown
<1>7. ReferenceOwned'
  BY <1>1, <1>2 DEF IInv, ReferenceOwned, retries
<1>8. QED
  BY <1>3, <1>4, <1>5, <1>6, <1>7 DEF IInv

(* A GC task, which may try a registration again: that of the UI context,  *)
(* after one that failed for want of a context.                            *)
LEMMA GcTaskInvariance ==
    ASSUME IInv, GcTask
    PROVE  IInv'
<1>1. /\ isRunning = TRUE /\ isRunning' = isRunning /\ session' = session
      /\ UNCHANGED <<current, watched>>
  BY DEF GcTask, RunGcTask, IInv, TypeOK
<1>2. /\ enabled' \in BOOLEAN /\ {gcDue', dumpDue'} \subseteq Nat
  BY ScheduleType DEF GcTask
<1>3. CASE ~RetryDue
  <2>1. Quiet
    BY <1>1, <1>3 DEF GcTask, Quiet
  <2>2. QED
    BY <1>1, <1>2, <2>1, QuietInvariance DEF IInv, TypeOK
<1>4. CASE RetryDue
  <2>1. /\ retry = NodeKinds /\ contextless
        /\ attempt' = attempt + 1 /\ attempt <= ATTEMPT_COUNT
        /\ UNCHANGED <<asked, restarted>>
    BY <1>4 DEF GcTask, RetryDue, IInv, TypeOK, ReferenceOwned
  <2>2. ExecuteRegister(NodeKinds)
    BY <1>4, <2>1 DEF GcTask
  <2>3. /\ retry' = FailedKinds(NodeKinds)
        /\ custom' = (custom \/ "CUSTOM_COMPONENT" \in NodeKinds)
        /\ UNCHANGED <<window, ability>>
        /\ arkUIRef' = TRUE
        /\ arkUI' = IF current = NoContext THEN arkUI ELSE arkUI \cup {current}
        /\ lost' = (lost \/ arkUIRef)
        /\ contextless' = (contextless \/ current = NoContext)
        /\ elsewhere' = elsewhere
    BY <2>2, RetriedKinds DEF ExecuteRegister, RegisterArkUI, IInv, TypeOK
  <2>4. TypeOK'
    <3>1. retry' \in {{}, NodeKinds}
      BY <2>3, FailedKindsType
    <3>2. attempt' \in 1..(ATTEMPT_COUNT + 1)
      BY <2>1 DEF IInv, TypeOK, ATTEMPT_COUNT
    <3>3. custom' = custom /\ custom \in BOOLEAN
      BY <2>3, RetriedKinds DEF IInv, TypeOK
    <3>4. QED
      BY <1>1, <1>2, <2>1, <2>3, <3>1, <3>2, <3>3 DEF IInv, TypeOK, ability
  <2>5. SilentAfterShutdown' /\ ReferencesKept' /\ IdKnown' /\ ReferenceOwned'
    BY <1>1, <2>1, <2>3
       DEF IInv, TypeOK, SilentAfterShutdown, ReferencesKept, IdKnown,
           ReferenceOwned, ability
  <2>6. QED
    BY <2>4, <2>5 DEF IInv
<1>5. QED
  BY <1>3, <1>4

(* An object that a callback reports while no session runs is one of those *)
(* the histories excuse.                                                   *)
LEMMA ObjectInvariance ==
    ASSUME IInv, ObjectDestroyed
    PROVE  IInv'
<1>1. /\ watched' = TRUE
      /\ UNCHANGED <<schedule, current, callbacks>>
  BY DEF ObjectDestroyed
<1>2. TypeOK'
  BY <1>1 DEF IInv, TypeOK, schedule, callbacks, retries, node, ability, history
<1>3. SilentAfterShutdown'
  <2>1. ~isRunning => elsewhere \/ restarted
    BY DEF ObjectDestroyed, WindowDestroyed, AbilityDestroyed,
           ComponentDestroyed, NodeDestroyed, IInv, SilentAfterShutdown
  <2>2. QED
    BY <1>1, <2>1 DEF IInv, SilentAfterShutdown, schedule, callbacks, node, ability, history
<1>4. ReferencesKept' /\ IdKnown' /\ ReferenceOwned'
  BY <1>1 DEF IInv, ReferencesKept, IdKnown, ReferenceOwned,
              schedule, callbacks, retries, node, ability, history
<1>5. QED
  BY <1>2, <1>3, <1>4 DEF IInv

(* Every step keeps the invariant. *)
LEMMA NextInvariance ==
    ASSUME IInv, [Next]_vars
    PROVE  IInv'
<1>1. CASE EnableLegacy
  <2>1. PICK isEnable \in BOOLEAN :
          Enable(isEnable) /\ watched' = (watched /\ isEnable)
    BY <1>1 DEF EnableLegacy
  <2>2. Quiet /\ current' \in Context \cup {NoContext}
    BY <1>1, <2>1 DEF EnableLegacy, Enable, Quiet, IInv, TypeOK
  <2>3. enabled' \in BOOLEAN /\ {gcDue', dumpDue'} \subseteq Nat
    BY <2>1, ScheduleType
  <2>4. QED
    BY <2>2, <2>3, QuietInvariance
<1>2. CASE StartFails
  <2>1. Quiet /\ current' \in Context \cup {NoContext}
    BY <1>2 DEF StartFails, EnableFails, Enable, Quiet, IInv, TypeOK
  <2>2. enabled' \in BOOLEAN /\ {gcDue', dumpDue'} \subseteq Nat
    BY <1>2, ScheduleType DEF StartFails
  <2>3. QED
    BY <2>1, <2>2, QuietInvariance
<1>3. CASE Start
  BY <1>3, StartInvariance
<1>4. CASE Shutdown
  BY <1>4, ShutdownInvariance
<1>5. CASE GcTask
  BY <1>5, GcTaskInvariance
<1>6. CASE DumpTask
  <2>1. Quiet /\ current' \in Context \cup {NoContext}
    BY <1>6 DEF DumpTask, RunDumpTask, Quiet, IInv, TypeOK
  <2>2. enabled' \in BOOLEAN /\ {gcDue', dumpDue'} \subseteq Nat
    BY <1>6, ScheduleType DEF DumpTask
  <2>3. QED
    BY <2>1, <2>2, QuietInvariance
<1>7. CASE DropTask
  <2>1. Quiet /\ current' \in Context \cup {NoContext}
    BY <1>7 DEF DropTask, DropEvent, Quiet, IInv, TypeOK
  <2>2. enabled' \in BOOLEAN /\ {gcDue', dumpDue'} \subseteq Nat
    BY <1>7, ScheduleType DEF DropTask
  <2>3. QED
    BY <2>1, <2>2, QuietInvariance
<1>8. CASE SwitchContext
  <2>1. Quiet /\ current' \in Context \cup {NoContext}
    BY <1>8 DEF SwitchContext, schedule, Quiet, IInv, TypeOK
  <2>2. enabled' \in BOOLEAN /\ {gcDue', dumpDue'} \subseteq Nat
    BY <1>8, ScheduleType DEF SwitchContext
  <2>3. QED
    BY <2>1, <2>2, QuietInvariance
<1>9. CASE ObjectDestroyed
  BY <1>9, ObjectInvariance
<1>10. CASE UNCHANGED vars
  <2>1. Quiet /\ current' \in Context \cup {NoContext}
    BY <1>10 DEF vars, schedule, callbacks, Quiet, IInv, TypeOK
  <2>2. enabled' \in BOOLEAN /\ {gcDue', dumpDue'} \subseteq Nat
    BY <1>10, ScheduleType DEF vars
  <2>3. QED
    BY <2>1, <2>2, QuietInvariance
<1>11. QED
  BY <1>1, <1>2, <1>3, <1>4, <1>5, <1>6, <1>7, <1>8, <1>9, <1>10 DEF Next

-----------------------------------------------------------------------------

(* The inductive invariant. *)
THEOREM Invariance == Spec => []IInv
BY InitIInv, NextInvariance, PTL DEF Spec

(* Types: registrations are tried again ATTEMPT_COUNT times at most, over  *)
(* all sessions together.                                                  *)
THEOREM TypeCorrect == Spec => []TypeOK
<1>1. IInv => TypeOK
  BY DEF IInv
<1>2. QED
  BY <1>1, Invariance, PTL

(* shutdownJsLeakWatcher leaves nothing registered that it can reach,      *)
(* whatever GC tasks and retries come before and after it.                 *)
THEOREM SilenceCorrect == Spec => []SilentAfterShutdown
<1>1. IInv => SilentAfterShutdown
  BY DEF IInv
<1>2. QED
  BY <1>1, Invariance, PTL

(* The native callbacks never lack their JS function, and references are   *)
(* deleted before their variables are set again.                           *)
THEOREM ReferencesCorrect == Spec => []ReferencesKept
<1>1. IInv => ReferencesKept
  BY DEF IInv
<1>2. QED
  BY <1>1, Invariance, PTL

(* Registering and its retries come in the order that TaskSchedule         *)
(* promises, which is the order LeakWatcherTasks implements.               *)
THEOREM FollowsSchedule == Spec => ScheduleSpec
<1>1. Init => ScheduleInit
  BY DEF Init
<1>2. [Next]_vars => [ScheduleNext]_schedule
  <2>1. CASE EnableLegacy
    BY <2>1 DEF EnableLegacy, ScheduleNext
  <2>2. CASE StartFails \/ Start \/ Shutdown
    BY <2>2 DEF StartFails, Start, Shutdown, ScheduleNext
  <2>3. CASE GcTask \/ DumpTask \/ DropTask
    BY <2>3 DEF GcTask, DumpTask, DropTask, ScheduleNext
  <2>4. CASE SwitchContext \/ ObjectDestroyed \/ UNCHANGED vars
    BY <2>4 DEF SwitchContext, ObjectDestroyed, vars
  <2>5. QED
    BY <2>1, <2>2, <2>3, <2>4 DEF Next
<1>3. QED
  BY <1>1, <1>2, PTL DEF Spec, ScheduleSpec

=============================================================================
