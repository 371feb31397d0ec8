-------------------------- MODULE LifecycleCallbacks --------------------------
(***************************************************************************)
(* How the leak watcher gets to know of objects that should die: the       *)
(* callbacks it registers with the frameworks for windows, abilities and   *)
(* components (executeRegister of js_leak_watcher.ts and the native        *)
(* functions it calls), their retries, and what a shutdown takes back.     *)
(*                                                                         *)
(* The native ArkUI callback belongs to the UI context that is current     *)
(* when it is registered, and finds its JS function through one global     *)
(* reference.  Which context is current, if any, is not the watcher's      *)
(* choice.  A reference is only ever held or not; lost tells whether one   *)
(* was dropped without being deleted.                                      *)
(***************************************************************************)
EXTENDS TaskSchedule

CONSTANTS
    Context,    \* the UI contexts of the application
    NoContext,  \* UIContext::Current() is null
    Configs,    \* the sets of kinds users ask for
    MaxBacklog  \* bound: DUMP events that are due

Kind == {"CUSTOM_COMPONENT", "WINDOW", "NODE_CONTAINER", "X_COMPONENT", "ABILITY"}
NodeKinds == {"NODE_CONTAINER", "X_COMPONENT"}
ATTEMPT_COUNT == 2

ASSUME ContextAssumption ==
    /\ NoContext \notin Context
    /\ Configs \subseteq SUBSET Kind
    /\ MaxBacklog \in Nat

VARIABLES
    current,      \* what UIContext::Current() answers
    retry,        \* retryMonitorObjectTypes, {} if undefined
    attempt,      \* currentAttempt
    custom,       \* is the callback of the ArkUI state machine registered
    window,                  \* is g_listener registered, with its reference
    arkUI, arkUIRef,         \* contexts with the callback; is g_callbackRef set
    abilities, lifecycleId,  \* ability callbacks registered; the last id
    watched,      \* has a callback put an object into watchObjMap
    asked,        \* history: the kinds the last session was started for
    lost,         \* history: was a reference dropped without being deleted
    contextless,  \* history: was ArkUI (un)registered while no context was current
    elsewhere,    \* history: did a shutdown miss a callback of another context
    restarted     \* history: was a session started while another one ran

node    == <<arkUI, arkUIRef>>
ability == <<abilities, lifecycleId>>
retries == <<retry, attempt>>
history == <<asked, lost, contextless, elsewhere, restarted>>
vars == <<schedule, current, retries, custom, window, node, ability, watched, history>>

NoId == 0

Init ==
    /\ ScheduleInit
    /\ current \in Context \cup {NoContext}
    /\ retry = {} /\ attempt = 1
    /\ custom = FALSE /\ window = FALSE
    /\ arkUI = {} /\ arkUIRef = FALSE
    /\ abilities = {} /\ lifecycleId = NoId
    /\ watched = FALSE
    /\ asked = {} /\ restarted = FALSE
    /\ lost = FALSE /\ contextless = FALSE /\ elsewhere = FALSE

-----------------------------------------------------------------------------
(* Registration.                                                           *)

\* registerWindowLifeCycleCallback.
RegisterWindow == window' = TRUE

\* registerArkUIObjectLifeCycleCallback: the reference is made, and the old one
\* overwritten, before the context is looked for.
RegisterArkUI ==
    /\ arkUIRef' = TRUE
    /\ arkUI' = IF current = NoContext THEN arkUI ELSE arkUI \cup {current}

\* Mutant: the id is kept in a variable of the function.
RegisterAbilityLocalId ==
    /\ abilities' = abilities \cup {session'}
    /\ UNCHANGED lifecycleId

\* registerAbilityLifecycleCallback, a callback and an id of its own for every
\* session.  The application context is known, or no session starts.
RegisterAbility ==
    /\ abilities' = abilities \cup {session'}
    /\ lifecycleId' = session'

\* Mutant: retryMonitorObjectTypes is reset after the registrations.
NothingToRetry(config) == {}

\* Only the registration in a UI context can fail (the native functions get the
\* one argument they want), and both of its kinds are tried again.
FailedKinds(config) ==
    IF config \cap NodeKinds # {} /\ current = NoContext THEN NodeKinds ELSE {}

ExecuteRegister(config) ==
    LET nodes == config \cap NodeKinds # {} IN
    /\ retry' = FailedKinds(config)
    /\ custom' = (custom \/ "CUSTOM_COMPONENT" \in config)
    /\ IF "WINDOW" \in config THEN RegisterWindow ELSE UNCHANGED window
    /\ IF nodes THEN RegisterArkUI ELSE UNCHANGED node
    /\ IF "ABILITY" \in config THEN RegisterAbility ELSE UNCHANGED ability
    /\ lost' = (lost \/ ("WINDOW" \in config /\ window) \/ (nodes /\ arkUIRef))
    /\ contextless' = (contextless \/ (nodes /\ current = NoContext))
    /\ UNCHANGED elsewhere

\* enableLeakWatcher(true) that gets as far as executeRegister.
Start ==
    \E config \in Configs :
        /\ EnableLeakWatcher
        /\ ExecuteRegister(config)
        /\ asked' = config
        /\ restarted' = (restarted \/ isRunning)
        /\ UNCHANGED <<current, attempt, watched>>

-----------------------------------------------------------------------------
(* shutdownJsLeakWatcher.                                                  *)

\* Mutant: the callback is taken back, its reference is kept.
UnregisterArkUIOnly ==
    /\ arkUI' = arkUI \ {current}
    /\ UNCHANGED arkUIRef

\* unregisterArkUIObjectLifeCycleCallback: without a context nothing is done.
UnregisterArkUI ==
    IF current = NoContext THEN UNCHANGED node
    ELSE arkUI' = arkUI \ {current} /\ arkUIRef' = FALSE

UnregisterWindow == window' = FALSE

UnregisterAbility == abilities' = abilities \ {lifecycleId} /\ UNCHANGED lifecycleId

Shutdown ==
    /\ DisableLeakWatcher
    /\ UnregisterArkUI /\ UnregisterWindow /\ UnregisterAbility
    /\ custom' = FALSE
    /\ watched' = FALSE
    /\ contextless' = (contextless \/ current = NoContext)
    /\ elsewhere' = (elsewhere \/ arkUI \ {current} # {})
    /\ UNCHANGED <<current, retries, asked, lost, restarted>>

-----------------------------------------------------------------------------
(* Other calls and events.                                                 *)

callbacks == <<retries, custom, window, node, ability, history>>

EnableLegacy ==
    /\ \E isEnable \in BOOLEAN :
        /\ Enable(isEnable)
        /\ watched' = (watched /\ isEnable)
    /\ UNCHANGED <<current, callbacks>>

\* The settings of the failed call are not read before the next one sets them.
StartFails == EnableFails /\ UNCHANGED <<current, callbacks, watched>>

\* Mutant: the attempts are not counted.
RetryAlways == retry # {}

RetryDue == attempt <= ATTEMPT_COUNT /\ retry # {}

\* The callback of the GC task tries what is left before it collects.
GcTask ==
    /\ RunGcTask /\ dumpDue < MaxBacklog
    /\ IF RetryDue
       THEN /\ ExecuteRegister(retry)
            /\ attempt' = attempt + 1
            /\ UNCHANGED <<asked, restarted>>
       ELSE UNCHANGED callbacks
    /\ UNCHANGED <<current, watched>>

DumpTask == RunDumpTask /\ UNCHANGED <<current, callbacks, watched>>
DropTask == DropEvent /\ UNCHANGED <<current, callbacks, watched>>

\* Another UI context is entered, or the present one left.
SwitchContext ==
    /\ current' \in (Context \cup {NoContext}) \ {current}
    /\ UNCHANGED <<schedule, callbacks, watched>>

\* The callbacks.  The one of a node finds its function through g_callbackRef.
WindowDestroyed    == window
AbilityDestroyed   == abilities # {}
ComponentDestroyed == custom
NodeDestroyed      == arkUI # {} /\ arkUIRef

\* registerObject, unless a filter of the configuration lets the object go.
ObjectDestroyed ==
    /\ WindowDestroyed \/ AbilityDestroyed \/ ComponentDestroyed \/ NodeDestroyed
    /\ watched' = TRUE
    /\ UNCHANGED <<schedule, current, callbacks>>

Next ==
    \/ EnableLegacy \/ StartFails \/ Start \/ Shutdown
    \/ GcTask \/ DumpTask \/ DropTask
    \/ SwitchContext \/ ObjectDestroyed

Spec == Init /\ [][Next]_vars

\* The tasks run on (LeakWatcherTasks!ChecksGoOn).
FairSpec == Spec /\ WF_vars(GcTask) /\ WF_vars(DumpTask)

-----------------------------------------------------------------------------
(* Properties.                                                             *)

(* The types; a registration is tried again ATTEMPT_COUNT times at most.    *)
TypeOK ==
    /\ enabled \in BOOLEAN /\ isRunning \in BOOLEAN
    /\ session \in 0..MaxSessions /\ {gcDue, dumpDue} \subseteq Nat
    /\ current \in Context \cup {NoContext}
    /\ retry \in {{}, NodeKinds}
    /\ attempt \in 1..(ATTEMPT_COUNT + 1)
    /\ {custom, window, arkUIRef, watched} \subseteq BOOLEAN
    /\ arkUI \subseteq Context
    /\ abilities \subseteq 1..session /\ lifecycleId \in 0..session
    /\ asked \subseteq Kind
    /\ {lost, contextless, elsewhere, restarted} \subseteq BOOLEAN

(* A watcher that has been shut down is silent: whatever tasks and retries  *)
(* are still due, nothing of it is registered and nothing watched.  Except  *)
(* in a UI context that was not current at a shutdown, and except for the   *)
(* ability callback of a session that was started over a running one, whose *)
(* id is overwritten.                                                       *)
SilentAfterShutdown ==
    ~isRunning =>
        /\ ~custom /\ ~window
        /\ arkUI # {} => elsewhere
        /\ abilities # {} => restarted
        /\ watched => elsewhere \/ restarted

(* A registered ArkUI callback finds its JS function, and no reference is   *)
(* lost: each is deleted before its variable is set again.  Except for what a     *)
(* registration or a shutdown without a UI context leaves behind, and a     *)
(* session that is started over a running one.                              *)
ReferencesKept ==
    /\ arkUI # {} /\ ~elsewhere => arkUIRef
    /\ lost => contextless \/ restarted

(* A session that asks for node containers or XComponents registers their   *)
(* callback in some UI context, uses up the attempts, or ends, be it in a   *)
(* session that does not ask.                                               *)
RegisteredOrGivenUp ==
    LET wanted == isRunning /\ asked \cap NodeKinds # {}
    IN  wanted ~> (arkUI # {} \/ attempt > ATTEMPT_COUNT \/ ~wanted)

=============================================================================
