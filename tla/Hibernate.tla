------------------------------ MODULE Hibernate ------------------------------
(***************************************************************************)
(* Hibernation: PowerMgrService::Hibernate, HibernateInner, the detached   *)
(* thread that runs PrepareHibernate against a time-out, the roll-back, and *)
(* HibernateController's callbacks.  Compiled with POWER_ENABLE_S4.        *)
(***************************************************************************)
EXTENDS Naturals, FiniteSets

CONSTANTS
    Clients,    \* holders of an ISyncHibernateCallback
    Threads     \* threads that may run PrepareHibernate; one that is late keeps running

VARIABLES
    state,         \* the power state
    registered,    \* the registered callbacks
    told,          \* what each client heard last: none, hibernate or wakeup
    prepared,      \* HibernateController::prepared_
    hibernating,   \* hibernating_
    pc,            \* where the holder of hibernateMutex_ is; "idle" when it is free
    args,          \* its clearMemory and originalState, and whether a failure means shutdown
    prepare,       \* where each PrepareHibernate thread is
    awaited,       \* the one that PrepareHibernateWithTimeout waits for, as a set
    prepareResult, \* g_prepareResult
    stopService,   \* the parameter POWERMGR_STOPSERVICE
    sleepTimer,    \* StartSleepTimer after a roll-back from SLEEP
    shutDown,      \* ShutDownDevice("HibernateFail") has been called
    late           \* history: a thread that was given up has run PreHibernate

vars == << state, registered, told, prepared, hibernating, pc, args, prepare, awaited,
           prepareResult, stopService, sleepTimer, shutDown, late >>

callbacks == << registered, told, prepared >>
threads == << prepare, awaited, prepareResult >>
outside == << stopService, sleepTimer, shutDown, late >>

Labels == { "idle", "prepare", "waiting", "hdi", "restore", "post", "rollback", "inactive" }
PrepareLabels == { "none", "inactive", "inactiveClear", "account", "callbacks", "hibernate" }

TypeOK ==
    /\ state \in { "AWAKE", "INACTIVE", "SLEEP", "HIBERNATE" }
    /\ registered \subseteq Clients
    /\ told \in [ Clients -> { "none", "hibernate", "wakeup" } ]
    /\ pc \in Labels
    /\ args \in [ clearMemory : BOOLEAN, originalState : { "AWAKE", "INACTIVE", "SLEEP", "HIBERNATE" },
                  needShutdown : BOOLEAN ]
    /\ prepare \in [ Threads -> PrepareLabels ]
    /\ awaited \subseteq Threads
    /\ { prepared, hibernating, prepareResult, stopService, sleepTimer, shutDown, late }
       \subseteq BOOLEAN

Init ==
    /\ state = "AWAKE"
    /\ registered = {}
    /\ told = [ c \in Clients |-> "none" ]
    /\ prepared = FALSE
    /\ hibernating = FALSE
    /\ pc = "idle"
    /\ args = [ clearMemory |-> FALSE, originalState |-> "AWAKE", needShutdown |-> FALSE ]
    /\ prepare = [ t \in Threads |-> "none" ]
    /\ awaited = {}
    /\ prepareResult = FALSE
    /\ stopService = FALSE
    /\ sleepTimer = FALSE
    /\ shutDown = FALSE
    /\ late = FALSE

\* SetState(s, force): false when the transition fails, for example because of the display.
SetState(s, done) == state' = IF done THEN s ELSE state

-------------------------------------------------------------------------------
(* Registration, under hibernateMutex_ *)

RegisterSyncHibernateCallback(c) ==
    /\ pc = "idle" /\ c \notin registered
    /\ registered' = registered \cup {c}
    /\ told' = [ told EXCEPT ![c] = "none" ]
    /\ UNCHANGED << state, prepared, hibernating, pc, args, threads, outside >>

\* UnRegisterSyncHibernateCallback waits for hibernateMutex_; OnRemoteDied does not.
UnregisterSyncHibernateCallback(c) ==
    /\ c \in registered
    /\ registered' = registered \ {c}
    /\ told' = [ told EXCEPT ![c] = "none" ]
    /\ UNCHANGED << state, prepared, hibernating, pc, args, threads, outside >>

-------------------------------------------------------------------------------
(* Hibernate and HibernateInner *)

\* Refused while shutting down; a take-over callback may take a hibernation with clearMemory over.
Hibernate(clearMemory, lowCapacity) ==
    /\ pc = "idle" /\ ~shutDown /\ ~hibernating
    /\ hibernating' = TRUE
    /\ args' = [ clearMemory |-> clearMemory, originalState |-> state,
                 needShutdown |-> clearMemory \/ lowCapacity ]
    /\ pc' = "prepare"
    /\ UNCHANGED << state, callbacks, threads, outside >>

PrepareHibernateWithTimeout ==
    /\ pc = "prepare"
    /\ \E t \in Threads :
          /\ prepare[t] = "none"
          /\ prepare' = [ prepare EXCEPT ![t] = IF args.clearMemory THEN "inactiveClear"
                                                 ELSE "inactive" ]
          /\ awaited' = {t}
    /\ pc' = "waiting"
    /\ UNCHANGED << state, callbacks, hibernating, args, prepareResult, outside >>

\* The thread is done and its result decides, or the time is up and it goes on by itself.
PrepareReturns ==
    /\ pc = "waiting"
    /\ \/ /\ awaited = {}
          /\ pc' = IF prepareResult THEN "hdi" ELSE "rollback"
          /\ UNCHANGED prepareResult
       \/ /\ awaited # {}
          /\ prepareResult' = FALSE
          /\ pc' = "rollback"
    /\ awaited' = {}
    /\ UNCHANGED << state, callbacks, hibernating, args, prepare, outside >>

\* The HDI hibernates the device until it is woken up, or fails.
HibernateHdi ==
    /\ pc = "hdi"
    /\ pc' \in { "restore", "rollback" }
    /\ UNCHANGED << state, callbacks, hibernating, args, threads, outside >>

\* PublishExitHibernateEvent, SetState(AWAKE) and the parameter.
RestoreHibernate ==
    /\ pc = "restore"
    /\ hibernating' = FALSE
    /\ \E done \in BOOLEAN : SetState("AWAKE", done)
    /\ stopService' = (stopService /\ ~args.clearMemory)
    /\ pc' = "post"
    /\ UNCHANGED << callbacks, args, threads, sleepTimer, shutDown, late >>

\* OnSyncWakeup, only after PreHibernate.
PostHibernate ==
    /\ prepared' = FALSE
    /\ told' = [ c \in Clients |-> IF prepared /\ c \in registered THEN "wakeup" ELSE told[c] ]
    /\ UNCHANGED registered

RestorePost ==
    /\ pc = "post"
    /\ PostHibernate
    /\ pc' = "idle"
    /\ UNCHANGED << state, hibernating, args, threads, outside >>

\* A mutant of RollbackHibernate: the callbacks hear nothing of the failure.
RollbackHibernate_Silent ==
    /\ pc = "rollback"
    /\ hibernating' = FALSE
    /\ \/ /\ args.needShutdown
          /\ shutDown' = TRUE
          /\ pc' = "idle"
       \/ /\ ~args.needShutdown
          /\ pc' = "inactive"
          /\ UNCHANGED shutDown
    /\ UNCHANGED << state, callbacks, args, threads, stopService, sleepTimer, late >>

\* "Ready to shutdown, so no need to publish common event and run PostHibernate".
RollbackHibernate ==
    /\ pc = "rollback"
    /\ hibernating' = FALSE
    /\ \/ /\ args.needShutdown
          /\ shutDown' = TRUE
          /\ pc' = "idle"
          /\ UNCHANGED callbacks
       \/ /\ ~args.needShutdown
          /\ PostHibernate
          /\ pc' = "inactive"
          /\ UNCHANGED shutDown
    /\ UNCHANGED << state, args, threads, stopService, sleepTimer, late >>

\* SetState(INACTIVE, ROLLBACK_HIBERNATE), and back to sleep if that is where it came from.
RollbackInactive ==
    /\ pc = "inactive"
    /\ \E done \in BOOLEAN : SetState("INACTIVE", done)
    /\ sleepTimer' = (sleepTimer \/ args.originalState = "SLEEP")
    /\ pc' = "idle"
    /\ UNCHANGED << callbacks, hibernating, args, threads, stopService, shutDown, late >>

-------------------------------------------------------------------------------
(* PrepareHibernate, in its thread *)

PrepareStep(t, from, to) ==
    /\ prepare[t] = from
    /\ prepare' = [ prepare EXCEPT ![t] = to ]

PrepareEnds(t, result) ==
    /\ prepareResult' = result
    /\ awaited' = awaited \ {t}

\* A failure to go INACTIVE is logged and ignored.
PrepareInactive(t) ==
    /\ PrepareStep(t, "inactive", "callbacks") \/ PrepareStep(t, "inactiveClear", "account")
    /\ \E done \in BOOLEAN : SetState("INACTIVE", done)
    /\ UNCHANGED << callbacks, hibernating, pc, args, awaited, prepareResult, outside >>

\* ActivateDefaultAccount and the parameter, each of which may fail.
PrepareAccount(t) ==
    \/ /\ PrepareStep(t, "account", "none")
       /\ PrepareEnds(t, FALSE)
       /\ UNCHANGED << state, callbacks, hibernating, pc, args, outside >>
    \/ /\ PrepareStep(t, "account", "callbacks")
       /\ stopService' = TRUE
       /\ UNCHANGED << state, callbacks, hibernating, pc, args, awaited, prepareResult, sleepTimer,
                       shutDown, late >>

PreHibernate(t) ==
    /\ PrepareStep(t, "callbacks", "hibernate")
    /\ prepared' = TRUE
    /\ told' = [ c \in Clients |-> IF c \in registered THEN "hibernate" ELSE told[c] ]
    /\ late' = (late \/ t \notin awaited)
    /\ UNCHANGED << state, registered, hibernating, pc, args, awaited, prepareResult, stopService,
                    sleepTimer, shutDown >>

PrepareHibernateState(t) ==
    /\ PrepareStep(t, "hibernate", "none")
    /\ \E done \in BOOLEAN :
          /\ SetState("HIBERNATE", done)
          /\ PrepareEnds(t, done)
    /\ UNCHANGED << callbacks, hibernating, pc, args, outside >>

\* The sleep timer, or a wake-up, between two hibernations.
OtherSetState ==
    /\ pc = "idle"
    /\ state' \in { "AWAKE", "SLEEP" } \ {state}
    /\ sleepTimer' = FALSE
    /\ UNCHANGED << callbacks, hibernating, pc, args, threads, stopService, shutDown, late >>

-------------------------------------------------------------------------------
Prepare(t) == \/ PrepareInactive(t) \/ PrepareAccount(t) \/ PreHibernate(t)
              \/ PrepareHibernateState(t)
Inner == \/ PrepareHibernateWithTimeout \/ PrepareReturns \/ HibernateHdi \/ RestoreHibernate
         \/ RestorePost \/ RollbackHibernate \/ RollbackInactive

Next ==
    \/ \E c \in Clients : RegisterSyncHibernateCallback(c) \/ UnregisterSyncHibernateCallback(c)
    \/ \E clearMemory, lowCapacity \in BOOLEAN : Hibernate(clearMemory, lowCapacity)
    \/ Inner
    \/ \E t \in Threads : Prepare(t)
    \/ OtherSetState

Spec == Init /\ [][Next]_vars

-------------------------------------------------------------------------------
(* Properties *)

\* When a hibernation is over, however it ended, every client that was told OnSyncHibernate has
\* been told OnSyncWakeup too, unless the device shuts down or a thread that was given up told
\* them.
HibernateIsAnswered ==
    pc = "idle" /\ ~shutDown /\ ~late => \A c \in Clients : told[c] # "hibernate"

==============================================================================
