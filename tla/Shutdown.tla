------------------------------- MODULE Shutdown -------------------------------
(***************************************************************************)
(* ShutdownController: RebootOrShutdown with its take-over, synchronous    *)
(* and asynchronous callbacks, the time-outs of a forced reboot and the    *)
(* detached thread that turns the device off.  The service's entries hold  *)
(* shutdownMutex_; SuspendController::HandleShutdown does not.  A client   *)
(* may take any time to answer a callback, or never answer.                *)
(***************************************************************************)
EXTENDS Naturals, FiniteSets

CONSTANTS
    Callers,        \* threads in RebootDevice, ForceRebootDevice and ShutDownDevice
    DirectCallers,  \* threads in SuspendController::HandleShutdown
    Clients,        \* holders of a synchronous shutdown callback
    MaxCalls        \* a bound on the calls that get past the check of started_

VARIABLES
    started,        \* started_
    shutdownMutex,  \* the owner of PowerMgrService::shutdownMutex_, as a set
    priority,       \* the priority of each client's callback, "none" if it has none
    pc,             \* where each caller is
    force,          \* whether its call is a forced reboot
    toTell,         \* the clients that the caller, or its std::async thread, has still to tell
    asked,          \* the client that has been called and has not answered, as a set
    futForSyncCb,   \* the forced calls whose std::async thread has not ended (g_futForSyncCb)
    futForOff,      \* the same of the thread that turns the screen off (g_futForOff)
    offThread,      \* the detached thread of each caller: none, async, off or clear
    calls,          \* how many calls have got past the check
    off             \* history: the callers whose call has reached DoRebootExt

vars == << started, shutdownMutex, priority, pc, force, toTell, asked, futForSyncCb, futForOff,
           offThread, calls, off >>

All == Callers \cup DirectCallers
telling == << toTell, asked, futForSyncCb >>
done == << futForOff, offThread, calls, off >>

Labels == { "idle", "check", "start", "takeover", "tell", "sync", "screen", "off", "detach" }

TypeOK ==
    /\ started \in BOOLEAN
    /\ shutdownMutex \in SUBSET Callers /\ Cardinality(shutdownMutex) <= 1
    /\ priority \in [ Clients -> { "none", "HIGH", "LOW" } ]
    /\ pc \in [ All -> Labels ]
    /\ force \in [ All -> BOOLEAN ]
    /\ toTell \in [ All -> SUBSET Clients ]
    /\ asked \in [ All -> SUBSET Clients ]
    /\ futForSyncCb \subseteq All /\ futForOff \subseteq All
    /\ offThread \in [ All -> { "none", "async", "off", "clear" } ]
    /\ calls \in 0 .. MaxCalls
    /\ off \subseteq All

Init ==
    /\ started = FALSE
    /\ shutdownMutex = {}
    /\ priority = [ c \in Clients |-> "none" ]
    /\ pc = [ t \in All |-> "idle" ]
    /\ force = [ t \in All |-> FALSE ]
    /\ toTell = [ t \in All |-> {} ]
    /\ asked = [ t \in All |-> {} ]
    /\ futForSyncCb = {} /\ futForOff = {}
    /\ offThread = [ t \in All |-> "none" ]
    /\ calls = 0
    /\ off = {}

GoTo(t, label) == pc' = [ pc EXCEPT ![t] = label ]
Unlock(t) == shutdownMutex' = shutdownMutex \ {t}
Registered == { c \in Clients : priority[c] # "none" }

-------------------------------------------------------------------------------
(* Registration: the service's entries take shutdownMutex_, the death of a client does not *)

RegisterShutdownCallback(c) ==
    /\ shutdownMutex = {} /\ priority[c] = "none"
    /\ \E p \in { "HIGH", "LOW" } : priority' = [ priority EXCEPT ![c] = p ]
    /\ UNCHANGED << started, shutdownMutex, pc, force, telling, done >>

\* A call to a dead client returns at once.
ClientDies(c) ==
    /\ priority[c] # "none"
    /\ priority' = [ priority EXCEPT ![c] = "none" ]
    /\ asked' = [ t \in All |-> asked[t] \ {c} ]
    /\ UNCHANGED << started, shutdownMutex, pc, force, toTell, futForSyncCb, done >>

-------------------------------------------------------------------------------
(* The entries *)

\* The screen-off timers and the sleep timer are cancelled before the controller is called.
Enter(t, forced) ==
    /\ t \in Callers \ (futForSyncCb \cup futForOff) /\ pc[t] = "idle" /\ offThread[t] = "none"
    /\ shutdownMutex = {}
    /\ shutdownMutex' = {t}
    /\ force' = [ force EXCEPT ![t] = forced ]
    /\ GoTo(t, "check")
    /\ UNCHANGED << started, priority, telling, done >>

\* RebootDevice and ForceRebootDevice.
RebootDeviceForDeprecated(t) == \E forced \in BOOLEAN : Enter(t, forced)

ShutDownDevice(t) == Enter(t, FALSE)

HandleShutdown(t) ==
    /\ t \in DirectCallers /\ pc[t] = "idle" /\ offThread[t] = "none"
    /\ GoTo(t, "check")
    /\ UNCHANGED << started, shutdownMutex, priority, force, telling, done >>

-------------------------------------------------------------------------------
(* RebootOrShutdown *)

PassCheck(t) ==
    /\ calls < MaxCalls
    /\ calls' = calls + 1
    /\ off' = off \ {t}

\* "Shutdown is already running", or started_ is set next, for a forced reboot after the take-over
\* callbacks, which it skips.  The caller without shutdownMutex_ may come between check and set.
RebootOrShutdownCheck(t) ==
    /\ pc[t] = "check"
    /\ \/ /\ started
          /\ GoTo(t, "idle")
          /\ Unlock(t)
          /\ UNCHANGED done
       \/ /\ ~started
          /\ PassCheck(t)
          /\ GoTo(t, IF force[t] THEN "tell" ELSE "start")
          /\ UNCHANGED << shutdownMutex, futForOff, offThread >>
    /\ UNCHANGED << started, priority, force, telling >>

RebootOrShutdownStarts(t) ==
    /\ pc[t] = "start"
    /\ started' = TRUE
    /\ GoTo(t, "takeover")
    /\ UNCHANGED << shutdownMutex, priority, force, telling, done >>

\* A take-over callback, of some priority, answers that it takes the shutdown over.
TakenOver(t) ==
    /\ started' = FALSE
    /\ GoTo(t, "idle")
    /\ Unlock(t)

\* No callback does, or the reason forbids to ask them.
NotTakenOver(t) ==
    /\ GoTo(t, "tell")
    /\ UNCHANGED << started, shutdownMutex >>

TakeOverShutdownAction(t) ==
    /\ pc[t] = "takeover"
    /\ TakenOver(t) \/ NotTakenOver(t)
    /\ UNCHANGED << priority, force, telling, done >>

\* The shutdown event is published and the synchronous callbacks are copied; a forced reboot has
\* std::async call them.
TriggerSyncShutdownCallback(t) ==
    /\ pc[t] = "tell"
    /\ started' = TRUE
    /\ toTell' = [ toTell EXCEPT ![t] = Registered ]
    /\ futForSyncCb' = IF force[t] THEN futForSyncCb \cup {t} ELSE futForSyncCb
    /\ GoTo(t, "sync")
    /\ UNCHANGED << shutdownMutex, priority, force, asked, done >>

\* OnSyncShutdown to the next client, in the order of the priorities, of which there are five.
TriggerSyncShutdownCallbackInner(t) ==
    /\ pc[t] = "sync" \/ t \in futForSyncCb
    /\ asked[t] = {}
    /\ \E c \in toTell[t] :
          /\ \A d \in toTell[t] : ~(priority[d] = "HIGH" /\ priority[c] = "LOW")
          /\ asked' = [ asked EXCEPT ![t] = IF priority[c] = "none" THEN {} ELSE {c} ]
          /\ toTell' = [ toTell EXCEPT ![t] = @ \ {c} ]
    /\ UNCHANGED << started, shutdownMutex, priority, pc, force, futForSyncCb, done >>

ClientAnswers(t) ==
    /\ asked[t] # {}
    /\ asked' = [ asked EXCEPT ![t] = {} ]
    /\ UNCHANGED << started, shutdownMutex, priority, pc, force, toTell, futForSyncCb, done >>

AllTold(t) == toTell[t] = {} /\ asked[t] = {}

SyncThreadEnds(t) ==
    /\ t \in futForSyncCb /\ AllTold(t)
    /\ futForSyncCb' = futForSyncCb \ {t}
    /\ UNCHANGED << started, shutdownMutex, priority, pc, force, toTell, asked, done >>

\* A mutant of SyncCallbacksDone: the forced reboot waits like any other.
SyncCallbacksDone_NoTimeout(t) ==
    /\ pc[t] = "sync"
    /\ AllTold(t)
    /\ GoTo(t, "screen")
    /\ UNCHANGED << started, shutdownMutex, priority, force, telling, done >>

\* Every client has answered.  A forced reboot waits no longer than CALLBACK_TIMEOUT, but the
\* assignment to g_futForSyncCb waits for the thread of an earlier one ("next time it blocks").
SyncCallbacksDone(t) ==
    /\ pc[t] = "sync"
    /\ \/ ~force[t] /\ AllTold(t)
       \/ force[t] /\ futForSyncCb \subseteq {t}
    /\ GoTo(t, "screen")
    /\ UNCHANGED << started, shutdownMutex, priority, force, telling, done >>

\* The state machine turns the screen off; a forced reboot has std::async do it.
TurnOffScreen(t) ==
    /\ pc[t] = "screen"
    /\ futForOff' = IF force[t] THEN futForOff \cup {t} ELSE futForOff
    /\ GoTo(t, IF force[t] THEN "off" ELSE "detach")
    /\ UNCHANGED << started, shutdownMutex, priority, force, telling, offThread, calls, off >>

\* The thread may be held up by the display service for any time.
OffThreadEnds(t) ==
    /\ t \in futForOff
    /\ futForOff' = futForOff \ {t}
    /\ UNCHANGED << started, shutdownMutex, priority, pc, force, telling, offThread, calls, off >>

\* A forced reboot waits for it no longer than OFF_TIMEOUT, but the assignment to g_futForOff waits
\* for the thread of an earlier one.
ScreenOffDone(t) ==
    /\ pc[t] = "off"
    /\ futForOff \subseteq {t}
    /\ GoTo(t, "detach")
    /\ UNCHANGED << started, shutdownMutex, priority, force, telling, done >>

DetachShutdownThread(t) ==
    /\ pc[t] = "detach"
    /\ offThread' = [ offThread EXCEPT ![t] = "async" ]
    /\ GoTo(t, "idle")
    /\ Unlock(t)
    /\ UNCHANGED << started, priority, force, telling, futForOff, calls, off >>

-------------------------------------------------------------------------------
(* The detached thread *)

\* The asynchronous callbacks have been called, or MAX_TIMEOUT_SEC have passed.
Prepare(t) ==
    /\ offThread[t] = "async"
    /\ offThread' = [ offThread EXCEPT ![t] = "off" ]
    /\ UNCHANGED << started, shutdownMutex, priority, pc, force, telling, futForOff, calls, off >>

\* DevicePowerAction::Reboot or Shutdown hands the device over to init and returns.
DeviceAction(t) ==
    /\ offThread[t] = "off"
    /\ offThread' = [ offThread EXCEPT ![t] = "clear" ]
    /\ off' = off \cup {t}
    /\ UNCHANGED << started, shutdownMutex, priority, pc, force, telling, futForOff, calls >>

ShutdownThreadEnds(t) ==
    /\ offThread[t] = "clear"
    /\ offThread' = [ offThread EXCEPT ![t] = "none" ]
    /\ started' = FALSE
    /\ UNCHANGED << shutdownMutex, priority, pc, force, telling, futForOff, calls, off >>

-------------------------------------------------------------------------------
Controller(t) ==
    \/ RebootOrShutdownCheck(t) \/ RebootOrShutdownStarts(t) \/ TakeOverShutdownAction(t)
    \/ TriggerSyncShutdownCallback(t) \/ SyncCallbacksDone(t) \/ TurnOffScreen(t)
    \/ ScreenOffDone(t) \/ DetachShutdownThread(t)
    \/ Prepare(t) \/ DeviceAction(t) \/ ShutdownThreadEnds(t)
SyncThread(t) == TriggerSyncShutdownCallbackInner(t) \/ SyncThreadEnds(t)

Next ==
    \/ \E c \in Clients : RegisterShutdownCallback(c) \/ ClientDies(c)
    \/ \E t \in All : \/ RebootDeviceForDeprecated(t) \/ ShutDownDevice(t) \/ HandleShutdown(t)
                      \/ Controller(t) \/ SyncThread(t) \/ ClientAnswers(t) \/ OffThreadEnds(t)

\* The service's threads are scheduled and its time-outs expire; nothing is said of the clients
\* and the display service.
Fairness == \A t \in All : WF_vars(Controller(t)) /\ WF_vars(SyncThread(t))

Spec == Init /\ [][Next]_vars
FairSpec == Spec /\ Fairness

-------------------------------------------------------------------------------
(* Properties *)

\* A forced reboot that no earlier one holds up turns the device off whatever the clients and the
\* display service do: a callback that is never answered holds it up for CALLBACK_TIMEOUT only, a
\* screen that never goes off for OFF_TIMEOUT.
ForcedRebootHappens ==
    \A t \in All :
        pc[t] = "sync" /\ force[t] /\ futForSyncCb \subseteq {t} /\ futForOff = {} ~> t \in off

==============================================================================
