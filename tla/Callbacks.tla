------------------------------ MODULE Callbacks ------------------------------
(***************************************************************************)
(* The tables of clients that are called back when the device's state      *)
(* changes: the power-state listeners of PowerStateMachine, the callbacks  *)
(* of the power mode, the sleep callbacks and the callbacks that may take  *)
(* a suspend over.  The first two keep their mutex while they call, and    *)
(* drop a client that dies; the other two call from copies made for each   *)
(* priority, and have no death recipient.                                  *)
(***************************************************************************)
EXTENDS Naturals, Sequences, FiniteSets

CONSTANT Clients   \* the processes that register

VARIABLES
    registry,   \* which of the tables this behaviour is about: they share nothing
    table,      \* the callbacks, each with its level
    recipients, \* how often a client's death recipient is added
    alive,      \* external: the clients whose process lives
    obituaries, \* external: the calls of OnRemoteDied to come
    lateCall,   \* the call of a dead client that waits for its turn (bound: one), or what came of it
    tasks,      \* the FFRT tasks that unregister a dead power-state listener
    levels,     \* the levels that the thread that calls back has still to do
    toTell,     \* the callbacks of the level it is at that it has still to call
    round,      \* where that thread is
    takers,     \* external: the clients that took this suspend over
    result      \* what TakeOverSuspendAction returned

vars == << registry, table, recipients, alive, obituaries, lateCall, tasks, levels,
           toTell, round, takers, result >>
thread == << levels, toTell, round, takers, result >>
deaths == << recipients, alive, obituaries, tasks, lateCall >>

Registries == { "state", "mode", "sleep", "takeover" }
Locked(r) == r \in { "state", "mode" }   \* the mutex is held from the first call to the last
Levels(r) == CASE r = "state" -> << "async", "sync" >>
               [] r = "mode" -> << "only" >>
               [] OTHER -> << "high", "default", "low" >>
LevelSet(r) == { Levels(r)[i] : i \in 1..Len(Levels(r)) }
AllLevels == UNION { LevelSet(r) : r \in Registries }

TypeOK ==
    /\ registry \in Registries
    /\ { table, toTell } \subseteq SUBSET (Clients \X LevelSet(registry))
    /\ { recipients, obituaries, tasks } \subseteq [ Clients -> 0..3 ]
    /\ lateCall \in [ Clients -> { "none", "waiting", "refused" } ]
    /\ { alive, takers } \subseteq SUBSET Clients
    /\ levels \in Seq(LevelSet(registry)) /\ round \in { "idle", "level", "calling" }
    /\ result \in { "none", "SUCCESS", "TAKEN_OVER" }

Init ==
    /\ registry \in Registries /\ table = {} /\ toTell = {}
    /\ recipients = [ c \in Clients |-> 0 ] /\ obituaries = recipients /\ tasks = recipients
    /\ lateCall = [ c \in Clients |-> "none" ]
    /\ alive = Clients /\ takers = {} /\ levels = << >> /\ round = "idle" /\ result = "none"

-------------------------------------------------------------------------------
(* Registering: a caller without the permission is refused and changes nothing. *)

\* The mutex of the table is free.
MutexFree == ~(Locked(registry) /\ round # "idle")

\* A call has been handled, of a client that lives or of one that died while the call waited.
Handled(c) == lateCall' = [ lateCall EXCEPT ![c] = "none" ]

\* External: the object of a client that is dead reports so at once, or refuses the recipient;
\* the callers do not ask.
AddDeathRecipient(c) ==
    \/ /\ c \in alive /\ Handled(c)
       /\ recipients' = [ recipients EXCEPT ![c] = @ + 1 ] /\ UNCHANGED obituaries
    \/ /\ c \notin alive /\ Handled(c)
       /\ obituaries' = [ obituaries EXCEPT ![c] = @ + 1 ] /\ UNCHANGED recipients
    \/ /\ c \notin alive /\ lateCall' = [ lateCall EXCEPT ![c] = "refused" ]
       /\ UNCHANGED << recipients, obituaries >>

\* A client that is new in the table is watched.
Watch(c, l) ==
    /\ MutexFree
    /\ IF << c, l >> \in table THEN Handled(c) /\ UNCHANGED << recipients, obituaries >>
       ELSE AddDeathRecipient(c)
    /\ table' = table \cup { << c, l >> }
    /\ UNCHANGED << alive, tasks, thread >>

\* A mutant of Unwatch: it does not wait for the mutex.
Unwatch_Unlocked(c, gone) ==
    /\ table' = table \ gone
    /\ recipients' = IF gone = {} \/ recipients[c] = 0 THEN recipients
                     ELSE [ recipients EXCEPT ![c] = @ - 1 ]
    /\ UNCHANGED thread

Unwatch(c, gone) ==
    /\ MutexFree
    /\ table' = table \ gone
    /\ recipients' = IF gone = {} \/ recipients[c] = 0 THEN recipients
                     ELSE [ recipients EXCEPT ![c] = @ - 1 ]
    /\ UNCHANGED thread

\* A listener may be registered both as an asynchronous and as a synchronous one.
RegisterPowerStateCallback(c, l) == Watch(c, l)

\* The synchronous listener goes, or else the asynchronous one.
UnRegisterPowerStateCallback(c) ==
    Unwatch(c, table \cap (IF << c, "sync" >> \in table THEN { << c, "sync" >> }
                           ELSE { << c, "async" >> }))

AddModeCallback(c, l) == Watch(c, l)
RemoveModeCallback(c) == Unwatch(c, table \cap { << c, "only" >> })

\* The holders: nobody is watched, and a callback goes from every level.
Hold(c, l) ==
    table' = table \cup { << c, l >> } /\ Handled(c)
    /\ UNCHANGED << recipients, alive, obituaries, tasks, thread >>
Release(c) ==
    table' = { x \in table : x[1] # c } /\ Handled(c)
    /\ UNCHANGED << recipients, alive, obituaries, tasks, thread >>

AddSleepCallback(c, l) == Hold(c, l)
RemoveSleepCallback(c) == Release(c)
AddTakeOverCallback(c, l) == Hold(c, l)
RemoveTakeOverCallback(c) == Release(c)

\* The entries of the service.
StateEntries(c) ==
    /\ registry = "state"
    /\ \/ \E l \in { "async", "sync" } : RegisterPowerStateCallback(c, l)
       \/ UnRegisterPowerStateCallback(c) /\ Handled(c) /\ UNCHANGED << alive, obituaries, tasks >>

ModeEntries(c) ==
    /\ registry = "mode"
    /\ \/ AddModeCallback(c, "only")
       \/ RemoveModeCallback(c) /\ Handled(c) /\ UNCHANGED << alive, obituaries, tasks >>

SleepEntries(c) ==
    /\ registry = "sleep"
    /\ (\E l \in LevelSet("sleep") : AddSleepCallback(c, l)) \/ RemoveSleepCallback(c)

TakeOverEntries(c) ==
    /\ registry = "takeover"
    /\ (\E l \in LevelSet("takeover") : AddTakeOverCallback(c, l)) \/ RemoveTakeOverCallback(c)

\* A call that waits for the mutex, which is held while clients are called, may outlive its caller.
Entries(c) ==
    /\ c \in alive \/ lateCall[c] = "waiting"
    /\ UNCHANGED registry
    /\ StateEntries(c) \/ ModeEntries(c) \/ SleepEntries(c) \/ TakeOverEntries(c)

-------------------------------------------------------------------------------
(* Deaths *)

\* External: each recipient that is added is called.  A call of the client may be waiting.
ClientDies(c) ==
    /\ c \in alive /\ alive' = alive \ {c}
    /\ \E pc \in { "none", "waiting" } : lateCall' = [ lateCall EXCEPT ![c] = pc ]
    /\ obituaries' = [ obituaries EXCEPT ![c] = recipients[c] ]
    /\ recipients' = [ recipients EXCEPT ![c] = 0 ]
    /\ UNCHANGED << registry, table, tasks, thread >>

\* PowerStateCallbackDeathRecipient::OnRemoteDied leaves the work to a task ...
StateOnRemoteDied(c) ==
    /\ registry = "state" /\ obituaries[c] > 0
    /\ obituaries' = [ obituaries EXCEPT ![c] = @ - 1 ]
    /\ tasks' = [ tasks EXCEPT ![c] = @ + 1 ]
    /\ UNCHANGED << registry, table, recipients, alive, lateCall, thread >>

UnRegFunc(c) ==
    /\ tasks[c] > 0 /\ tasks' = [ tasks EXCEPT ![c] = @ - 1 ]
    /\ UnRegisterPowerStateCallback(c)
    /\ UNCHANGED << registry, alive, obituaries, lateCall >>

\* ... the power mode's recipient does it itself.
ModeOnRemoteDied(c) ==
    /\ registry = "mode" /\ obituaries[c] > 0
    /\ obituaries' = [ obituaries EXCEPT ![c] = @ - 1 ]
    /\ RemoveModeCallback(c)
    /\ UNCHANGED << registry, alive, tasks, lateCall >>

-------------------------------------------------------------------------------
(* Calling back *)

\* The levels are called in their order.
Begin(order) ==
    /\ round = "idle" /\ round' = "level"
    /\ levels' = order /\ takers' = {} /\ result' = "none"
    /\ UNCHANGED << registry, table, deaths, toTell >>

NotifyPowerStateChanged == registry = "state" /\ Begin(Levels("state"))
WaitingCallback == registry = "mode" /\ Begin(Levels("mode"))
TriggerSyncSleepCallback == registry = "sleep" /\ Begin(Levels("sleep"))   \* under sleepCbMutex_
TriggerTakeOverSuspendCallback == registry = "takeover" /\ Begin(Levels("takeover"))

\* The callbacks of a level, which may be a copy.
GetCallbacks ==
    /\ round = "level" /\ levels # << >> /\ takers = {}
    /\ toTell' = { x \in table : x[2] = Head(levels) }
    /\ levels' = Tail(levels) /\ round' = "calling"
    /\ UNCHANGED << registry, table, deaths, takers, result >>

\* A callback is called; OnTakeOverSuspend may take over, and then the others of its level
\* are passed over.  A client that is dead answers nothing.
Call(x) ==
    /\ round = "calling" /\ x \in toTell /\ toTell' = toTell \ {x}
    /\ takers' \in { takers } \cup (IF registry = "takeover" /\ x[1] \in alive /\ takers = {}
                                    THEN { { x[1] } } ELSE {})
    /\ UNCHANGED << registry, table, deaths, levels, round, result >>

LevelDone ==
    /\ round = "calling" /\ toTell = {} /\ round' = "level"
    /\ UNCHANGED << registry, table, deaths, levels, toTell, takers, result >>

\* TakeOverSuspendAction: a suspend that was taken over goes no further.
Done ==
    /\ round = "level" /\ (levels = << >> \/ takers # {}) /\ round' = "idle"
    /\ result' = IF takers # {} THEN "TAKEN_OVER" ELSE "SUCCESS"
    /\ UNCHANGED << registry, table, deaths, levels, toTell, takers >>

Next ==
    \/ \E c \in Clients : \/ Entries(c) \/ ClientDies(c)
                          \/ StateOnRemoteDied(c) \/ UnRegFunc(c) \/ ModeOnRemoteDied(c)
    \/ NotifyPowerStateChanged \/ WaitingCallback
    \/ TriggerSyncSleepCallback \/ TriggerTakeOverSuspendCallback
    \/ GetCallbacks \/ (\E x \in toTell : Call(x)) \/ LevelDone \/ Done

Spec == Init /\ [][Next]_vars

-------------------------------------------------------------------------------
(* A power-state or power-mode listener is called only while it is            *)
(* registered: a client whose UnRegister has returned hears nothing more, and *)
(* of a client that died nothing is left once its obituaries are handled,     *)
(* however it registered (NotifyPowerStateChanged, WaitingCallback,           *)
(* OnRemoteDied).  A registration that waited for the mutex while its client  *)
(* died leaves at most its own entry, and only when the dead object refuses   *)
(* the recipient, whose answer AddDeathRecipient's callers ignore.            *)
ToldWhileRegistered ==
    Locked(registry) =>
        /\ toTell \subseteq table
        /\ \A x, y \in table :
               /\ x[1] = y[1] /\ x[1] \notin alive
               /\ obituaries[x[1]] + tasks[x[1]] = 0
               => x = y /\ lateCall[x[1]] = "refused"

==============================================================================
