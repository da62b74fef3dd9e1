----------------------------- MODULE ScreenProofs -----------------------------
(***************************************************************************)
(* Proofs about the components that turn the screen on or off, or announce *)
(* it: PreBright, ShutdownDialog, InputWakeup, Proximity, ScreenOffPre and *)
(* Cover. Each has an inductive invariant of its own that every action     *)
(* preserves, one step per action. The components share nothing here but   *)
(* the names of their variables.                                           *)
(***************************************************************************)
EXTENDS Integers, TLAPS

CONSTANTS
    Callers,                                            \* PreBright
    INIT_LONG_PRESS_RETRY, MaxDialogTasks,              \* ShutdownDialog
    Inputs, MaxInputTasks,                              \* InputWakeup
    MaxSensorTasks,                                     \* Proximity
    Clients, Times, RemainTimes,                        \* ScreenOffPre
    LidTasks, MaxScreens, MaxCoverEvents                \* Cover

VARIABLES
    state, display, doze, preBrightState, authTimer, pc, type, sleepTimer, inactiveTimer,
    subscribed, retryCount, retryTask, forbid, remote, connecting, tasks, isDialogShow,
    longPressShow, overtaken,
    holder, target, force, curState, subscription, event, at, recent, justSuspended, task, key,
    guards, failed,
    hook, callEnable, duringCall, filtered, held, supported, enabled, close, near, reported, sensor,
    client, screenOffTimer, timerStarted, fired, switchTimer, on, offBy,
    awake, offTime, settingTime, sinceOn, dimIn, remainTime, callbackSet, isRegistered, orphans,
    machine, register, told, disturbed,
    lid, config, cover, screens, internal, switchAction, timer, reason, seen, wakeupMutex,
    monitorMutex, events

P == INSTANCE PreBright
D == INSTANCE ShutdownDialog WITH MaxTasks <- MaxDialogTasks
I == INSTANCE InputWakeup WITH MaxTasks <- MaxInputTasks
X == INSTANCE Proximity WITH MaxTasks <- MaxSensorTasks
N == INSTANCE ScreenOffPre
C == INSTANCE Cover WITH MaxEvents <- MaxCoverEvents

-------------------------------------------------------------------------------
(* PreBright *)

\* The labels of the threads that wake the device up.
PTyped == pc \in [P!Threads -> { "idle", "setState", "after" }] /\ DOMAIN type = P!Threads

\* The inductive invariant of the pre-bright wake-up: the property itself, once the labels are
\* known.
PInv == PTyped /\ P!PreBrightIsTimed

\* The invariant holds when the service starts.
LEMMA PInit == P!Init => PInv
  BY DEF P!Init, PInv, PTyped, P!PreBrightIsTimed

\* Every step of a wake-up, of the authentication timer and of a suspend preserves it.
LEMMA PNext == PInv /\ [P!Next]_P!vars => PInv'
  <1> SUFFICES ASSUME PInv, [P!Next]_P!vars PROVE PInv'
    OBVIOUS
  <1> USE DEF PInv, PTyped, P!PreBrightIsTimed, P!IsPreBrightAuthReason, P!SUCCESS, P!SCREEN_ON,
        P!SCREEN_OFF, P!StopSleep
  <1>1. ASSUME NEW c \in Callers, P!HandlePreBrightWakeUp(c) PROVE PInv'
    BY <1>1 DEF P!HandlePreBrightWakeUp, P!Threads
  <1>2. ASSUME NEW c \in Callers, P!WakeupDeviceInner(c) PROVE PInv'
    BY <1>2 DEF P!WakeupDeviceInner, P!Threads
  <1>3. ASSUME NEW t \in P!Threads, P!CallSetState(t) PROVE PInv'
    BY <1>3 DEF P!CallSetState, P!SetStateAwake, P!SetStateRefused, P!Refused,
       P!HandlePreBrightState
  <1>4. ASSUME NEW t \in P!Threads, P!After(t) PROVE PInv'
    BY <1>4 DEF P!After
  <1>5. CASE P!AuthFailTask
    BY <1>5 DEF P!AuthFailTask, P!Threads, P!Timer
  <1>6. CASE P!SuspendDevice
    BY <1>6 DEF P!SuspendDevice, P!HandlePreBrightState, P!callers
  <1>7. CASE P!SetAutoSleep
    BY <1>7 DEF P!SetAutoSleep, P!callers
  <1>8. CASE UNCHANGED P!vars
    BY <1>8 DEF P!vars, P!callers
  <1> QED
    BY <1>1, <1>2, <1>3, <1>4, <1>5, <1>6, <1>7, <1>8 DEF P!Next

\* HandlePreBrightWakeUp: a pre-bright that waits for its authentication result has a timer, or a
\* caller that cancelled the timer and is about to bring the result, for any number of callers.
THEOREM PreBrightIsNeverLeftLit == P!Spec => []P!PreBrightIsTimed
  <1>1. PInv => P!PreBrightIsTimed
    BY DEF PInv
  <1> QED BY PInit, PNext, <1>1, PTL DEF P!Spec

-------------------------------------------------------------------------------
(* ShutdownDialog *)

\* The show tasks that are under way: those that have still to send, and those that have still to
\* set the flags.
Pending == tasks.send + tasks.set

\* The number of tasks that have been posted.
DTyped == tasks \in [ send : Nat, set : Nat ]

\* While a task is to show the dialog, or the dialog is marked as shown, the system UI is
\* connected, unless a disconnection overtook a task.
TasksHaveRemote == Pending > 0 \/ isDialogShow => remote \/ overtaken

\* The inductive invariant of the shutdown dialog.
DInv == DTyped /\ TasksHaveRemote

\* The invariant holds before the key monitor is registered.
LEMMA DInit == D!Init => DInv
  BY DEF D!Init, DInv, DTyped, TasksHaveRemote, Pending

\* Every step of the key monitor, of the connection and of the tasks preserves it.
LEMMA DNext == DInv /\ [D!Next]_D!vars => DInv'
  <1> SUFFICES ASSUME DInv, [D!Next]_D!vars PROVE DInv'
    OBVIOUS
  <1> USE DEF DInv, DTyped, TasksHaveRemote, Pending, D!flags
  <1>1. CASE D!KeyMonitorInit
    BY <1>1 DEF D!KeyMonitorInit
  <1>2. CASE D!SetShutdownDialogForbid
    BY <1>2 DEF D!SetShutdownDialogForbid
  <1>3. CASE D!StartDialog
    BY <1>3 DEF D!StartDialog
  <1>4. CASE D!OnAbilityConnectDone
    BY <1>4 DEF D!OnAbilityConnectDone
  <1>5. CASE D!ShowTaskSends
    <2>1. CASE tasks' = [ tasks EXCEPT !.send = @ - 1, !.set = @ + 1 ]
      <3>1. tasks' = [ send |-> tasks.send - 1, set |-> tasks.set + 1 ]
        BY <2>1
      <3> QED BY <1>5, <3>1 DEF D!ShowTaskSends
    <2>2. CASE tasks' = [ tasks EXCEPT !.send = @ - 1 ]
      BY <1>5, <2>2 DEF D!ShowTaskSends
    <2> QED BY <1>5, <2>1, <2>2 DEF D!ShowTaskSends
  <1>6. CASE D!ShowTaskSetsFlags
    BY <1>6 DEF D!ShowTaskSetsFlags
  <1>7. CASE D!OnAbilityDisconnectDone
    BY <1>7 DEF D!OnAbilityDisconnectDone
  <1>8. CASE D!ResetLongPressFlag
    BY <1>8 DEF D!ResetLongPressFlag
  <1>9. CASE UNCHANGED D!vars
    BY <1>9 DEF D!vars
  <1> QED
    BY <1>1, <1>2, <1>3, <1>4, <1>5, <1>6, <1>7, <1>8, <1>9 DEF D!Next

\* ShutdownDialog: while g_isDialogShow is set there is a remote object to ask, so that no long
\* press is ignored for ever, unless a disconnection overtook a show task.
THEOREM ShutdownDialogCanBeShown == D!Spec => []D!DialogCanBeShown
  <1>1. DInv => D!DialogCanBeShown
    BY DEF DInv, TasksHaveRemote, D!DialogCanBeShown
  <1> QED BY DInit, DNext, <1>1, PTL DEF D!Spec

-------------------------------------------------------------------------------
(* InputWakeup *)

\* The input subscription is the one that belongs to curState_, unless the input manager refused
\* one.
Subscribed == failed \/ subscription = IF curState = "AWAKE" THEN "interval" ELSE "every"

\* The states of the state machine, of a SetState in progress and of the monitor.
ITyped ==
    /\ { state, target } \subseteq { "AWAKE", "DIM", "INACTIVE", "SLEEP" }
    /\ curState \in { "AWAKE", "INACTIVE" } /\ failed \in BOOLEAN

\* What the monitor was told: off whenever the device is, or is about to be, off; on when
\* SetState(AWAKE) is over.
KnownState ==
    /\ state \in { "INACTIVE", "SLEEP" } => curState = "INACTIVE"
    /\ holder # I!None /\ target = "INACTIVE" => curState = "INACTIVE"
    /\ holder = I!None /\ state = "AWAKE" => curState = "AWAKE"

\* The inductive invariant of the input wake-up.
IInv == ITyped /\ Subscribed /\ KnownState

\* The invariant holds when the service starts.
LEMMA IInit == I!Init => IInv
  BY DEF I!Init, IInv, ITyped, Subscribed, KnownState, I!None

\* The beginning of SetState tells the monitor before it changes the state, and so keeps the
\* invariant.
LEMMA IBegin == ASSUME IInv, NEW s \in { "AWAKE", "DIM", "INACTIVE", "SLEEP" }, NEW f,
    I!BeginSetState(s, f), state' = state PROVE IInv'
  BY DEF IInv, ITyped, Subscribed, KnownState, I!None, I!BeginSetState, I!RegisterMonitor, I!monitor

\* Every step of SetState, of the input monitor and of the wake-up tasks preserves it.
LEMMA INext == IInv /\ [I!Next]_I!vars => IInv'
  <1> SUFFICES ASSUME IInv, [I!Next]_I!vars PROVE IInv'
    OBVIOUS
  <1>a. ASSUME UNCHANGED << state, I!setting, I!monitor >> PROVE IInv'
    BY <1>a DEF IInv, ITyped, Subscribed, KnownState, I!setting, I!monitor
  <1>1. CASE I!TransitTo
    BY <1>1 DEF I!TransitTo, I!Forbidden, IInv, ITyped, Subscribed, KnownState, I!monitor, I!None
  <1>2. CASE I!EndSetState
    BY <1>2 DEF I!EndSetState, I!RegisterMonitor, IInv, ITyped, Subscribed, KnownState, I!monitor,
       I!None
  <1>3. CASE I!Suspend
    BY <1>3, IBegin DEF I!Suspend
  <1>4. CASE I!Refresh
    BY <1>4, <1>a, IBegin DEF I!Refresh
  <1>5. CASE I!PowerMgrInputMonitor
    BY <1>5, IBegin DEF I!PowerMgrInputMonitor
  <1>6. CASE I!WakeupSetsState
    BY <1>6, IBegin DEF I!WakeupSetsState
  <1>7. CASE I!OnInputEvent \/ I!TouchEventAfterScreenOn \/ I!Submit \/ I!HandleWakeup
          \/ I!SleepGuard \/ I!SleepGuardEnds \/ I!PowerKeyDown \/ I!ExecuteByGetReason
          \/ I!TimePasses
    BY <1>7, <1>a DEF I!OnInputEvent, I!TouchEventAfterScreenOn, I!Submit, I!HandleWakeup,
       I!SleepGuard, I!SleepGuardEnds, I!PowerKeyDown, I!ExecuteByGetReason, I!TimePasses
  <1>8. CASE UNCHANGED I!vars
    BY <1>8, <1>a DEF I!vars
  <1> QED
    BY <1>1, <1>2, <1>3, <1>4, <1>5, <1>6, <1>7, <1>8 DEF I!Next

\* RegisterMonitor: while the screen is off, or is being turned off, every input event is
\* delivered, and to an awake device at rest one a second, for each order of SetState, power key
\* and input events, unless the input service refused a subscription.
THEOREM EveryInputIsHeard == I!Spec => []I!InputIsHeard
  <1>1. IInv => I!InputIsHeard
    BY DEF IInv, ITyped, Subscribed, KnownState, I!InputIsHeard
  <1> QED BY IInit, INext, <1>1, PTL DEF I!Spec

-------------------------------------------------------------------------------
(* Proximity *)

\* The number of wake-up tasks.
XTyped == tasks \in Nat

\* The sensor is enabled only for a lock that is held, or that is being given back.
LockOfClient ==
    /\ client = "enable" => held
    /\ client = "disable" => ~held
    /\ enabled => held \/ client = "disable"

\* The sensor's marks belong to a lock that is held, unless UnLock overtook a sensor callback.
CloseIsHeld ==
    ~overtaken =>
        /\ close \/ sensor # "idle" => held \/ client = "disable"
        /\ sensor = "closeMarked" => close
        /\ sensor \in { "arm", "flag", "screenOff" } => held /\ close

\* For a screen that went off for proximity, and for a screen-off timer that is set or has fired,
\* either a task that turns the screen on is on its way, or the lock is held and close, or its away
\* event is being handled.
OffIsUndone ==
    ~overtaken /\ (offBy = "proximity" \/ fired \/ screenOffTimer) =>
        tasks > 0 \/ (held /\ (close \/ sensor = "awayMarked"))

\* A screen that went off for proximity has a held lock, or a task that turns it on is on its way.
OffIsHeld == offBy = "proximity" => held \/ tasks > 0

\* A screen-off timer that is set is marked as started, except right after it was set.
TimerIsMarked == screenOffTimer => timerStarted \/ sensor = "flag"

\* offBy names the reason of a screen that is off.
OffIsOff == offBy = "proximity" => ~on

\* The inductive invariant of the proximity lock.
XInv ==
    XTyped /\ LockOfClient /\ CloseIsHeld /\ OffIsUndone /\ OffIsHeld /\ TimerIsMarked /\ OffIsOff

\* The invariant holds when the controller starts.
LEMMA XInit == X!Init => XInv
  BY DEF X!Init, XInv, XTyped, LockOfClient, CloseIsHeld, OffIsUndone, OffIsHeld, TimerIsMarked,
     OffIsOff

\* Every step of the lock's client, of the sensor, of the timers, of a wake-up and of a suspend
\* preserves it.
LEMMA XNext == XInv /\ [X!Next]_X!vars => XInv'
  <1> SUFFICES ASSUME XInv, [X!Next]_X!vars PROVE XInv'
    OBVIOUS
  <1> USE DEF XInv, XTyped, LockOfClient, CloseIsHeld, OffIsUndone, OffIsHeld, TimerIsMarked, OffIsOff,
        X!config, X!controller, X!screenTimer, X!call,
      X!CancelDelayTimer, X!HandleProximityScreenOffTimer, X!CanTransitTo, X!SetStateAwake,
          X!SetStateInactive, X!HandleDuringCall
  <1>1. CASE X!Lock
    BY <1>1 DEF X!Lock
  <1>2. CASE X!Enable
    BY <1>2 DEF X!Enable
  <1>3. CASE X!UnLock
    <2>1. ~overtaken' => ~overtaken /\ sensor = "idle"
      BY <1>3, Zenon DEF X!UnLock
    <2> QED BY <1>3, <2>1 DEF X!UnLock
  <1>4. CASE X!Disable
    <2>1. ~overtaken' => sensor = "idle" /\ (~overtaken \/ (~fired /\ ~screenOffTimer))
      BY <1>4, Zenon DEF X!Disable
    <2>2. /\ ~close' /\ ~enabled' /\ client = "disable" /\ client' = "idle"
          /\ UNCHANGED << held, sensor, screenOffTimer, timerStarted, fired, tasks, on, offBy >>
      BY <1>4, Zenon DEF X!Disable
    <2>3. LockOfClient' /\ CloseIsHeld' /\ TimerIsMarked' /\ OffIsOff' /\ XTyped' /\ OffIsHeld'
      BY <2>1, <2>2, Zenon
    <2>4. ~held
      BY <2>2
    <2>5. OffIsUndone'
      BY <2>1, <2>2, <2>4, Zenon
    <2> QED BY <2>3, <2>5
  <1>5. CASE X!AwakeTask
    <2>1. ~overtaken' => ~overtaken /\ ~fired
      BY <1>5, Zenon DEF X!AwakeTask
    <2> QED BY <1>5, <2>1 DEF X!AwakeTask
  <1>6. CASE X!RecordSensorCallback
    BY <1>6 DEF X!RecordSensorCallback
  <1>7. CASE X!OnClose
    BY <1>7 DEF X!OnClose
  <1>8. CASE X!HandleProximityCloseEvent
    BY <1>8 DEF X!HandleProximityCloseEvent
  <1>9. CASE X!SetDelayTimer
    BY <1>9 DEF X!SetDelayTimer
  <1>10. CASE X!SetTimerStarted
    BY <1>10 DEF X!SetTimerStarted
  <1>11. CASE X!HandleProximityClose
    BY <1>11 DEF X!HandleProximityClose
  <1>12. CASE X!OnAway
    BY <1>12 DEF X!OnAway
  <1>13. CASE X!HandleProximityAwayEvent
    <2>1. ~overtaken' => ~overtaken
      BY <1>13, Zenon DEF X!HandleProximityAwayEvent
    <2>2. CASE ~held
      <3>1. /\ sensor = "awayMarked" /\ sensor' = "idle"
            /\ UNCHANGED << held, close, enabled, client, fired, tasks, on, offBy >>
            /\ UNCHANGED << screenOffTimer, timerStarted >>
        BY <1>13, <2>2, Zenon DEF X!HandleProximityAwayEvent
      <3> QED BY <2>1, <2>2, <3>1, Zenon
    <2>3. CASE held /\ callEnable /\ duringCall /\ on
      <3>1. ~overtaken' => ~fired /\ ~screenOffTimer
        BY <1>13, <2>3, Zenon DEF X!HandleProximityAwayEvent
      <3>2. /\ sensor = "awayMarked" /\ sensor' = "idle"
            /\ UNCHANGED << held, close, enabled, client, fired, tasks, on, offBy >>
            /\ UNCHANGED << screenOffTimer, timerStarted >>
        BY <1>13, <2>3, Zenon DEF X!HandleProximityAwayEvent
      <3> QED BY <2>1, <2>3, <3>1, <3>2
    <2>4. CASE held /\ ~(callEnable /\ duringCall /\ on)
      <3>1. ~overtaken' => ~fired
        BY <1>13, <2>4, Zenon DEF X!HandleProximityAwayEvent
      <3>2. /\ sensor = "awayMarked" /\ sensor' = "idle" /\ X!SetStateAwake("PROXIMITY")
            /\ UNCHANGED << held, close, enabled, client, fired, tasks >>
        BY <1>13, <2>4, Zenon DEF X!HandleProximityAwayEvent
      <3> QED BY <2>1, <2>4, <3>1, <3>2
    <2> QED BY <2>2, <2>3, <2>4
  <1>14. CASE X!ScreenOffTimerFires
    BY <1>14 DEF X!ScreenOffTimerFires
  <1>15. CASE X!SwitchTimerFires \/ X!ObjectMoves \/ X!DuringCallSettingUpdateFunc
           \/ X!SetProxFilteringStrategy
    BY <1>15 DEF X!SwitchTimerFires, X!ObjectMoves, X!DuringCallSettingUpdateFunc,
       X!SetProxFilteringStrategy
  <1>16. ASSUME NEW r \in { "POWER_KEY", "DOUBLE_CLICK", "PICKUP", "PLUG_CHANGE" },
           X!Wakeup(r) PROVE XInv'
    BY <1>16 DEF X!Wakeup
  <1>17. ASSUME NEW r \in { "POWER_KEY", "TIMEOUT" }, X!Suspend(r) PROVE XInv'
    BY <1>17 DEF X!Suspend
  <1>18. CASE UNCHANGED X!vars
    BY <1>18 DEF X!vars
  <1> QED
    BY <1>1, <1>2, <1>3, <1>4, <1>5, <1>6, <1>7, <1>8, <1>9, <1>10, <1>11, <1>12, <1>13, <1>14,
       <1>15, <1>16, <1>17, <1>18 DEF X!Next

\* ProximityController: once threads, tasks and timer are at rest, a screen that the sensor turned
\* off belongs to a held lock; unless UnLock or a call came in the middle of a sensor callback, its
\* sensor still says close, and without the lock nothing is close.
THEOREM ProximityScreenOffIsUndone == X!Spec => []X!ScreenOffOnlyWhileClose
  <1>1. XInv => X!ScreenOffOnlyWhileClose
    BY DEF XInv, XTyped, LockOfClient, CloseIsHeld, OffIsUndone, OffIsHeld, X!ScreenOffOnlyWhileClose
  <1> QED BY XInit, XNext, <1>1, PTL DEF X!Spec

-------------------------------------------------------------------------------
(* ScreenOffPre *)

\* Times are whole numbers of milliseconds.
Whole == Times \subseteq Int /\ RemainTimes \subseteq Int

\* A scheduling of the notice, by its next step and its delay.
Tasks == { N!Idle } \cup [ at : { "cancel", "submit" }, next : Int ]

\* The clock, the times and the schedulings in progress.
NTyped ==
    /\ offTime \in Times \cup { N!Never } /\ settingTime \in Times \cup { N!Never }
    /\ sinceOn \in Int /\ dimIn \in Int /\ remainTime \in Int /\ task \in Int
    /\ machine \in Tasks /\ register \in Tasks

\* A scheduling in progress has the delay that ends remainTime before the screen goes dim, unless
\* another one disturbed it.
NextIsDue ==
    ~disturbed => /\ machine # N!Idle => machine.next = dimIn - remainTime
                  /\ register # N!Idle /\ awake /\ dimIn # N!Never => register.next = dimIn - remainTime

\* The inductive invariant of the screen-off-pre notice.
NInv == NTyped /\ NextIsDue /\ N!NoticePrecedesDim

\* The invariant holds when the service starts.
LEMMA NInit == ASSUME Whole PROVE N!Init => NInv
  BY DEF Whole, N!Init, NInv, NTyped, NextIsDue, N!NoticePrecedesDim, Tasks, N!Never

\* Every step of the state machine, of a registration, of the clock and of the notice's task
\* preserves it.
LEMMA NNext == ASSUME Whole PROVE NInv /\ [N!Next]_N!vars => NInv'
  <1> SUFFICES ASSUME NInv, [N!Next]_N!vars PROVE NInv'
    OBVIOUS
  <1>0. N!Idle.at = "idle" /\ N!Idle.next = N!Never /\ N!Never = -1
    BY DEF N!Idle, N!Never
  <1> USE Whole, <1>0 DEF Whole, NInv, NTyped, NextIsDue, N!NoticePrecedesDim, Tasks, N!clock,
        N!controller
  <1>1. CASE N!MachineCancels
    BY <1>1 DEF N!MachineCancels, N!CancelEyeDetectTimeout
  <1>2. CASE N!MachineSubmits
    <2>1. ~disturbed' => ~disturbed /\ task = N!Never
      BY <1>2, Zenon DEF N!MachineSubmits
    <2> QED BY <1>2, <2>1 DEF N!MachineSubmits, N!HandleEyeDetectTimeout
  <1>3. CASE N!RegisterCancels
    BY <1>3 DEF N!RegisterCancels, N!CancelEyeDetectTimeout
  <1>4. CASE N!RegisterSubmits
    <2>1. ~disturbed' => ~disturbed /\ task = N!Never
      BY <1>4, Zenon DEF N!RegisterSubmits
    <2> QED BY <1>4, <2>1 DEF N!RegisterSubmits, N!HandleEyeDetectTimeout
  <1>a. ASSUME NEW t \in Times \cup { N!Never }, N!ResetInactiveTimer(t),
          UNCHANGED << N!controller, task, register >>
        PROVE  NextIsDue' /\ N!NoticePrecedesDim' /\ dimIn' \in Int /\ machine' \in Tasks
    <2>1. ~disturbed' => ~disturbed /\ register = N!Idle
      BY <1>a, Zenon DEF N!ResetInactiveTimer
    <2> QED BY <1>a, <2>1 DEF N!ResetInactiveTimer, N!ResetScreenOffPreTimeForSwing,
          N!SchedulEyeDetectTimeout, N!NeedEyeDetectLocked
  <1>5. CASE N!RefreshActivity
    <2>1. NextIsDue' /\ N!NoticePrecedesDim' /\ dimIn' \in Int /\ machine' \in Tasks
      BY <1>5, <1>a DEF N!RefreshActivity
    <2>2. NTyped'
      BY <1>5, <2>1 DEF N!RefreshActivity, NTyped
    <2> QED BY <2>1, <2>2
  <1>6. CASE N!SetDisplayOffTime
    BY <1>6, <1>a DEF N!SetDisplayOffTime
  <1>7. CASE N!ScreenGoesDim
    BY <1>7 DEF N!ScreenGoesDim
  <1>8. ASSUME NEW c \in Clients, N!AddScreenStateCallback(c) PROVE NInv'
    <2>1. PICK r \in RemainTimes : 
         /\ remainTime' = r
         /\ register' = N!SchedulEyeDetectTimeout(settingTime - sinceOn - r, r)
         /\ ~disturbed' => /\ ~disturbed /\ machine = N!Idle
                           /\ awake /\ dimIn # N!Never => settingTime - sinceOn - r = dimIn - r
      BY <1>8, Zenon DEF N!AddScreenStateCallback
    <2>2. /\ r \in Int /\ settingTime - sinceOn - r \in Int
          /\ UNCHANGED << N!clock, task, orphans, machine, told >>
      BY <1>8 DEF N!AddScreenStateCallback
    <2>3. /\ register' \in Tasks
          /\ register' # N!Idle => register'.next = settingTime - sinceOn - r
          /\ r > 0 /\ settingTime - sinceOn - r >= 0 => register' # N!Idle
      BY <2>1, <2>2 DEF N!SchedulEyeDetectTimeout, N!NeedEyeDetectLocked
    <2>4. NTyped' /\ NextIsDue'
      BY <2>1, <2>2, <2>3
    <2>5. N!NoticePrecedesDim'
      BY <2>1, <2>2, <2>3
    <2> QED BY <2>4, <2>5
  <1>9. ASSUME NEW c \in Clients, N!DelScreenStateCallback(c) \/ N!OnRemoteDied(c) PROVE NInv'
    BY <1>9 DEF N!DelScreenStateCallback, N!OnRemoteDied
  <1>10. CASE N!TriggerCallback
    <2>1. ~told' => ~told /\ callbackSet = {}
      BY <1>10, Zenon DEF N!TriggerCallback
    <2> QED BY <1>10, <2>1 DEF N!TriggerCallback
  <1>11. CASE N!TriggerOrphan
    <2>1. ~told' => ~told
      BY <1>11, Zenon DEF N!TriggerOrphan
    <2> QED BY <1>11, <2>1 DEF N!TriggerOrphan
  <1>12. CASE N!Tick
    BY <1>12 DEF N!Tick, N!Less
  <1>13. CASE UNCHANGED N!vars
    BY <1>13 DEF N!vars
  <1> QED BY <1>1, <1>2, <1>3, <1>4, <1>5, <1>6, <1>7, <1>8, <1>9, <1>10, <1>11, <1>12, <1>13
        DEF N!Next

\* ScreenOffPreController: while it is registered, the notice comes remainTime before the screen is
\* dimmed, for any whole off times and remaining times, unless the clients were told, there was no
\* time for it, or two SchedulEyeDetectTimeout disturbed each other.
THEOREM NoticeComesFirst == ASSUME Whole PROVE N!Spec => []N!NoticePrecedesDim
  <1>1. NInv => N!NoticePrecedesDim
    BY DEF NInv
  <1> QED BY NInit, NNext, <1>1, PTL DEF N!Spec

-------------------------------------------------------------------------------
(* Cover *)

\* The workers of the hall sensor are none of the other threads.
WorkersAreOthers == LidTasks \cap { "queue", "key", "client", "screen" } = {}

\* Where the threads of each kind can be, and what they act for.
Waking == { "wakeup", "wake", "woken" }
Suspending == { "suspend", "setInactive" }
ThreadsTyped ==
    /\ pc["queue"] \in { "idle", "internalOff" } \cup Suspending \cup Waking
    /\ pc["queue"] # "idle" => reason["queue"] = "switch"
    /\ \A t \in LidTasks : /\ pc[t] \in { "idle" } \cup Suspending \cup Waking
                           /\ pc[t] # "idle" => reason[t] = "lid" /\ lid
    /\ pc["key"] \in { "idle" } \cup Waking
    /\ pc["key"] # "idle" => reason["key"] = "key"
    /\ pc["client"] \in { "idle", "clientCheck", "clientWake" }
    /\ pc["screen"] \in { "idle", "clientCheck", "clientWake", "init", "connected", "disconnected",
                          "abnormal" }
CTyped ==
    /\ pc = [ t \in C!Threads |-> pc[t] ] /\ reason = [ t \in C!Threads |-> reason[t] ]
    /\ seen = [ t \in C!Threads |-> seen[t] ]
    /\ screens \in Nat /\ timer \in { "none", "wakeup", "suspend" }

\* The task that waits is that of the last event of the cover; only the switch has one that wakes.
TimerIsOfCover == timer = "wakeup" => ~lid /\ cover = "open"

\* A wake-up of the switch that the cover has overtaken has a suspend behind it.
WakeupIsOfCover == pc["queue"] \in Waking => ~lid /\ (cover # "open" => timer = "suspend")

\* A thread that wakes the device up saw the cover open or an external screen.
WakeupSaw == \A t \in C!Threads : pc[t] \in { "wake", "woken" } => seen[t].open \/ seen[t].some

\* A wake-up of the hall sensor has the cover as it was.
WorkerIsOfCover == \A t \in LidTasks : pc[t] \in Waking => cover = "open"

\* The internal screen is on only while the device is.
InternalIsOn == internal \in BOOLEAN /\ (internal => on)

\* A task that turns the device off is to come.
OffIsComing ==
    \/ timer = "suspend"
    \/ pc["queue"] \in Suspending
    \/ \E t \in LidTasks : pc[t] \in Suspending

\* A device that is on with its cover open has its internal screen on, or a task of the cover is
\* to come;
OnIsComing ==
    on /\ cover = "open" /\ ~internal =>
        \/ timer # "none"
        \/ pc["queue"] \in Suspending \cup { "internalOff", "wakeup", "wake" }
        \/ \E t \in LidTasks : pc[t] \in Suspending \cup { "wakeup", "wake" }

\* with the cover closed its internal screen is off, or a suspend is to come, or the end of a
\* key's wake-up, which leaves the external screens on only;
InternalOffIsComing ==
    internal /\ cover # "open" =>
        OffIsComing \/ pc["queue"] = "internalOff" \/ (pc["key"] = "woken" /\ seen["key"].some)

\* and without an external screen it is off then, or a suspend is to come, or the last screen has
\* just gone.
NoScreenIsComing ==
    on /\ cover # "open" /\ screens = 0 =>
        OffIsComing \/ (pc["screen"] = "disconnected" /\ ~seen["screen"].open)

\* The inductive invariant of the cover.
Calm == WorkerIsOfCover /\ InternalIsOn /\ OnIsComing /\ InternalOffIsComing /\ NoScreenIsComing
CInv ==
    /\ ThreadsTyped /\ CTyped
    /\ TimerIsOfCover /\ WakeupIsOfCover /\ WakeupSaw
    /\ ~overtaken => Calm

\* The invariant holds when the service starts.
LEMMA CInit == C!Init => CInv
  <1> SUFFICES ASSUME C!Init PROVE CInv
    OBVIOUS
  <1>1. CTyped
    BY DEF C!Init, CTyped
  <1>2. \A t \in C!Threads : pc[t] = "idle"
    BY DEF C!Init
  <1>3. ThreadsTyped /\ TimerIsOfCover /\ WakeupIsOfCover /\ WakeupSaw
    BY <1>2 DEF C!Init, C!Threads, ThreadsTyped, TimerIsOfCover, WakeupIsOfCover, WakeupSaw, Waking,
       Suspending
  <1>4. Calm
    BY <1>2 DEF C!Init, C!Threads, Calm, WorkerIsOfCover, InternalIsOn, OnIsComing,
       InternalOffIsComing,
                NoScreenIsComing, Waking
  <1> QED BY <1>1, <1>3, <1>4 DEF CInv

\* What a thread that looks sees.
LEMMA LookSees ==
  ASSUME NEW t \in C!Threads, C!Look(t), CTyped
  PROVE  /\ seen' = [ u \in C!Threads |-> seen'[u] ]
         /\ \A u \in C!Threads : u # t => seen'[u] = seen[u]
         /\ seen'[t].open <=> cover = "open"
         /\ seen'[t].some <=> screens > 0
  <1>1. PICK now : now = C!Now
    OBVIOUS
  <1>2. /\ now.open <=> cover = "open"
        /\ now.some <=> screens > 0
    BY <1>1, Zenon DEF C!Now, C!IsLidOrSwitchOpen
  <1>3. seen' = [ seen EXCEPT ![t] = now ] /\ seen = [ u \in C!Threads |-> seen[u] ]
    BY <1>1 DEF C!Look, CTyped
  <1>4. /\ seen' = [ u \in C!Threads |-> seen'[u] ] /\ seen'[t] = now
        /\ \A u \in C!Threads : u # t => seen'[u] = seen[u]
    BY <1>3
  <1> QED BY <1>2, <1>4

\* A thread of the screens that is not stale acts on what is so.
LEMMA NotStale ==
  ~C!Stale => /\ seen["screen"].open \in BOOLEAN
              /\ seen["screen"].open <=> cover = "open"
              /\ seen["screen"].on <=> on
  <1>1. ~C!Stale => seen["screen"].open = C!Now.open /\ seen["screen"].on = C!Now.on
    BY DEF C!Stale
  <1>2. C!Now.open \in BOOLEAN /\ (C!Now.open <=> cover = "open") /\ C!Now.on = on
    BY Zenon DEF C!Now, C!IsLidOrSwitchOpen
  <1> QED BY <1>1, <1>2, Zenon

\* The threads by name.
LEMMA ThreadNames ==
  ASSUME WorkersAreOthers
  PROVE  /\ "queue" \in C!Threads /\ "key" \in C!Threads /\ "client" \in C!Threads /\ "screen" \in C!Threads
         /\ "queue" \notin LidTasks /\ "key" \notin LidTasks
         /\ "client" \notin LidTasks /\ "screen" \notin LidTasks
         /\ LidTasks \subseteq C!Threads
         /\ \A t \in C!Threads : t \in LidTasks \/ t \in { "queue", "key", "client", "screen" }
  BY DEF WorkersAreOthers, C!Threads

\* Every event, every step of a thread and every end of one preserves it.
LEMMA CNext == ASSUME WorkersAreOthers PROVE CInv /\ [C!Next]_C!vars => CInv'
  <1> SUFFICES ASSUME CInv, [C!Next]_C!vars PROVE CInv'
    OBVIOUS
  <1>a. ThreadsTyped /\ CTyped /\ TimerIsOfCover /\ WakeupIsOfCover /\ WakeupSaw /\ (~overtaken => Calm)
    BY DEF CInv
  <1>1. ASSUME NEW open \in BOOLEAN, C!SwitchEvent(open) PROVE CInv'
    <2>1. /\ ~lid /\ (cover' = "open" <=> open) /\ (cover = "open" <=> ~open)
          /\ open => timer' = "wakeup"
          /\ ~open => timer' = "suspend"
          /\ UNCHANGED << lid, screens, on, internal, pc, reason, seen, overtaken >>
      BY <1>1 DEF C!SwitchEvent, C!ExecMonitorByReason, C!IsLidOrSwitchOpen, C!product
    <2>2. CTyped'
      BY <1>a, <2>1, ThreadNames DEF CTyped, Waking, Suspending
    <2>3. ThreadsTyped'
      BY <1>a, <2>1, ThreadNames DEF ThreadsTyped, Waking, Suspending
    <2>4. TimerIsOfCover' /\ WakeupIsOfCover' /\ WakeupSaw'
      BY <1>a, <2>1, ThreadNames DEF ThreadsTyped, Waking, Suspending, TimerIsOfCover,
         WakeupIsOfCover, WakeupSaw
    <2>5. ~overtaken' => Calm'
      BY <1>a, <2>1, ThreadNames DEF ThreadsTyped, Waking, Suspending, CTyped, Calm,
         WorkerIsOfCover, InternalIsOn, OnIsComing, InternalOffIsComing, NoScreenIsComing,
         OffIsComing, TimerIsOfCover, WakeupIsOfCover, WakeupSaw
    <2> QED BY <2>2, <2>3, <2>4, <2>5 DEF CInv, Calm
  <1>2. ASSUME NEW t \in LidTasks, NEW open \in BOOLEAN, C!HallSensorCallback(t, open) PROVE CInv'
    <2>1. /\ lid /\ (cover' = "open" <=> open) /\ (cover = "open" <=> ~open) /\ pc[t] = "idle"
          /\ UNCHANGED << lid, screens, on, internal, timer, seen >>
      BY <1>2 DEF C!HallSensorCallback, C!IsLidOrSwitchOpen, C!product
    <2>2. ~overtaken' => ~overtaken /\ ~\E u \in LidTasks : pc[u] # "idle"
      BY <1>2, Zenon DEF C!HallSensorCallback
    <2>3. /\ pc' = [ pc EXCEPT ![t] = IF open THEN "wakeup" ELSE "suspend" ]
          /\ reason' = [ reason EXCEPT ![t] = "lid" ]
      BY <1>2 DEF C!HallSensorCallback, C!Start, C!Goto
    <2>4. /\ pc' = [ u \in C!Threads |-> pc'[u] ]
          /\ (open => pc'[t] = "wakeup") /\ (~open => pc'[t] = "suspend")
          /\ \A u \in C!Threads : u # t => pc'[u] = pc[u] /\ reason'[u] = reason[u]
          /\ reason' = [ u \in C!Threads |-> reason'[u] ] /\ reason'[t] = "lid"
      BY <1>a, <2>3, ThreadNames DEF CTyped
    <2>5. CTyped'
      BY <1>a, <2>1, <2>2, <2>4, ThreadNames DEF CTyped, Waking, Suspending
    <2>6. ThreadsTyped'
      BY <1>a, <2>1, <2>2, <2>4, ThreadNames DEF ThreadsTyped, Waking, Suspending
    <2>7. TimerIsOfCover' /\ WakeupIsOfCover' /\ WakeupSaw'
      BY <1>a, <2>1, <2>2, <2>4, ThreadNames DEF ThreadsTyped, Waking, Suspending, TimerIsOfCover,
         WakeupIsOfCover, WakeupSaw
    <2>8. ~overtaken' => Calm'
      BY <1>a, <2>1, <2>2, <2>4, ThreadNames DEF ThreadsTyped, Waking, Suspending, CTyped, Calm,
         WorkerIsOfCover, InternalIsOn, OnIsComing, InternalOffIsComing, NoScreenIsComing,
         OffIsComing, TimerIsOfCover, WakeupIsOfCover, WakeupSaw
    <2> QED BY <2>5, <2>6, <2>7, <2>8 DEF CInv, Calm
  <1>3. ASSUME C!TimerFires PROVE CInv'
    <2>1. /\ timer \in { "wakeup", "suspend" } /\ pc["queue"] = "idle" /\ timer' = "none"
          /\ UNCHANGED << lid, cover, screens, on, internal, seen, overtaken >>
      BY <1>a, <1>3 DEF CTyped, C!TimerFires, C!product
    <2>2. /\ pc' = [ pc EXCEPT !["queue"] = timer ]
          /\ reason' = [ reason EXCEPT !["queue"] = "switch" ]
      BY <1>3 DEF C!TimerFires, C!Start, C!Goto
    <2>3. /\ pc' = [ u \in C!Threads |-> pc'[u] ] /\ pc'["queue"] = timer
          /\ \A u \in C!Threads : u # "queue" => pc'[u] = pc[u] /\ reason'[u] = reason[u]
          /\ reason' = [ u \in C!Threads |-> reason'[u] ] /\ reason'["queue"] = "switch"
      BY <1>a, <2>2, ThreadNames DEF CTyped
    <2>4. CTyped'
      BY <1>a, <2>1, <2>3, ThreadNames DEF CTyped, Waking, Suspending
    <2>5. ThreadsTyped'
      BY <1>a, <2>1, <2>3, ThreadNames DEF ThreadsTyped, Waking, Suspending
    <2>6. TimerIsOfCover' /\ WakeupIsOfCover' /\ WakeupSaw'
      BY <1>a, <2>1, <2>3, ThreadNames DEF ThreadsTyped, Waking, Suspending, TimerIsOfCover,
         WakeupIsOfCover, WakeupSaw
    <2>7. ~overtaken' => Calm'
      BY <1>a, <2>1, <2>3, ThreadNames DEF ThreadsTyped, Waking, Suspending, CTyped, Calm,
         WorkerIsOfCover, InternalIsOn, OnIsComing, InternalOffIsComing, NoScreenIsComing,
         OffIsComing, TimerIsOfCover, WakeupIsOfCover, WakeupSaw
    <2> QED BY <2>4, <2>5, <2>6, <2>7 DEF CInv, Calm
  <1>4. ASSUME NEW t \in C!Threads, C!SuspendControlListener(t) PROVE CInv'
    <2>1. /\ pc[t] = "suspend"
          /\ UNCHANGED << lid, cover, screens, on, internal, timer, reason, seen, overtaken >>
      BY <1>4 DEF C!SuspendControlListener, C!product
    <2>2. PICK label : /\ pc' = [ pc EXCEPT ![t] = label ]
                       /\ ~on => label = "idle"
                       /\ on => \/ label = "setInactive"
                                \/ label = "internalOff" /\ reason[t] = "switch" /\ screens > 0
      BY <1>4 DEF C!SuspendControlListener, C!Goto, C!IsPowerOffInernalScreenOnlyScene
    <2>3. /\ pc' = [ u \in C!Threads |-> pc'[u] ] /\ pc'[t] = label
          /\ \A u \in C!Threads : u # t => pc'[u] = pc[u]
      BY <1>a, <2>2 DEF CTyped
    <2>4. t = "queue" \/ t \in LidTasks
      BY <1>a, <2>1, ThreadNames DEF ThreadsTyped, Waking, Suspending
    <2>5. CTyped'
      BY <1>a, <2>1, <2>2, <2>3, <2>4, ThreadNames DEF CTyped, Waking, Suspending
    <2>6. ThreadsTyped'
      BY <1>a, <2>1, <2>2, <2>3, <2>4, ThreadNames DEF ThreadsTyped, Waking, Suspending
    <2>7. TimerIsOfCover' /\ WakeupIsOfCover' /\ WakeupSaw'
      BY <1>a, <2>1, <2>2, <2>3, <2>4, ThreadNames DEF ThreadsTyped, Waking, Suspending,
         TimerIsOfCover, WakeupIsOfCover, WakeupSaw
    <2>8. ~overtaken' => WorkerIsOfCover' /\ InternalIsOn'
      BY <1>a, <2>1, <2>2, <2>3, <2>4, ThreadNames DEF ThreadsTyped, Waking, Suspending, Calm,
         WorkerIsOfCover, InternalIsOn
    <2>9. ~overtaken' => OnIsComing'
      BY <1>a, <2>1, <2>2, <2>3, <2>4, ThreadNames DEF ThreadsTyped, Waking, Suspending, Calm,
         InternalIsOn, OnIsComing, TimerIsOfCover, WakeupIsOfCover
    <2>10. ~overtaken' => InternalOffIsComing'
      BY <1>a, <2>1, <2>2, <2>3, <2>4, ThreadNames DEF ThreadsTyped, Waking, Suspending, Calm,
         CTyped, WorkerIsOfCover, InternalIsOn, InternalOffIsComing, OffIsComing, TimerIsOfCover,
         WakeupIsOfCover, WakeupSaw
    <2>11. ~overtaken' => NoScreenIsComing'
      BY <1>a, <2>1, <2>2, <2>3, <2>4, ThreadNames DEF ThreadsTyped, Waking, Suspending, Calm,
         CTyped, WorkerIsOfCover, InternalIsOn, NoScreenIsComing, OffIsComing, TimerIsOfCover,
         WakeupIsOfCover, WakeupSaw
    <2> QED BY <2>5, <2>6, <2>7, <2>8, <2>9, <2>10, <2>11 DEF CInv, Calm
  <1>5. ASSUME NEW t \in C!Threads, C!PowerOffInternalScreen(t) PROVE CInv'
    <2>1. /\ pc[t] = "internalOff" /\ internal' \in BOOLEAN /\ ~internal'
          /\ UNCHANGED << lid, cover, screens, on, timer, reason, seen >>
      BY <1>5 DEF C!PowerOffInternalScreen, C!product
    <2>2. ~overtaken' => ~overtaken /\ ~(cover = "open" /\ timer = "none")
      BY <1>5, Zenon DEF C!PowerOffInternalScreen, C!IsLidOrSwitchOpen
    <2>3. pc' = [ pc EXCEPT ![t] = "idle" ]
      BY <1>5 DEF C!PowerOffInternalScreen, C!Goto
    <2>4. /\ pc' = [ u \in C!Threads |-> pc'[u] ] /\ pc'[t] = "idle"
          /\ \A u \in C!Threads : u # t => pc'[u] = pc[u]
      BY <1>a, <2>3 DEF CTyped
    <2>5. t = "queue"
      BY <1>a, <2>1, ThreadNames DEF ThreadsTyped, Waking, Suspending
    <2>6. CTyped'
      BY <1>a, <2>1, <2>2, <2>4, <2>5, ThreadNames DEF CTyped, Waking, Suspending
    <2>7. ThreadsTyped'
      BY <1>a, <2>1, <2>2, <2>4, <2>5, ThreadNames DEF ThreadsTyped, Waking, Suspending
    <2>8. TimerIsOfCover' /\ WakeupIsOfCover' /\ WakeupSaw'
      BY <1>a, <2>1, <2>2, <2>4, <2>5, ThreadNames DEF ThreadsTyped, Waking, Suspending,
         TimerIsOfCover, WakeupIsOfCover, WakeupSaw
    <2>9. ~overtaken' => Calm'
      BY <1>a, <2>1, <2>2, <2>4, <2>5, ThreadNames DEF ThreadsTyped, Waking, Suspending, CTyped,
         Calm, WorkerIsOfCover, InternalIsOn, OnIsComing, InternalOffIsComing, NoScreenIsComing,
         OffIsComing, TimerIsOfCover, WakeupIsOfCover, WakeupSaw
    <2> QED BY <2>6, <2>7, <2>8, <2>9 DEF CInv, Calm
  <1>6. ASSUME NEW t \in C!Threads, C!ControlListenerInner(t) PROVE CInv'
    <2>1. /\ pc[t] = "setInactive" /\ internal' \in BOOLEAN /\ ~internal' /\ on' = FALSE
          /\ UNCHANGED << lid, cover, screens, timer, reason, seen, overtaken >>
      BY <1>6 DEF C!ControlListenerInner, C!SetStateInactive, C!product
    <2>2. pc' = [ pc EXCEPT ![t] = "idle" ]
      BY <1>6 DEF C!ControlListenerInner, C!Goto
    <2>3. /\ pc' = [ u \in C!Threads |-> pc'[u] ] /\ pc'[t] = "idle"
          /\ \A u \in C!Threads : u # t => pc'[u] = pc[u]
      BY <1>a, <2>2 DEF CTyped
    <2>4. t = "queue" \/ t \in LidTasks
      BY <1>a, <2>1, ThreadNames DEF ThreadsTyped, Waking, Suspending
    <2>5. CTyped'
      BY <1>a, <2>1, <2>3, <2>4, ThreadNames DEF CTyped, Waking, Suspending
    <2>6. ThreadsTyped'
      BY <1>a, <2>1, <2>3, <2>4, ThreadNames DEF ThreadsTyped, Waking, Suspending
    <2>7. TimerIsOfCover' /\ WakeupIsOfCover' /\ WakeupSaw'
      BY <1>a, <2>1, <2>3, <2>4, ThreadNames DEF ThreadsTyped, Waking, Suspending, TimerIsOfCover,
         WakeupIsOfCover, WakeupSaw
    <2>8. ~overtaken' => Calm'
      BY <1>a, <2>1, <2>3, <2>4, ThreadNames DEF ThreadsTyped, Waking, Suspending, CTyped, Calm,
         WorkerIsOfCover, InternalIsOn, OnIsComing, InternalOffIsComing, NoScreenIsComing,
         OffIsComing, TimerIsOfCover, WakeupIsOfCover, WakeupSaw
    <2> QED BY <2>5, <2>6, <2>7, <2>8 DEF CInv, Calm
  <1>7. ASSUME NEW t \in C!Threads, C!WakeupControlListener(t), C!NeedToSkipCurrentWakeup(t) PROVE CInv'
    <2>1. /\ pc[t] = "wakeup" /\ ((cover # "open" /\ screens = 0) \/ (on /\ reason[t] = "key"))
          /\ UNCHANGED << lid, cover, screens, on, internal, timer, reason, seen, overtaken >>
      BY <1>7 DEF C!WakeupControlListener, C!NeedToSkipCurrentWakeup, C!IsLidOrSwitchOpen, C!product
    <2>2. pc' = [ pc EXCEPT ![t] = "idle" ]
      BY <1>7 DEF C!WakeupControlListener, C!Goto
    <2>3. /\ pc' = [ u \in C!Threads |-> pc'[u] ] /\ pc'[t] = "idle"
          /\ \A u \in C!Threads : u # t => pc'[u] = pc[u]
      BY <1>a, <2>2 DEF CTyped
    <2>4. t \in { "queue", "key" } \/ t \in LidTasks
      BY <1>a, <2>1, ThreadNames DEF ThreadsTyped, Waking, Suspending
    <2>5. CTyped'
      BY <1>a, <2>1, <2>3, <2>4, ThreadNames DEF CTyped, Waking, Suspending
    <2>6. ThreadsTyped'
      BY <1>a, <2>1, <2>3, <2>4, ThreadNames DEF ThreadsTyped, Waking, Suspending
    <2>7. TimerIsOfCover' /\ WakeupIsOfCover' /\ WakeupSaw'
      BY <1>a, <2>1, <2>3, <2>4, ThreadNames DEF ThreadsTyped, Waking, Suspending, TimerIsOfCover,
         WakeupIsOfCover, WakeupSaw
    <2>8. ~overtaken' => Calm'
      BY <1>a, <2>1, <2>3, <2>4, ThreadNames DEF ThreadsTyped, Waking, Suspending, CTyped, Calm,
         WorkerIsOfCover, InternalIsOn, OnIsComing, InternalOffIsComing, NoScreenIsComing,
         OffIsComing, TimerIsOfCover, WakeupIsOfCover, WakeupSaw
    <2> QED BY <2>5, <2>6, <2>7, <2>8 DEF CInv, Calm
  <1>8. ASSUME NEW t \in C!Threads, C!WakeupControlListener(t), ~C!NeedToSkipCurrentWakeup(t) PROVE CInv'
    <2>1. /\ pc[t] = "wakeup" /\ (cover = "open" \/ screens # 0) /\ C!Look(t)
          /\ UNCHANGED << lid, cover, screens, on, internal, timer, reason, overtaken >>
      BY <1>8 DEF C!WakeupControlListener, C!NeedToSkipCurrentWakeup, C!IsLidOrSwitchOpen, C!product
    <2>2. pc' = [ pc EXCEPT ![t] = "wake" ]
      BY <1>8 DEF C!WakeupControlListener, C!Goto
    <2>3. /\ pc' = [ u \in C!Threads |-> pc'[u] ] /\ pc'[t] = "wake"
          /\ \A u \in C!Threads : u # t => pc'[u] = pc[u]
      BY <1>a, <2>2 DEF CTyped
    <2>4. /\ seen' = [ u \in C!Threads |-> seen'[u] ]
          /\ \A u \in C!Threads : u # t => seen'[u] = seen[u]
          /\ seen'[t].open \/ seen'[t].some
      BY <1>a, <2>1, LookSees DEF CTyped
    <2>5. t \in { "queue", "key" } \/ t \in LidTasks
      BY <1>a, <2>1, ThreadNames DEF ThreadsTyped, Waking, Suspending
    <2>6. CTyped'
      BY <1>a, <2>1, <2>3, <2>4, <2>5, ThreadNames DEF CTyped, Waking, Suspending
    <2>7. ThreadsTyped'
      BY <1>a, <2>1, <2>3, <2>4, <2>5, ThreadNames DEF ThreadsTyped, Waking, Suspending
    <2>8. TimerIsOfCover' /\ WakeupIsOfCover' /\ WakeupSaw'
      BY <1>a, <2>1, <2>3, <2>4, <2>5, ThreadNames DEF ThreadsTyped, Waking, Suspending,
         TimerIsOfCover, WakeupIsOfCover, WakeupSaw
    <2>9. ~overtaken' => Calm'
      BY <1>a, <2>1, <2>3, <2>4, <2>5, ThreadNames DEF ThreadsTyped, Waking, Suspending, CTyped,
         Calm, WorkerIsOfCover, InternalIsOn, OnIsComing, InternalOffIsComing, NoScreenIsComing,
         OffIsComing, TimerIsOfCover, WakeupIsOfCover, WakeupSaw
    <2> QED BY <2>6, <2>7, <2>8, <2>9 DEF CInv, Calm
  <1>9. ASSUME NEW t \in C!Threads, C!HandleWakeup(t), C!IsPowerOnInernalScreenOnlyScene(t) PROVE CInv'
    <2>1. /\ pc[t] = "wake" /\ on /\ screens > 0
          /\ UNCHANGED << lid, cover, screens, on, timer, reason, overtaken >>
      BY <1>9 DEF C!HandleWakeup, C!product, C!IsPowerOnInernalScreenOnlyScene
    <2>2. internal' \in BOOLEAN /\ (internal' <=> internal \/ cover = "open")
      BY <1>9, Zenon DEF C!HandleWakeup, C!IsLidOrSwitchOpen
    <2>3. pc' = [ pc EXCEPT ![t] = "idle" ] /\ seen' = [ seen EXCEPT ![t] = C!Unseen ]
      BY <1>9 DEF C!HandleWakeup, C!Goto, C!Forget
    <2>4. /\ pc' = [ u \in C!Threads |-> pc'[u] ] /\ pc'[t] = "idle"
          /\ \A u \in C!Threads : u # t => pc'[u] = pc[u]
          /\ seen' = [ u \in C!Threads |-> seen'[u] ]
          /\ \A u \in C!Threads : u # t => seen'[u] = seen[u]
      BY <1>a, <2>3 DEF CTyped
    <2>5. t \in { "queue", "key" } \/ t \in LidTasks
      BY <1>a, <2>1, ThreadNames DEF ThreadsTyped, Waking, Suspending
    <2>6. CTyped'
      BY <1>a, <2>1, <2>2, <2>4, <2>5, ThreadNames DEF CTyped, Waking, Suspending
    <2>7. ThreadsTyped'
      BY <1>a, <2>1, <2>2, <2>4, <2>5, ThreadNames DEF ThreadsTyped, Waking, Suspending
    <2>8. TimerIsOfCover' /\ WakeupIsOfCover' /\ WakeupSaw'
      BY <1>a, <2>1, <2>2, <2>4, <2>5, ThreadNames DEF ThreadsTyped, Waking, Suspending,
         TimerIsOfCover, WakeupIsOfCover, WakeupSaw
    <2>9. ~overtaken' => Calm'
      BY <1>a, <2>1, <2>2, <2>4, <2>5, ThreadNames DEF ThreadsTyped, Waking, Suspending, CTyped,
         Calm, WorkerIsOfCover, InternalIsOn, OnIsComing, InternalOffIsComing, NoScreenIsComing,
         OffIsComing, TimerIsOfCover, WakeupIsOfCover, WakeupSaw
    <2> QED BY <2>6, <2>7, <2>8, <2>9 DEF CInv, Calm
  <1>10. ASSUME NEW t \in C!Threads, C!HandleWakeup(t),
                 ~C!IsPowerOnInernalScreenOnlyScene(t), on, reason[t] = "key"
          PROVE CInv'
    <2>1. /\ pc[t] = "wake" /\ on /\ reason[t] = "key"
          /\ UNCHANGED << lid, cover, screens, on, internal, timer, reason, overtaken >>
      BY <1>10 DEF C!HandleWakeup, C!product
    <2>2. pc' = [ pc EXCEPT ![t] = "idle" ] /\ seen' = [ seen EXCEPT ![t] = C!Unseen ]
      BY <1>10 DEF C!HandleWakeup, C!Goto, C!Forget
    <2>3. /\ pc' = [ u \in C!Threads |-> pc'[u] ] /\ pc'[t] = "idle"
          /\ \A u \in C!Threads : u # t => pc'[u] = pc[u]
          /\ seen' = [ u \in C!Threads |-> seen'[u] ]
          /\ \A u \in C!Threads : u # t => seen'[u] = seen[u]
      BY <1>a, <2>2 DEF CTyped
    <2>4. t \in { "queue", "key" } \/ t \in LidTasks
      BY <1>a, <2>1, ThreadNames DEF ThreadsTyped, Waking, Suspending
    <2>5. CTyped'
      BY <1>a, <2>1, <2>3, <2>4, ThreadNames DEF CTyped, Waking, Suspending
    <2>6. ThreadsTyped'
      BY <1>a, <2>1, <2>3, <2>4, ThreadNames DEF ThreadsTyped, Waking, Suspending
    <2>7. TimerIsOfCover' /\ WakeupIsOfCover' /\ WakeupSaw'
      BY <1>a, <2>1, <2>3, <2>4, ThreadNames DEF ThreadsTyped, Waking, Suspending, TimerIsOfCover,
         WakeupIsOfCover, WakeupSaw
    <2>8. ~overtaken' => Calm'
      BY <1>a, <2>1, <2>3, <2>4, ThreadNames DEF ThreadsTyped, Waking, Suspending, CTyped, Calm,
         WorkerIsOfCover, InternalIsOn, OnIsComing, InternalOffIsComing, NoScreenIsComing,
         OffIsComing, TimerIsOfCover, WakeupIsOfCover, WakeupSaw
    <2> QED BY <2>5, <2>6, <2>7, <2>8 DEF CInv, Calm
  <1>11. ASSUME NEW t \in C!Threads, C!HandleWakeup(t),
                 ~C!IsPowerOnInernalScreenOnlyScene(t), ~(on /\ reason[t] = "key")
          PROVE CInv'
    <2>1. /\ pc[t] = "wake" /\ on' = TRUE
          /\ UNCHANGED << lid, cover, screens, timer, reason, seen >>
      BY <1>11 DEF C!HandleWakeup, C!product
    <2>2. /\ internal' \in BOOLEAN
          /\ internal' <=> internal \/ ~on \/ (cover = "open" /\ reason[t] = IF lid THEN "lid" ELSE "switch")
      BY <1>11, Zenon DEF C!HandleWakeup, C!HandleOnlySecondScreenWhenCoverOpen, C!IsLidOrSwitchOpen
    <2>3. ~overtaken' =>
            ~overtaken /\ (cover = "open" \/ timer # "none" \/ (~seen[t].open /\ (seen[t].some <=> screens > 0)))
      <3>1. ~overtaken' => ~overtaken /\ ~(cover # "open" /\ timer = "none"
                                           /\ << seen[t].open, seen[t].some >> # << C!Now.open, C!Now.some >>)
        BY <1>11, Zenon DEF C!HandleWakeup, C!IsLidOrSwitchOpen
      <3>2. << seen[t].open, seen[t].some >> = << C!Now.open, C!Now.some >> =>
               seen[t].open = C!Now.open /\ seen[t].some = C!Now.some
        OBVIOUS
      <3>3. (C!Now.open <=> cover = "open") /\ (C!Now.some <=> screens > 0)
        BY Zenon DEF C!Now, C!IsLidOrSwitchOpen
      <3> QED BY <3>1, <3>2, <3>3, Zenon
    <2>4. pc' = [ pc EXCEPT ![t] = "woken" ]
      BY <1>11 DEF C!HandleWakeup, C!Goto
    <2>5. /\ pc' = [ u \in C!Threads |-> pc'[u] ] /\ pc'[t] = "woken"
          /\ \A u \in C!Threads : u # t => pc'[u] = pc[u]
      BY <1>a, <2>4 DEF CTyped
    <2>6. t \in { "queue", "key" } \/ t \in LidTasks
      BY <1>a, <2>1, ThreadNames DEF ThreadsTyped, Waking, Suspending
    <2>7. CTyped'
      BY <1>a, <2>1, <2>2, <2>3, <2>5, <2>6, ThreadNames DEF CTyped, Waking, Suspending
    <2>8. ThreadsTyped'
      BY <1>a, <2>1, <2>2, <2>3, <2>5, <2>6, ThreadNames DEF ThreadsTyped, Waking, Suspending
    <2>9. TimerIsOfCover' /\ WakeupIsOfCover' /\ WakeupSaw'
      BY <1>a, <2>1, <2>2, <2>3, <2>5, <2>6, ThreadNames DEF ThreadsTyped, Waking, Suspending,
         TimerIsOfCover, WakeupIsOfCover, WakeupSaw
    <2>10. ~overtaken' => Calm'
      BY <1>a, <2>1, <2>2, <2>3, <2>5, <2>6, ThreadNames DEF ThreadsTyped, Waking, Suspending,
         CTyped, Calm, WorkerIsOfCover, InternalIsOn, OnIsComing, InternalOffIsComing,
         NoScreenIsComing, OffIsComing, TimerIsOfCover, WakeupIsOfCover, WakeupSaw
    <2> QED BY <2>7, <2>8, <2>9, <2>10 DEF CInv, Calm
  <1>12. ASSUME NEW t \in C!Threads, C!HandleOnlySecondScreenWhenWakeup(t) PROVE CInv'
    <2>1. /\ pc[t] = "woken"
          /\ UNCHANGED << lid, cover, screens, on, timer, reason >>
      BY <1>12 DEF C!HandleOnlySecondScreenWhenWakeup, C!product
    <2>2. internal' \in BOOLEAN
          /\ (internal' <=> internal /\ ~(screens > 0 /\ cover # "open" /\ reason[t] = "key"))
      BY <1>12, Zenon DEF C!HandleOnlySecondScreenWhenWakeup, C!IsLidOrSwitchOpen
    <2>3. ~overtaken' => ~overtaken /\ ~(seen[t].some /\ screens = 0 /\ cover # "open" /\ timer = "none")
      BY <1>12, Zenon DEF C!HandleOnlySecondScreenWhenWakeup, C!IsLidOrSwitchOpen
    <2>4. pc' = [ pc EXCEPT ![t] = "idle" ] /\ seen' = [ seen EXCEPT ![t] = C!Unseen ]
      BY <1>12 DEF C!HandleOnlySecondScreenWhenWakeup, C!Goto, C!Forget
    <2>5. /\ pc' = [ u \in C!Threads |-> pc'[u] ] /\ pc'[t] = "idle"
          /\ \A u \in C!Threads : u # t => pc'[u] = pc[u]
          /\ seen' = [ u \in C!Threads |-> seen'[u] ]
          /\ \A u \in C!Threads : u # t => seen'[u] = seen[u]
      BY <1>a, <2>4 DEF CTyped
    <2>6. t \in { "queue", "key" } \/ t \in LidTasks
      BY <1>a, <2>1, ThreadNames DEF ThreadsTyped, Waking, Suspending
    <2>7. CTyped'
      BY <1>a, <2>1, <2>2, <2>3, <2>5, <2>6, ThreadNames DEF CTyped, Waking, Suspending
    <2>8. ThreadsTyped'
      BY <1>a, <2>1, <2>2, <2>3, <2>5, <2>6, ThreadNames DEF ThreadsTyped, Waking, Suspending
    <2>9. TimerIsOfCover' /\ WakeupIsOfCover' /\ WakeupSaw'
      BY <1>a, <2>1, <2>2, <2>3, <2>5, <2>6, ThreadNames DEF ThreadsTyped, Waking, Suspending,
         TimerIsOfCover, WakeupIsOfCover, WakeupSaw
    <2>10. ~overtaken' => Calm'
      BY <1>a, <2>1, <2>2, <2>3, <2>5, <2>6, ThreadNames DEF ThreadsTyped, Waking, Suspending,
         CTyped, Calm, WorkerIsOfCover, InternalIsOn, OnIsComing, InternalOffIsComing,
         NoScreenIsComing, OffIsComing, TimerIsOfCover, WakeupIsOfCover, WakeupSaw
    <2> QED BY <2>7, <2>8, <2>9, <2>10 DEF CInv, Calm
  <1>13. ASSUME C!OnInputEvent PROVE CInv'
    <2>1. /\ ~on /\ pc["key"] = "idle"
          /\ UNCHANGED << lid, cover, screens, on, internal, timer, seen, overtaken >>
      BY <1>13 DEF C!OnInputEvent, C!product
    <2>2. /\ pc' = [ pc EXCEPT !["key"] = "wakeup" ]
          /\ reason' = [ reason EXCEPT !["key"] = "key" ]
      BY <1>13 DEF C!OnInputEvent, C!Start, C!Goto
    <2>3. /\ pc' = [ u \in C!Threads |-> pc'[u] ] /\ pc'["key"] = "wakeup"
          /\ \A u \in C!Threads : u # "key" => pc'[u] = pc[u] /\ reason'[u] = reason[u]
          /\ reason' = [ u \in C!Threads |-> reason'[u] ] /\ reason'["key"] = "key"
      BY <1>a, <2>2, ThreadNames DEF CTyped
    <2>4. CTyped'
      BY <1>a, <2>1, <2>3, ThreadNames DEF CTyped, Waking, Suspending
    <2>5. ThreadsTyped'
      BY <1>a, <2>1, <2>3, ThreadNames DEF ThreadsTyped, Waking, Suspending
    <2>6. TimerIsOfCover' /\ WakeupIsOfCover' /\ WakeupSaw'
      BY <1>a, <2>1, <2>3, ThreadNames DEF ThreadsTyped, Waking, Suspending, TimerIsOfCover,
         WakeupIsOfCover, WakeupSaw
    <2>7. ~overtaken' => Calm'
      BY <1>a, <2>1, <2>3, ThreadNames DEF ThreadsTyped, Waking, Suspending, CTyped, Calm,
         WorkerIsOfCover, InternalIsOn, OnIsComing, InternalOffIsComing, NoScreenIsComing,
         OffIsComing, TimerIsOfCover, WakeupIsOfCover, WakeupSaw
    <2> QED BY <2>4, <2>5, <2>6, <2>7 DEF CInv, Calm
  <1>14. ASSUME C!WakeupDevice PROVE CInv'
    <2>1. /\ pc["client"] = "idle"
          /\ UNCHANGED << lid, cover, screens, on, internal, timer, reason, seen, overtaken >>
      BY <1>14 DEF C!WakeupDevice, C!product
    <2>2. pc' = [ pc EXCEPT !["client"] = "clientCheck" ]
      BY <1>14 DEF C!WakeupDevice, C!Goto
    <2>3. /\ pc' = [ u \in C!Threads |-> pc'[u] ] /\ pc'["client"] = "clientCheck"
          /\ \A u \in C!Threads : u # "client" => pc'[u] = pc[u]
      BY <1>a, <2>2, ThreadNames DEF CTyped
    <2>4. CTyped'
      BY <1>a, <2>1, <2>3, ThreadNames DEF CTyped, Waking, Suspending
    <2>5. ThreadsTyped'
      BY <1>a, <2>1, <2>3, ThreadNames DEF ThreadsTyped, Waking, Suspending
    <2>6. TimerIsOfCover' /\ WakeupIsOfCover' /\ WakeupSaw'
      BY <1>a, <2>1, <2>3, ThreadNames DEF ThreadsTyped, Waking, Suspending, TimerIsOfCover,
         WakeupIsOfCover, WakeupSaw
    <2>7. ~overtaken' => Calm'
      BY <1>a, <2>1, <2>3, ThreadNames DEF ThreadsTyped, Waking, Suspending, CTyped, Calm,
         WorkerIsOfCover, InternalIsOn, OnIsComing, InternalOffIsComing, NoScreenIsComing,
         OffIsComing, TimerIsOfCover, WakeupIsOfCover, WakeupSaw
    <2> QED BY <2>4, <2>5, <2>6, <2>7 DEF CInv, Calm
  <1>15. ASSUME NEW t \in C!Threads, C!IsWakeupDeviceSkip(t) PROVE CInv'
    <2>1. /\ pc[t] = "clientCheck"
          /\ UNCHANGED << lid, cover, screens, on, internal, timer, reason, seen, overtaken >>
      BY <1>15 DEF C!IsWakeupDeviceSkip, C!product
    <2>2. PICK label : pc' = [ pc EXCEPT ![t] = label ] /\ label \in { "clientWake", "idle" }
      BY <1>15 DEF C!IsWakeupDeviceSkip, C!Goto
    <2>3. /\ pc' = [ u \in C!Threads |-> pc'[u] ] /\ pc'[t] = label
          /\ \A u \in C!Threads : u # t => pc'[u] = pc[u]
      BY <1>a, <2>2 DEF CTyped
    <2>4. t \in { "client", "screen" }
      BY <1>a, <2>1, ThreadNames DEF ThreadsTyped, Waking, Suspending
    <2>5. CTyped'
      BY <1>a, <2>1, <2>2, <2>3, <2>4, ThreadNames DEF CTyped, Waking, Suspending
    <2>6. ThreadsTyped'
      BY <1>a, <2>1, <2>2, <2>3, <2>4, ThreadNames DEF ThreadsTyped, Waking, Suspending
    <2>7. TimerIsOfCover' /\ WakeupIsOfCover' /\ WakeupSaw'
      BY <1>a, <2>1, <2>2, <2>3, <2>4, ThreadNames DEF ThreadsTyped, Waking, Suspending,
         TimerIsOfCover, WakeupIsOfCover, WakeupSaw
    <2>8. ~overtaken' => Calm'
      BY <1>a, <2>1, <2>2, <2>3, <2>4, ThreadNames DEF ThreadsTyped, Waking, Suspending, CTyped,
         Calm, WorkerIsOfCover, InternalIsOn, OnIsComing, InternalOffIsComing, NoScreenIsComing,
         OffIsComing, TimerIsOfCover, WakeupIsOfCover, WakeupSaw
    <2> QED BY <2>5, <2>6, <2>7, <2>8 DEF CInv, Calm
  <1>16. ASSUME NEW t \in C!Threads, C!WakeupDeviceInner(t) PROVE CInv'
    <2>1. /\ pc[t] = "clientWake" /\ on' = TRUE
          /\ UNCHANGED << lid, cover, screens, timer, reason, seen >>
      BY <1>16 DEF C!WakeupDeviceInner, C!SetStateAwake, C!product
    <2>2. internal' \in BOOLEAN /\ (internal' <=> internal \/ ~on)
      BY <1>16, Zenon DEF C!WakeupDeviceInner, C!SetStateAwake
    <2>3. ~overtaken' => ~overtaken /\ ~(cover # "open" /\ ~on /\ timer = "none")
      BY <1>16, Zenon DEF C!WakeupDeviceInner, C!IsLidOrSwitchOpen
    <2>4. pc' = [ pc EXCEPT ![t] = "idle" ]
      BY <1>16 DEF C!WakeupDeviceInner, C!Goto
    <2>5. /\ pc' = [ u \in C!Threads |-> pc'[u] ] /\ pc'[t] = "idle"
          /\ \A u \in C!Threads : u # t => pc'[u] = pc[u]
      BY <1>a, <2>4 DEF CTyped
    <2>6. t \in { "client", "screen" }
      BY <1>a, <2>1, ThreadNames DEF ThreadsTyped, Waking, Suspending
    <2>7. CTyped'
      BY <1>a, <2>1, <2>2, <2>3, <2>5, <2>6, ThreadNames DEF CTyped, Waking, Suspending
    <2>8. ThreadsTyped'
      BY <1>a, <2>1, <2>2, <2>3, <2>5, <2>6, ThreadNames DEF ThreadsTyped, Waking, Suspending
    <2>9. TimerIsOfCover' /\ WakeupIsOfCover' /\ WakeupSaw'
      BY <1>a, <2>1, <2>2, <2>3, <2>5, <2>6, ThreadNames DEF ThreadsTyped, Waking, Suspending,
         TimerIsOfCover, WakeupIsOfCover, WakeupSaw
    <2>10. ~overtaken' => Calm'
      BY <1>a, <2>1, <2>2, <2>3, <2>5, <2>6, ThreadNames DEF ThreadsTyped, Waking, Suspending,
         CTyped, Calm, WorkerIsOfCover, InternalIsOn, OnIsComing, InternalOffIsComing,
         NoScreenIsComing, OffIsComing, TimerIsOfCover, WakeupIsOfCover, WakeupSaw
    <2> QED BY <2>7, <2>8, <2>9, <2>10 DEF CInv, Calm
  <1>17. ASSUME C!SuspendDeviceInner PROVE CInv'
    <2>1. /\ on' = FALSE /\ internal' \in BOOLEAN /\ ~internal'
          /\ UNCHANGED << lid, cover, screens, timer, pc, reason, seen, overtaken >>
      BY <1>17 DEF C!SuspendDeviceInner, C!SetStateInactive, C!product
    <2>2. CTyped'
      BY <1>a, <2>1, ThreadNames DEF CTyped, Waking, Suspending
    <2>3. ThreadsTyped'
      BY <1>a, <2>1, ThreadNames DEF ThreadsTyped, Waking, Suspending
    <2>4. TimerIsOfCover' /\ WakeupIsOfCover' /\ WakeupSaw'
      BY <1>a, <2>1, ThreadNames DEF ThreadsTyped, Waking, Suspending, TimerIsOfCover,
         WakeupIsOfCover, WakeupSaw
    <2>5. ~overtaken' => Calm'
      BY <1>a, <2>1, ThreadNames DEF ThreadsTyped, Waking, Suspending, CTyped, Calm,
         WorkerIsOfCover, InternalIsOn, OnIsComing, InternalOffIsComing, NoScreenIsComing,
         OffIsComing, TimerIsOfCover, WakeupIsOfCover, WakeupSaw
    <2> QED BY <2>2, <2>3, <2>4, <2>5 DEF CInv, Calm
  <1>18. ASSUME NEW n \in 1..MaxScreens, C!ExternalScreenInit(n) PROVE CInv'
    <2>1. /\ pc["screen"] = "idle" /\ C!Look("screen") /\ screens' \in Nat /\ screens' # 0
          /\ UNCHANGED << lid, cover, on, internal, timer, reason, overtaken >>
      BY <1>a, <1>18 DEF CTyped, C!ExternalScreenInit, C!product, C!CountEvent
    <2>2. pc' = [ pc EXCEPT !["screen"] = "init" ]
      BY <1>18 DEF C!ExternalScreenInit, C!Goto
    <2>3. /\ pc' = [ u \in C!Threads |-> pc'[u] ] /\ pc'["screen"] = "init"
          /\ \A u \in C!Threads : u # "screen" => pc'[u] = pc[u]
      BY <1>a, <2>2, ThreadNames DEF CTyped
    <2>4. /\ seen' = [ u \in C!Threads |-> seen'[u] ]
          /\ \A u \in C!Threads : u # "screen" => seen'[u] = seen[u]
          /\ seen'["screen"].open <=> cover = "open"
      BY <1>a, <2>1, ThreadNames, LookSees
    <2>5. CTyped'
      BY <1>a, <2>1, <2>3, <2>4, ThreadNames DEF CTyped, Waking, Suspending
    <2>6. ThreadsTyped'
      BY <1>a, <2>1, <2>3, <2>4, ThreadNames DEF ThreadsTyped, Waking, Suspending
    <2>7. TimerIsOfCover' /\ WakeupIsOfCover' /\ WakeupSaw'
      BY <1>a, <2>1, <2>3, <2>4, ThreadNames DEF ThreadsTyped, Waking, Suspending, TimerIsOfCover,
         WakeupIsOfCover, WakeupSaw
    <2>8. ~overtaken' => Calm'
      BY <1>a, <2>1, <2>3, <2>4, ThreadNames DEF ThreadsTyped, Waking, Suspending, CTyped, Calm,
         WorkerIsOfCover, InternalIsOn, OnIsComing, InternalOffIsComing, NoScreenIsComing,
         OffIsComing, TimerIsOfCover, WakeupIsOfCover, WakeupSaw
    <2> QED BY <2>5, <2>6, <2>7, <2>8 DEF CInv, Calm
  <1>19. ASSUME C!OnConnect PROVE CInv'
    <2>1. /\ pc["screen"] = "idle" /\ C!Look("screen") /\ screens' \in Nat /\ screens' # 0
          /\ UNCHANGED << lid, cover, on, internal, timer, reason, overtaken >>
      BY <1>a, <1>19 DEF CTyped, C!OnConnect, C!product, C!CountEvent
    <2>2. pc' = [ pc EXCEPT !["screen"] = "connected" ]
      BY <1>19 DEF C!OnConnect, C!Goto
    <2>3. /\ pc' = [ u \in C!Threads |-> pc'[u] ] /\ pc'["screen"] = "connected"
          /\ \A u \in C!Threads : u # "screen" => pc'[u] = pc[u]
      BY <1>a, <2>2, ThreadNames DEF CTyped
    <2>4. /\ seen' = [ u \in C!Threads |-> seen'[u] ]
          /\ \A u \in C!Threads : u # "screen" => seen'[u] = seen[u]
          /\ seen'["screen"].open <=> cover = "open"
      BY <1>a, <2>1, ThreadNames, LookSees
    <2>5. CTyped'
      BY <1>a, <2>1, <2>3, <2>4, ThreadNames DEF CTyped, Waking, Suspending
    <2>6. ThreadsTyped'
      BY <1>a, <2>1, <2>3, <2>4, ThreadNames DEF ThreadsTyped, Waking, Suspending
    <2>7. TimerIsOfCover' /\ WakeupIsOfCover' /\ WakeupSaw'
      BY <1>a, <2>1, <2>3, <2>4, ThreadNames DEF ThreadsTyped, Waking, Suspending, TimerIsOfCover,
         WakeupIsOfCover, WakeupSaw
    <2>8. ~overtaken' => Calm'
      BY <1>a, <2>1, <2>3, <2>4, ThreadNames DEF ThreadsTyped, Waking, Suspending, CTyped, Calm,
         WorkerIsOfCover, InternalIsOn, OnIsComing, InternalOffIsComing, NoScreenIsComing,
         OffIsComing, TimerIsOfCover, WakeupIsOfCover, WakeupSaw
    <2> QED BY <2>5, <2>6, <2>7, <2>8 DEF CInv, Calm
  <1>20. ASSUME C!OnDisconnect PROVE CInv'
    <2>1. /\ pc["screen"] = "idle" /\ C!Look("screen") /\ screens' \in Nat
          /\ UNCHANGED << lid, cover, on, internal, timer, reason, overtaken >>
      BY <1>a, <1>20 DEF CTyped, C!OnDisconnect, C!product, C!CountEvent
    <2>2. pc' = [ pc EXCEPT !["screen"] = "disconnected" ]
      BY <1>20 DEF C!OnDisconnect, C!Goto
    <2>3. /\ pc' = [ u \in C!Threads |-> pc'[u] ] /\ pc'["screen"] = "disconnected"
          /\ \A u \in C!Threads : u # "screen" => pc'[u] = pc[u]
      BY <1>a, <2>2, ThreadNames DEF CTyped
    <2>4. /\ seen' = [ u \in C!Threads |-> seen'[u] ]
          /\ \A u \in C!Threads : u # "screen" => seen'[u] = seen[u]
          /\ seen'["screen"].open <=> cover = "open"
      BY <1>a, <2>1, ThreadNames, LookSees
    <2>5. CTyped'
      BY <1>a, <2>1, <2>3, <2>4, ThreadNames DEF CTyped, Waking, Suspending
    <2>6. ThreadsTyped'
      BY <1>a, <2>1, <2>3, <2>4, ThreadNames DEF ThreadsTyped, Waking, Suspending
    <2>7. TimerIsOfCover' /\ WakeupIsOfCover' /\ WakeupSaw'
      BY <1>a, <2>1, <2>3, <2>4, ThreadNames DEF ThreadsTyped, Waking, Suspending, TimerIsOfCover,
         WakeupIsOfCover, WakeupSaw
    <2>8. ~overtaken' => Calm'
      BY <1>a, <2>1, <2>3, <2>4, ThreadNames DEF ThreadsTyped, Waking, Suspending, CTyped, Calm,
         WorkerIsOfCover, InternalIsOn, OnIsComing, InternalOffIsComing, NoScreenIsComing,
         OffIsComing, TimerIsOfCover, WakeupIsOfCover, WakeupSaw
    <2> QED BY <2>5, <2>6, <2>7, <2>8 DEF CInv, Calm
  <1>21. ASSUME C!NotifyAbnormalScreenConnectChange PROVE CInv'
    <2>1. /\ pc["screen"] = "idle" /\ C!Look("screen") /\ screens > 0
          /\ UNCHANGED << lid, cover, on, internal, timer, reason, overtaken, screens >>
      BY <1>a, <1>21 DEF CTyped, C!NotifyAbnormalScreenConnectChange, C!product, C!CountEvent
    <2>2. pc' = [ pc EXCEPT !["screen"] = "abnormal" ]
      BY <1>21 DEF C!NotifyAbnormalScreenConnectChange, C!Goto
    <2>3. /\ pc' = [ u \in C!Threads |-> pc'[u] ] /\ pc'["screen"] = "abnormal"
          /\ \A u \in C!Threads : u # "screen" => pc'[u] = pc[u]
      BY <1>a, <2>2, ThreadNames DEF CTyped
    <2>4. /\ seen' = [ u \in C!Threads |-> seen'[u] ]
          /\ \A u \in C!Threads : u # "screen" => seen'[u] = seen[u]
          /\ seen'["screen"].open <=> cover = "open"
      BY <1>a, <2>1, ThreadNames, LookSees
    <2>5. CTyped'
      BY <1>a, <2>1, <2>3, <2>4, ThreadNames DEF CTyped, Waking, Suspending
    <2>6. ThreadsTyped'
      BY <1>a, <2>1, <2>3, <2>4, ThreadNames DEF ThreadsTyped, Waking, Suspending
    <2>7. TimerIsOfCover' /\ WakeupIsOfCover' /\ WakeupSaw'
      BY <1>a, <2>1, <2>3, <2>4, ThreadNames DEF ThreadsTyped, Waking, Suspending, TimerIsOfCover,
         WakeupIsOfCover, WakeupSaw
    <2>8. ~overtaken' => Calm'
      BY <1>a, <2>1, <2>3, <2>4, ThreadNames DEF ThreadsTyped, Waking, Suspending, CTyped, Calm,
         WorkerIsOfCover, InternalIsOn, OnIsComing, InternalOffIsComing, NoScreenIsComing,
         OffIsComing, TimerIsOfCover, WakeupIsOfCover, WakeupSaw
    <2> QED BY <2>5, <2>6, <2>7, <2>8 DEF CInv, Calm
  <1>22. ASSUME C!ExternalScreenInitActs PROVE CInv'
    <2>1. /\ pc["screen"] = "init"
          /\ UNCHANGED << lid, cover, screens, on, timer, reason >>
      BY <1>22 DEF C!ExternalScreenInitActs, C!product
    <2>2. ~overtaken' => ~overtaken /\ seen["screen"].open \in BOOLEAN
                          /\ (seen["screen"].open <=> cover = "open") /\ (seen["screen"].on <=> on)
      <3>1. ~overtaken' => ~overtaken /\ ~C!Stale
        BY <1>22, Zenon DEF C!ExternalScreenInitActs
      <3> QED BY <3>1, NotStale
    <2>3. internal' \in BOOLEAN /\ (internal' <=> seen["screen"].on /\ seen["screen"].open)
      BY <1>22, Zenon DEF C!ExternalScreenInitActs
    <2>4. PICK label : /\ pc' = [ pc EXCEPT !["screen"] = label ] /\ label \in { "idle", "clientCheck" }
                       /\ seen' = [ seen EXCEPT !["screen"] = C!Unseen ]
      BY <1>22 DEF C!ExternalScreenInitActs, C!Goto, C!Forget
    <2>5. /\ pc' = [ u \in C!Threads |-> pc'[u] ] /\ pc'["screen"] = label
          /\ \A u \in C!Threads : u # "screen" => pc'[u] = pc[u]
          /\ seen' = [ u \in C!Threads |-> seen'[u] ]
          /\ \A u \in C!Threads : u # "screen" => seen'[u] = seen[u]
      BY <1>a, <2>4, ThreadNames DEF CTyped
    <2>6. CTyped'
      BY <1>a, <2>1, <2>2, <2>3, <2>4, <2>5, ThreadNames DEF CTyped, Waking, Suspending
    <2>7. ThreadsTyped'
      BY <1>a, <2>1, <2>2, <2>3, <2>4, <2>5, ThreadNames DEF ThreadsTyped, Waking, Suspending
    <2>8. TimerIsOfCover' /\ WakeupIsOfCover' /\ WakeupSaw'
      BY <1>a, <2>1, <2>2, <2>3, <2>4, <2>5, ThreadNames DEF ThreadsTyped, Waking, Suspending,
         TimerIsOfCover, WakeupIsOfCover, WakeupSaw
    <2>9. ~overtaken' => Calm'
      BY <1>a, <2>1, <2>2, <2>3, <2>4, <2>5, ThreadNames DEF ThreadsTyped, Waking, Suspending,
         CTyped, Calm, WorkerIsOfCover, InternalIsOn, OnIsComing, InternalOffIsComing,
         NoScreenIsComing, OffIsComing, TimerIsOfCover, WakeupIsOfCover, WakeupSaw
    <2> QED BY <2>6, <2>7, <2>8, <2>9 DEF CInv, Calm
  <1>23. ASSUME C!OnConnectActs PROVE CInv'
    <2>1. /\ pc["screen"] = "connected"
          /\ UNCHANGED << lid, cover, screens, on, timer, reason >>
      BY <1>23 DEF C!OnConnectActs, C!product
    <2>2. ~overtaken' => ~overtaken /\ seen["screen"].open \in BOOLEAN
                          /\ (seen["screen"].open <=> cover = "open") /\ (seen["screen"].on <=> on)
      <3>1. ~overtaken' => ~overtaken /\ ~C!Stale
        BY <1>23, Zenon DEF C!OnConnectActs
      <3> QED BY <3>1, NotStale
    <2>3. /\ seen["screen"].open /\ seen["screen"].on => internal' /\ internal' \in BOOLEAN
          /\ seen["screen"].open /\ ~seen["screen"].on => internal' = internal
          /\ ~seen["screen"].open => (internal' \in BOOLEAN /\ ~internal') \/ internal' = internal
      BY <1>23 DEF C!OnConnectActs
    <2>4. PICK label : /\ pc' = [ pc EXCEPT !["screen"] = label ] /\ label \in { "idle", "clientCheck" }
                       /\ seen' = [ seen EXCEPT !["screen"] = C!Unseen ]
      BY <1>23 DEF C!OnConnectActs, C!Goto, C!Forget
    <2>5. /\ pc' = [ u \in C!Threads |-> pc'[u] ] /\ pc'["screen"] = label
          /\ \A u \in C!Threads : u # "screen" => pc'[u] = pc[u]
          /\ seen' = [ u \in C!Threads |-> seen'[u] ]
          /\ \A u \in C!Threads : u # "screen" => seen'[u] = seen[u]
      BY <1>a, <2>4, ThreadNames DEF CTyped
    <2>6. CTyped'
      BY <1>a, <2>1, <2>2, <2>3, <2>4, <2>5, ThreadNames DEF CTyped, Waking, Suspending
    <2>7. ThreadsTyped'
      BY <1>a, <2>1, <2>2, <2>3, <2>4, <2>5, ThreadNames DEF ThreadsTyped, Waking, Suspending
    <2>8. TimerIsOfCover' /\ WakeupIsOfCover' /\ WakeupSaw'
      BY <1>a, <2>1, <2>2, <2>3, <2>4, <2>5, ThreadNames DEF ThreadsTyped, Waking, Suspending,
         TimerIsOfCover, WakeupIsOfCover, WakeupSaw
    <2>9. ~overtaken' => Calm'
      BY <1>a, <2>1, <2>2, <2>3, <2>4, <2>5, ThreadNames DEF ThreadsTyped, Waking, Suspending,
         CTyped, Calm, WorkerIsOfCover, InternalIsOn, OnIsComing, InternalOffIsComing,
         NoScreenIsComing, OffIsComing, TimerIsOfCover, WakeupIsOfCover, WakeupSaw
    <2> QED BY <2>6, <2>7, <2>8, <2>9 DEF CInv, Calm
  <1>24. ASSUME C!OnDisconnectActs PROVE CInv'
    <2>1. /\ pc["screen"] = "disconnected"
          /\ UNCHANGED << lid, cover, screens, on, reason >>
      BY <1>24 DEF C!OnDisconnectActs, C!product
    <2>2. ~overtaken' => ~overtaken /\ seen["screen"].open \in BOOLEAN
                          /\ (seen["screen"].open <=> cover = "open") /\ (seen["screen"].on <=> on)
      <3>1. ~overtaken' => ~overtaken /\ ~C!Stale
        BY <1>24, Zenon DEF C!OnDisconnectActs
      <3> QED BY <3>1, NotStale
    <2>3. /\ timer' \in { timer, "suspend" } /\ internal' = internal
          /\ ~seen["screen"].open /\ screens = 0 => timer' = "suspend"
      BY <1>24 DEF C!OnDisconnectActs, C!ExecMonitorByReason
    <2>4. PICK label : /\ pc' = [ pc EXCEPT !["screen"] = label ] /\ label \in { "idle", "clientCheck" }
                       /\ seen' = [ seen EXCEPT !["screen"] = C!Unseen ]
      BY <1>24 DEF C!OnDisconnectActs, C!Goto, C!Forget
    <2>5. /\ pc' = [ u \in C!Threads |-> pc'[u] ] /\ pc'["screen"] = label
          /\ \A u \in C!Threads : u # "screen" => pc'[u] = pc[u]
          /\ seen' = [ u \in C!Threads |-> seen'[u] ]
          /\ \A u \in C!Threads : u # "screen" => seen'[u] = seen[u]
      BY <1>a, <2>4, ThreadNames DEF CTyped
    <2>6. CTyped'
      BY <1>a, <2>1, <2>2, <2>3, <2>4, <2>5, ThreadNames DEF CTyped, Waking, Suspending
    <2>7. ThreadsTyped'
      BY <1>a, <2>1, <2>2, <2>3, <2>4, <2>5, ThreadNames DEF ThreadsTyped, Waking, Suspending
    <2>8. TimerIsOfCover' /\ WakeupIsOfCover' /\ WakeupSaw'
      BY <1>a, <2>1, <2>2, <2>3, <2>4, <2>5, ThreadNames DEF ThreadsTyped, Waking, Suspending,
         TimerIsOfCover, WakeupIsOfCover, WakeupSaw
    <2>9. ~overtaken' => Calm'
      BY <1>a, <2>1, <2>2, <2>3, <2>4, <2>5, ThreadNames DEF ThreadsTyped, Waking, Suspending,
         CTyped, Calm, WorkerIsOfCover, InternalIsOn, OnIsComing, InternalOffIsComing,
         NoScreenIsComing, OffIsComing, TimerIsOfCover, WakeupIsOfCover, WakeupSaw
    <2> QED BY <2>6, <2>7, <2>8, <2>9 DEF CInv, Calm
  <1>25. ASSUME C!AbnormalActs PROVE CInv'
    <2>1. /\ pc["screen"] = "abnormal"
          /\ UNCHANGED << lid, cover, screens, on, timer, reason >>
      BY <1>25 DEF C!AbnormalActs, C!product
    <2>2. ~overtaken' => ~overtaken /\ seen["screen"].open \in BOOLEAN
                          /\ (seen["screen"].open <=> cover = "open") /\ (seen["screen"].on <=> on)
      <3>1. ~overtaken' => ~overtaken /\ ~C!Stale
        BY <1>25, Zenon DEF C!AbnormalActs
      <3> QED BY <3>1, NotStale
    <2>3. /\ seen["screen"].on => internal' = seen["screen"].open
          /\ ~seen["screen"].on => internal' = internal
      BY <1>25 DEF C!AbnormalActs
    <2>4. PICK label : /\ pc' = [ pc EXCEPT !["screen"] = label ] /\ label \in { "idle", "clientCheck" }
                       /\ seen' = [ seen EXCEPT !["screen"] = C!Unseen ]
      BY <1>25 DEF C!AbnormalActs, C!Goto, C!Forget
    <2>5. /\ pc' = [ u \in C!Threads |-> pc'[u] ] /\ pc'["screen"] = label
          /\ \A u \in C!Threads : u # "screen" => pc'[u] = pc[u]
          /\ seen' = [ u \in C!Threads |-> seen'[u] ]
          /\ \A u \in C!Threads : u # "screen" => seen'[u] = seen[u]
      BY <1>a, <2>4, ThreadNames DEF CTyped
    <2>6. CTyped'
      BY <1>a, <2>1, <2>2, <2>3, <2>4, <2>5, ThreadNames DEF CTyped, Waking, Suspending
    <2>7. ThreadsTyped'
      BY <1>a, <2>1, <2>2, <2>3, <2>4, <2>5, ThreadNames DEF ThreadsTyped, Waking, Suspending
    <2>8. TimerIsOfCover' /\ WakeupIsOfCover' /\ WakeupSaw'
      BY <1>a, <2>1, <2>2, <2>3, <2>4, <2>5, ThreadNames DEF ThreadsTyped, Waking, Suspending,
         TimerIsOfCover, WakeupIsOfCover, WakeupSaw
    <2>9. ~overtaken' => Calm'
      BY <1>a, <2>1, <2>2, <2>3, <2>4, <2>5, ThreadNames DEF ThreadsTyped, Waking, Suspending,
         CTyped, Calm, WorkerIsOfCover, InternalIsOn, OnIsComing, InternalOffIsComing,
         NoScreenIsComing, OffIsComing, TimerIsOfCover, WakeupIsOfCover, WakeupSaw
    <2> QED BY <2>6, <2>7, <2>8, <2>9 DEF CInv, Calm
  <1>26. CASE UNCHANGED C!vars
    BY <1>a, <1>26 DEF C!vars, CInv, ThreadsTyped, CTyped, TimerIsOfCover, WakeupIsOfCover,
       WakeupSaw, Calm, WorkerIsOfCover, InternalIsOn, OffIsComing, OnIsComing, InternalOffIsComing,
       NoScreenIsComing
  <1> QED BY <1>1, <1>2, <1>3, <1>4, <1>5, <1>6, <1>7, <1>8, <1>9, <1>10, <1>11, <1>12, <1>13,
             <1>14, <1>15, <1>16, <1>17, <1>18, <1>19, <1>20, <1>21, <1>22, <1>23, <1>24, <1>25,
             <1>26 DEF C!Next

\* When every task has ended the internal screen is on exactly when the device is on and its cover
\* open, and with the cover closed and no external screen the device is off, however events of the
\* cover and the screens, keys and clients overlap, for any number of them and any workers
\* (SuspendController::ControlListener, WakeupController::ControlListener, the screen listener).
THEOREM InternalScreenFollows == ASSUME WorkersAreOthers PROVE C!Spec => []C!InternalScreenFollowsCover
  <1>1. CInv => C!InternalScreenFollowsCover
    <2> SUFFICES ASSUME CInv, timer = "none", \A t \in C!Threads : pc[t] = "idle", ~overtaken
                 PROVE  /\ internal = (on /\ cover = "open")
                        /\ cover # "open" /\ screens = 0 => ~on
      BY DEF C!InternalScreenFollowsCover, C!IsLidOrSwitchOpen
    <2>1. Calm /\ ~OffIsComing
      BY ThreadNames DEF CInv, OffIsComing, Suspending
    <2>2. internal \in BOOLEAN /\ (internal => on)
      BY <2>1 DEF Calm, InternalIsOn
    <2>3. internal /\ cover # "open" => FALSE
      BY <2>1, ThreadNames DEF Calm, InternalOffIsComing
    <2>4. on /\ cover = "open" => internal
      BY <2>1, ThreadNames DEF Calm, OnIsComing, Suspending
    <2>5. cover # "open" /\ screens = 0 => ~on
      BY <2>1, ThreadNames DEF Calm, NoScreenIsComing
    <2> QED BY <2>2, <2>3, <2>4, <2>5, Zenon
  <1> QED BY <1>1, CInit, CNext, PTL DEF C!Spec

===============================================================================
