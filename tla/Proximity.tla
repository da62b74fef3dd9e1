------------------------------- MODULE Proximity -------------------------------
(***************************************************************************)
(* The proximity lock of a call.  While a client holds it the proximity    *)
(* sensor is on: an object that comes close turns the screen off after a   *)
(* delay, or switches a folded device in a call to its second display, and *)
(* one that goes away undoes it.  The sensor's thread, the client's, the   *)
(* timers' queue and the tasks that wake the device up share the close     *)
(* mark and the timer.  SetState is one step here.                         *)
(***************************************************************************)
EXTENDS Naturals

CONSTANT MaxTasks    \* bound: tasks that wake the device up and have not run

VARIABLES
    hook,         \* the product replaces the sensor's controller and may ask for no delay
    callEnable,   \* isDuringCallStateEnable_
    duringCall,   \* isDuringCall_
    filtered,     \* isProximityCloseEventFiltered_
    held,         \* the proximity lock's counter is above 0
    supported, enabled, close,   \* of the controller
    subscribed,   \* external: the sensor service reports to us
    near,         \* external: something is close to the sensor
    reported,     \* external: what the sensor has reported since the subscription
    sensor,       \* where the sensor's thread is
    client,       \* where the client's call is
    screenOffTimer, timerStarted,   \* TIMER_ID_PROXIMITY_SCREEN_OFF, proximityScreenOffTimerStarted_
    fired,        \* the screen-off task runs and has not changed the state yet
    switchTimer,  \* TIMER_ID_PROXIMITY_SCREEN_SWITCH_TO_SUB
    display,      \* external: the display mode of a folded device
    tasks,        \* submitted tasks that wake the device up
    on,           \* the power state is AWAKE
    offBy,        \* history: why the screen went off
    overtaken     \* history: the lock or the object had gone when a close event was carried out,
                  \* and the sensor has not been disabled at rest since

config == << hook, callEnable >>
controller == << supported, enabled, close, subscribed >>
screenTimer == << screenOffTimer, timerStarted >>
call == << duringCall, filtered, display >>
vars == << config, call, controller, held, near, reported, sensor, client, screenTimer, fired,
           switchTimer, tasks, on, offBy, overtaken >>

TypeOK ==
    /\ { hook, callEnable, duringCall, filtered, held, supported, enabled, close, subscribed, near,
         screenOffTimer, timerStarted, fired, switchTimer, on, overtaken } \subseteq BOOLEAN
    /\ reported \in { "nothing", "near", "far" }
    /\ sensor \in { "idle", "close", "away", "closeMarked", "awayMarked", "arm", "flag", "screenOff" }
    /\ client \in { "idle", "enable", "disable" }
    /\ display \in { "main", "sub" } /\ tasks \in 0..MaxTasks
    /\ offBy \in { "nothing", "proximity", "other" }

Init ==
    /\ hook \in BOOLEAN /\ callEnable \in BOOLEAN
    /\ duringCall = FALSE /\ filtered = FALSE /\ held = FALSE /\ supported = FALSE /\ enabled = FALSE
    /\ close = FALSE /\ subscribed = FALSE /\ near = FALSE /\ screenOffTimer = FALSE
    /\ timerStarted = FALSE /\ fired = FALSE /\ switchTimer = FALSE /\ overtaken = FALSE /\ on = TRUE
    /\ reported = "nothing" /\ sensor = "idle" /\ client = "idle" /\ display = "main"
    /\ tasks = 0 /\ offBy = "nothing"

-------------------------------------------------------------------------------
(* What SetState does to the screen-off timer and to the screen *)

CancelDelayTimer == screenOffTimer' = FALSE /\ timerStarted' = FALSE

HandleProximityScreenOffTimer(state, reason) ==
    IF \/ ~timerStarted
       \/ reason \in { "DOUBLE_CLICK", "PICKUP" } /\ close /\ state = "AWAKE"
       \/ reason = "PROXIMITY" /\ state # "AWAKE"
    THEN UNCHANGED screenTimer
    ELSE CancelDelayTimer

\* A mutant of CanTransitTo: a screen-off of the sensor whose lock has gone is not refused.
CanTransitTo_NoLockCheck(state, reason) ==
    ~(state = "AWAKE" /\ reason \in { "DOUBLE_CLICK", "PICKUP", "PLUG_CHANGE" } /\ close)

\* CanTransitTo: what may not light the screen up while the sensor says close; and the sensor's own
\* screen-off, which may come late, needs a lock that is still held (IsRunningLockEnabled).  stateMutex_
\* keeps other transitions out until the state has changed.
CanTransitTo(state, reason) ==
    /\ ~(state = "AWAKE" /\ reason \in { "DOUBLE_CLICK", "PICKUP", "PLUG_CHANGE" } /\ close)
    /\ ~(state = "INACTIVE" /\ reason = "PROXIMITY" /\ ~held)

SetStateAwake(reason) ==
    /\ HandleProximityScreenOffTimer("AWAKE", reason)
    /\ IF CanTransitTo("AWAKE", reason) THEN on' = TRUE /\ offBy' = "nothing" ELSE UNCHANGED << on, offBy >>

SetStateInactive(reason) ==
    /\ HandleProximityScreenOffTimer("INACTIVE", reason)
    /\ IF on /\ CanTransitTo("INACTIVE", reason)
       THEN on' = FALSE /\ offBy' = IF reason = "PROXIMITY" THEN "proximity" ELSE "other"
       ELSE UNCHANGED << on, offBy >>

-------------------------------------------------------------------------------
(* The lock: LockCounter and the action of InitLocksTypeProximity *)

Lock ==
    /\ client = "idle" /\ ~held /\ held' = TRUE /\ client' = "enable"
    /\ UNCHANGED << config, call, controller, near, reported, sensor, screenTimer, fired, switchTimer, tasks,
                    on, offBy, overtaken >>

\* The sensors cannot be listed, or there is no proximity sensor.
InitProximitySensorUser == supported' \in { TRUE, supported }

\* The sensor service may refuse the subscription; the lock is taken all the same.
Enable ==
    /\ client = "enable" /\ client' = "idle" /\ enabled' = TRUE
    /\ InitProximitySensorUser
    /\ subscribed' \in (IF supported' THEN BOOLEAN ELSE { subscribed })
    /\ reported' = "nothing"
    /\ UNCHANGED << config, call, held, close, near, sensor, screenTimer, fired, switchTimer, tasks, on, offBy,
                    overtaken >>

\* The last holder is gone: the switch timer is cancelled and a task will wake the device up.
UnLock ==
    /\ client = "idle" /\ held /\ tasks < MaxTasks
    /\ held' = FALSE /\ switchTimer' = FALSE /\ tasks' = tasks + 1 /\ client' = "disable"
    /\ overtaken' = (overtaken \/ sensor # "idle")
    /\ UNCHANGED << config, call, controller, near, reported, sensor, screenTimer, fired, on, offBy >>

\* Disable and Clear; the sensor service may refuse.
Disable ==
    /\ client = "disable" /\ client' = "idle"
    /\ enabled' = FALSE /\ close' = FALSE
    /\ subscribed' \in { FALSE, subscribed }
    /\ overtaken' = (sensor # "idle" \/ (overtaken /\ (fired \/ screenOffTimer)))
    /\ UNCHANGED << config, call, supported, held, near, reported, sensor, screenTimer, fired, switchTimer, tasks,
                    on, offBy >>

\* The task that InitLocksTypeProximity submitted.
AwakeTask ==
    /\ tasks > 0 /\ tasks' = tasks - 1 /\ SetStateAwake("RUNNING_LOCK")
    /\ overtaken' = (overtaken \/ fired)
    /\ UNCHANGED << config, call, controller, held, near, reported, sensor, client, fired, switchTimer >>

-------------------------------------------------------------------------------
(* The sensor's thread *)

RecordSensorCallback ==
    LET now == IF near THEN "near" ELSE "far" IN
    /\ sensor = "idle" /\ subscribed /\ reported # now /\ reported' = now
    /\ sensor' = IF near THEN IF ~enabled \/ close THEN "idle" ELSE "close"
                 ELSE IF ~enabled \/ ~close THEN "idle" ELSE "away"
    /\ UNCHANGED << config, call, controller, held, near, client, screenTimer, fired, switchTimer, tasks, on,
                    offBy, overtaken >>

OnClose ==
    /\ sensor = "close" /\ close' = TRUE /\ sensor' = "closeMarked"
    /\ UNCHANGED << config, call, supported, enabled, subscribed, held, near, reported, client, screenTimer,
                    fired, switchTimer, tasks, on, offBy, overtaken >>

\* The lock is asked for, then the call; the timers are set after that.
HandleProximityCloseEvent ==
    /\ sensor = "closeMarked"
    /\ IF ~held THEN sensor' = "idle" /\ UNCHANGED switchTimer
       ELSE IF callEnable /\ duringCall /\ on THEN sensor' = "idle" /\ switchTimer' = TRUE
       ELSE \E needDelay \in IF hook THEN BOOLEAN ELSE { TRUE } :
                sensor' = (IF needDelay THEN "arm" ELSE "screenOff") /\ UNCHANGED switchTimer
    /\ UNCHANGED << config, call, controller, held, near, reported, client, screenTimer, fired, tasks, on, offBy,
                    overtaken >>

\* SetDelayTimer sets the timer and then the mark that there is one.
SetDelayTimer ==
    /\ sensor = "arm" /\ screenOffTimer' = TRUE /\ sensor' = "flag"
    /\ UNCHANGED << config, call, controller, held, near, reported, client, timerStarted, fired, switchTimer,
                    tasks, on, offBy, overtaken >>

SetTimerStarted ==
    /\ sensor = "flag" /\ timerStarted' = TRUE /\ sensor' = "idle"
    /\ UNCHANGED << config, call, controller, held, near, reported, client, screenOffTimer, fired, switchTimer,
                    tasks, on, offBy, overtaken >>

\* HandleProximityClose, of the timer's task or of the sensor's thread.
HandleProximityClose ==
    /\ \/ fired /\ fired' = FALSE /\ UNCHANGED sensor
       \/ sensor = "screenOff" /\ sensor' = "idle" /\ UNCHANGED fired
    /\ IF filtered THEN UNCHANGED << screenTimer, on, offBy >> ELSE SetStateInactive("PROXIMITY")
    /\ UNCHANGED << config, call, controller, held, near, reported, client, switchTimer, tasks, overtaken >>

OnAway ==
    /\ sensor = "away" /\ close' = FALSE /\ sensor' = "awayMarked"
    /\ UNCHANGED << config, call, supported, enabled, subscribed, held, near, reported, client, screenTimer,
                    fired, switchTimer, tasks, on, offBy, overtaken >>

\* HandleDuringCall: the folded device changes its display instead of its state.
HandleDuringCall(isClose) ==
    /\ duringCall /\ on
    /\ display' = IF display = "main" /\ isClose /\ held THEN "sub"
                  ELSE IF display = "sub" /\ ~isClose THEN "main"
                  ELSE display

\* A folded device in a call ends here, and leaves a screen-off timer of before the call alone.
HandleProximityAwayEvent ==
    /\ sensor = "awayMarked" /\ sensor' = "idle"
    /\ switchTimer' = (switchTimer /\ ~(held /\ callEnable))
    /\ IF ~held THEN UNCHANGED << display, screenTimer, on, offBy, overtaken >>
       ELSE IF callEnable /\ duringCall /\ on THEN
           /\ HandleDuringCall(FALSE) /\ overtaken' = (overtaken \/ screenOffTimer \/ fired)
           /\ UNCHANGED << screenTimer, on, offBy >>
       ELSE /\ SetStateAwake("PROXIMITY") /\ overtaken' = (overtaken \/ fired)
            /\ UNCHANGED display
    /\ UNCHANGED << config, duringCall, filtered, controller, held, near, reported, client, fired, tasks >>

-------------------------------------------------------------------------------
(* The timers, the user, the call and the settings *)

\* The screen-off task: it takes the mark back, then HandleProximityClose.
ScreenOffTimerFires ==
    /\ screenOffTimer /\ ~fired /\ screenOffTimer' = FALSE /\ timerStarted' = FALSE /\ fired' = TRUE
    /\ UNCHANGED << config, call, controller, held, near, reported, sensor, client, switchTimer, tasks, on, offBy,
                    overtaken >>

SwitchTimerFires ==
    /\ switchTimer /\ switchTimer' = FALSE
    /\ HandleDuringCall(TRUE) \/ (~(duringCall /\ on) /\ UNCHANGED display)
    /\ UNCHANGED << config, duringCall, filtered, controller, held, near, reported, sensor, client, screenTimer,
                    fired, tasks, on, offBy, overtaken >>

ObjectMoves ==
    /\ near' = ~near
    /\ UNCHANGED << config, call, controller, held, reported, sensor, client, screenTimer, fired, switchTimer,
                    tasks, on, offBy, overtaken >>

\* DuringCallSettingUpdateFunc.
DuringCallSettingUpdateFunc ==
    /\ callEnable /\ duringCall' = ~duringCall
    /\ UNCHANGED << config, filtered, display, controller, held, near, reported, sensor, client, screenTimer,
                    fired, switchTimer, tasks, on, offBy, overtaken >>

SetProxFilteringStrategy ==
    /\ filtered' = ~filtered
    /\ UNCHANGED << config, duringCall, display, controller, held, near, reported, sensor, client, screenTimer,
                    fired, switchTimer, tasks, on, offBy, overtaken >>

\* The user or a client wakes the device up.
Wakeup(reason) ==
    /\ SetStateAwake(reason)
    /\ UNCHANGED << config, call, controller, held, near, reported, sensor, client, fired, switchTimer, tasks,
                    overtaken >>

\* CheckDuringCall: the power key first brings the main display back.
Suspend(reason) ==
    /\ IF callEnable /\ reason = "POWER_KEY" /\ display = "sub" /\ duringCall /\ on
       THEN HandleDuringCall(FALSE) /\ UNCHANGED << screenTimer, on, offBy >>
       ELSE SetStateInactive(reason) /\ UNCHANGED display
    /\ UNCHANGED << config, duringCall, filtered, controller, held, near, reported, sensor, client, fired,
                    switchTimer, tasks, overtaken >>

Next ==
    \/ Lock \/ Enable \/ UnLock \/ Disable \/ AwakeTask
    \/ RecordSensorCallback \/ OnClose \/ HandleProximityCloseEvent \/ SetDelayTimer \/ SetTimerStarted
    \/ HandleProximityClose \/ OnAway \/ HandleProximityAwayEvent
    \/ ScreenOffTimerFires \/ SwitchTimerFires \/ ObjectMoves \/ DuringCallSettingUpdateFunc
    \/ SetProxFilteringStrategy
    \/ \E reason \in { "POWER_KEY", "DOUBLE_CLICK", "PICKUP", "PLUG_CHANGE" } : Wakeup(reason)
    \/ \E reason \in { "POWER_KEY", "TIMEOUT" } : Suspend(reason)

Spec == Init /\ [][Next]_vars

-------------------------------------------------------------------------------
(* Once the threads, the tasks and the screen-off timer have come to rest, a  *)
(* screen that the sensor turned off belongs to a held lock, whatever UnLock  *)
(* met: CanTransitTo refuses a screen-off that comes after its wake-up task.  *)
(* The sensor then still says close, and without the lock nothing is close:   *)
(* UnLock and the away event bring the screen back and no screen-off timer    *)
(* outlives them (HandleProximityScreenOffTimer, InitLocksTypeProximity,      *)
(* HandleProximityAwayEvent); for this part they must not have come in the    *)
(* middle of a close event, nor a call have begun between close and away.     *)
ScreenOffOnlyWhileClose ==
    LET rest == sensor = "idle" /\ client = "idle" /\ ~fired /\ ~screenOffTimer /\ tasks = 0
    IN rest => /\ offBy = "proximity" => held
               /\ ~overtaken => /\ offBy = "proximity" => close
                                /\ close => held

==============================================================================
