------------------------------ MODULE InputWakeup ------------------------------
(***************************************************************************)
(* How input keeps the device awake or wakes it.  The subscription at the  *)
(* input service passes an event a second on while the device is awake and *)
(* every event while it is not: SetState renews it around a transition.    *)
(* An event refreshes the activity or submits a wake-up, which holds a     *)
(* running lock (SleepGuard) until it has changed the state.  The power    *)
(* key may instead carry out what is configured for the kernel's reason.   *)
(***************************************************************************)
EXTENDS Naturals

CONSTANTS
    Inputs,     \* the kinds of input events that come, some of Events
    MaxTasks    \* bound: submitted wake-ups that have not run

VARIABLES
    state,              \* currentState_; the display is on while it is AWAKE or DIM
    holder, target, force,    \* where the holder of stateMutex_ is in SetState; its arguments
    curState, subscription,   \* RegisterMonitor's static; external: what the input service passes on
    event, at,          \* the event the input thread handles and where it is
    recent,             \* types CheckEventReciveTime has seen in the last 100 ms
    justSuspended,      \* a forced suspend began within the debounce time
    tasks, task,        \* submitted wake-ups; where the one that holds mutex_ is
    key,                \* where the power key's thread is
    guards,             \* running locks of SleepGuards
    sleepTimer,
    failed              \* history: the input service refused a subscription

setting == << holder, target, force >>
monitor == << curState, subscription, failed >>
input == << event, at, recent >>
wakeup == << tasks, task, key, guards >>
vars == << state, setting, monitor, input, justSuspended, wakeup, sleepTimer >>

None == "none"
Keys == { "f1", "stylus", "wakeup", "letter", "letterUp", "volume" }
Pointers == { "mouseMove", "mouse", "touchpad", "touch", "penTip", "joystick" }
Ignored == { "enterWindow", "remoteKey", "otherSystem" }
Events == Keys \cup Pointers \cup Ignored \cup { "axis" }
Debounced == { "KEYBOARD", "MOUSE", "TOUCHPAD", "SINGLE_CLICK", "PEN" }
Configured == [hibernate |-> "HIBERNATE", shutdown |-> "SHUTDOWN", nothing |-> "NONE"]
Reasons == DOMAIN Configured \cup { "empty", "unknown" }

TypeOK ==
    /\ state \in { "AWAKE", "DIM", "INACTIVE", "SLEEP" }
    /\ holder \in { None, "transit", "end" } /\ target \in { "AWAKE", "DIM", "INACTIVE", "SLEEP" }
    /\ curState \in { "AWAKE", "INACTIVE" } /\ subscription \in { None, "interval", "every" }
    /\ event \in Events \cup { None } /\ at \in { "idle", "refresh", "look", "submit" }
    /\ recent \subseteq Debounced /\ tasks \in 0..MaxTasks /\ guards \in 0..2
    /\ task \in { "idle", "guard", "setState", "wait", "drop" } /\ key \in { "idle", "reason" }
    /\ { force, justSuspended, sleepTimer, failed } \subseteq BOOLEAN

Init ==
    /\ state = "AWAKE" /\ holder = None /\ target = "AWAKE" /\ force = FALSE
    /\ curState = "AWAKE" /\ subscription = "interval" /\ failed = FALSE
    /\ event = None /\ at = "idle" /\ recent = {} /\ justSuspended = FALSE
    /\ tasks = 0 /\ task = "idle" /\ key = "idle" /\ guards = 0 /\ sleepTimer = FALSE

-------------------------------------------------------------------------------
(* SetState, for any caller; stateMutex_ is held from BeginSetState to EndSetState *)

\* The subscription is renewed when the state changes between AWAKE and INACTIVE.
RegisterMonitor(s) ==
    IF s \notin { "AWAKE", "INACTIVE" } \/ s = curState THEN UNCHANGED monitor
    ELSE /\ curState' = s
         /\ subscription' \in { IF s = "AWAKE" THEN "interval" ELSE "every", None }
         /\ failed' = (failed \/ subscription' = None)

BeginSetState(s, forced) ==
    /\ holder = None /\ holder' = "transit" /\ target' = s /\ force' = forced
    /\ IF s = "INACTIVE" THEN RegisterMonitor(s) ELSE UNCHANGED monitor

Forbidden == { << "AWAKE", "SLEEP" >>, << "DIM", "SLEEP" >>, << "INACTIVE", "DIM" >>, << "SLEEP", "DIM" >> }

\* The transition may be refused or fail; a running lock forbids sleep.
TransitTo ==
    /\ holder = "transit" /\ holder' = "end"
    /\ \/ UNCHANGED state
       \/ /\ << state, target >> \notin Forbidden
          /\ target = "SLEEP" /\ ~force => guards = 0
          /\ state' = target
    /\ UNCHANGED << target, force, monitor, input, justSuspended, wakeup, sleepTimer >>

\* A mutant of EndSetState: the monitor is registered for the state that was asked for.
EndSetState_Target ==
    /\ holder = "end" /\ holder' = None
    /\ RegisterMonitor(target)
    /\ sleepTimer' = (sleepTimer \/ (target = "INACTIVE" /\ state = "INACTIVE"))
    /\ task' = IF task = "wait" /\ target = "AWAKE" THEN "drop" ELSE task
    /\ UNCHANGED << state, target, force, input, justSuspended, tasks, key, guards >>

EndSetState ==
    /\ holder = "end" /\ holder' = None
    /\ RegisterMonitor(state)
    /\ sleepTimer' = (sleepTimer \/ (target = "INACTIVE" /\ state = "INACTIVE"))
    /\ task' = IF task = "wait" /\ target = "AWAKE" THEN "drop" ELSE task
    /\ UNCHANGED << state, target, force, input, justSuspended, tasks, key, guards >>

\* The screen times out or is turned off, and the sleep timer runs out, or is forced to.
Suspend ==
    /\ \/ /\ \E s \in { "DIM", "INACTIVE" } : BeginSetState(s, FALSE)
          /\ UNCHANGED << sleepTimer, justSuspended >>
       \/ sleepTimer /\ BeginSetState("SLEEP", FALSE) /\ sleepTimer' = FALSE /\ UNCHANGED justSuspended
       \/ BeginSetState("SLEEP", TRUE) /\ justSuspended' = TRUE /\ UNCHANGED sleepTimer
    /\ UNCHANGED << state, input, wakeup >>

-------------------------------------------------------------------------------
(* The input thread: InputCallback::OnInputEvent *)

\* A collaborating device's events are remote, another system's always are.
isRemoteEvent(e, coordination) == e = "otherSystem" \/ (e = "remoteKey" /\ coordination)

NonWindowEvent(e) == e # "enterWindow"

IsNeedMouseDebounceAfterSuspend(e) == justSuspended /\ e = "mouseMove"

isKeyboardKeycode(e) == e \in { "letter", "letterUp" }

\* What wakes the device: a key's code, or the tool and the source of a pointer.
DetermineWakeupDeviceType(e) ==
    CASE e = "f1" -> "DOUBLE_CLICK"
      [] e \in { "stylus", "penTip" } -> "PEN"
      [] e = "wakeup" -> "TP_TOUCH"
      [] isKeyboardKeycode(e) \/ e = "remoteKey" -> "KEYBOARD"
      [] e \in { "mouse", "mouseMove" } -> "MOUSE"
      [] e = "touchpad" -> "TOUCHPAD"
      [] e = "touch" -> "SINGLE_CLICK"
      [] OTHER -> "UNKNOWN"

OnInputEvent ==
    /\ at = "idle" /\ subscription # None
    /\ \E e \in Inputs, coordination \in BOOLEAN :
         /\ ~isRemoteEvent(e, coordination) /\ NonWindowEvent(e) /\ ~IsNeedMouseDebounceAfterSuspend(e)
         /\ event' = e
    /\ at' \in { "refresh", "look" }     \* EVENT_FLAG_DISABLE_USER_ACTION
    /\ UNCHANGED << state, setting, monitor, recent, justSuspended, wakeup, sleepTimer >>

\* RefreshActivityInner does nothing while the screen is off or going off, and ends a dimming.
Refresh ==
    /\ at = "refresh" /\ at' = IF event = "axis" THEN "idle" ELSE "look"
    /\ event' = IF event = "axis" THEN None ELSE event
    /\ IF state = "DIM" /\ ~(holder # None /\ target = "INACTIVE") THEN BeginSetState("AWAKE", TRUE) ELSE UNCHANGED << setting, monitor >>
    /\ UNCHANGED << state, recent, justSuspended, wakeup, sleepTimer >>

\* Awake, the event has done its work; an axis event does no other.
TouchEventAfterScreenOn ==
    /\ at = "look"
    /\ LET done == state = "AWAKE" \/ event = "axis"
       IN at' = (IF done THEN "idle" ELSE "submit") /\ event' = (IF done THEN None ELSE event)
    /\ UNCHANGED << state, setting, monitor, recent, justSuspended, wakeup, sleepTimer >>

CheckEventReciveTime(t) == t \in recent

\* The key's release is seen, and then left alone; stylus keys are not debounced.
Submit ==
    LET t == DetermineWakeupDeviceType(event)
        checked == t \in Debounced /\ event # "stylus"
    IN /\ at = "submit" /\ at' = "idle" /\ event' = None
       /\ recent' = IF checked THEN recent \cup { t } ELSE recent
       /\ tasks' = IF t = "UNKNOWN" \/ (checked /\ CheckEventReciveTime(t)) \/ event = "letterUp"
                   THEN tasks ELSE tasks + 1
       /\ tasks' <= MaxTasks
       /\ UNCHANGED << state, setting, monitor, justSuspended, task, key, guards, sleepTimer >>

\* The service's own monitor: a remote event dims a collaborating device.
PowerMgrInputMonitor ==
    /\ "remoteKey" \in Inputs /\ state = "AWAKE" /\ BeginSetState("DIM", TRUE)
    /\ UNCHANGED << state, input, justSuspended, wakeup, sleepTimer >>

-------------------------------------------------------------------------------
(* The wake-up *)

Wakeup == sleepTimer' = FALSE     \* StopSleep

\* ControlListener; what makes it skip the wake-up is modelled in Cover.
HandleWakeup ==
    /\ task = "idle" /\ tasks > 0 /\ tasks' = tasks - 1
    /\ task' \in (IF state # "AWAKE" THEN { "guard", "idle" } ELSE { "idle" })
    /\ UNCHANGED << state, setting, monitor, input, justSuspended, key, guards, sleepTimer >>

SleepGuard ==
    /\ task = "guard" /\ task' = "setState" /\ guards' = guards + 1
    /\ Wakeup
    /\ UNCHANGED << state, setting, monitor, input, justSuspended, tasks, key >>

WakeupSetsState ==
    /\ task = "setState" /\ task' = "wait" /\ BeginSetState("AWAKE", TRUE)
    /\ UNCHANGED << state, input, justSuspended, tasks, key, guards, sleepTimer >>

SleepGuardEnds ==
    /\ task = "drop" /\ task' = "idle" /\ guards' = guards - 1
    /\ UNCHANGED << state, setting, monitor, input, justSuspended, tasks, key, sleepTimer >>

-------------------------------------------------------------------------------
(* The power key and the kernel's reason *)

IsWakeupReasonConfigMatched(reason) == reason \in DOMAIN Configured

\* In any state but SLEEP it does nothing.
ProcessWakeupReason(reason) ==
    IF state = "SLEEP" /\ Configured[reason] # "NONE"
    THEN key' = "reason" /\ guards' = guards + 1 /\ Wakeup
    ELSE UNCHANGED << key, guards, sleepTimer >>

PowerKeyDown ==
    /\ key = "idle"
    /\ \E reason \in Reasons :
         IF IsWakeupReasonConfigMatched(reason) THEN ProcessWakeupReason(reason) /\ UNCHANGED tasks
         ELSE tasks < MaxTasks /\ tasks' = tasks + 1 /\ UNCHANGED << key, guards, sleepTimer >>
    /\ UNCHANGED << state, setting, monitor, input, justSuspended, task >>

\* Hibernate or Shutdown is called, and the guard ends.
ExecuteByGetReason ==
    /\ key = "reason" /\ key' = "idle" /\ guards' = guards - 1
    /\ UNCHANGED << state, setting, monitor, input, justSuspended, tasks, task, sleepTimer >>

-------------------------------------------------------------------------------

TimePasses ==
    /\ recent' = {} /\ justSuspended' = FALSE
    /\ UNCHANGED << state, setting, monitor, event, at, wakeup, sleepTimer >>

Next ==
    \/ TransitTo \/ EndSetState \/ Suspend
    \/ OnInputEvent \/ Refresh \/ TouchEventAfterScreenOn \/ Submit \/ PowerMgrInputMonitor
    \/ HandleWakeup \/ SleepGuard \/ WakeupSetsState \/ SleepGuardEnds
    \/ PowerKeyDown \/ ExecuteByGetReason
    \/ TimePasses

Spec == Init /\ [][Next]_vars

-------------------------------------------------------------------------------

\* Unless the input service refused a subscription, a device whose screen is off, or is being
\* turned off, gets every input event, and an awake device at rest one a second, whichever
\* transitions were refused or failed half way (RegisterMonitor remembers the state it was last
\* told in a static and SetState tells it before and after a transition).
InputIsHeard ==
    ~failed =>
        /\ state \in { "INACTIVE", "SLEEP" } \/ (holder # None /\ target = "INACTIVE" /\ state # "AWAKE")
             => subscription = "every"
        /\ holder = None /\ state = "AWAKE" => subscription = "interval"

===============================================================================
