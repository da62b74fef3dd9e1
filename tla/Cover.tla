-------------------------------- MODULE Cover --------------------------------
(***************************************************************************)
(* A device with a cover, its internal screen and external screens: the    *)
(* switch or the hall sensor reports the cover, the screen manager reports *)
(* screens that come and go, and tasks of several threads turn the device  *)
(* and its internal screen on and off.  SetState is one step here; the     *)
(* state machine's own module has its parts.  The build is the one with    *)
(* external screen management, on a product with the only-second display   *)
(* mode.                                                                   *)
(***************************************************************************)
EXTENDS Naturals, FiniteSets

CONSTANTS
    LidTasks,    \* the FFRT workers that run the tasks of the hall sensor
    MaxScreens,  \* bound: external screens
    MaxEvents    \* bound: events of the cover and of the screens

VARIABLES
    lid,          \* isLidCheckEnable_ and IsLidEventUsed(): the hall sensor counts, not the switch
    config,       \* the configured action of the switch suspend source
    cover,        \* switchOpen_, isInLidMode_: as last reported
    screens,      \* externalScreenNumber_
    on,           \* the power state is AWAKE and the display on, else INACTIVE and off
    internal,     \* external: the power of the internal screen
    switchAction, \* switchAction_
    timer,        \* the task under SWITCH_TRIGGER_WAKEUP_OR_SUSPEND_MSG that has not started
    pc, reason, seen,            \* of every thread: where, why, and what it has read
    wakeupMutex, monitorMutex,   \* WakeupController::mutex_, g_monitorMutex
    events,       \* bound: so many so far
    overtaken     \* history: a thread acted on a cover or a screen that had changed since it looked

vars == << lid, config, cover, screens, on, internal, switchAction, timer, pc, reason, seen,
           wakeupMutex, monitorMutex, events, overtaken >>
product == << lid, config >>
mutexes == << wakeupMutex, monitorMutex >>

Threads == { "queue", "key", "client", "screen" } \cup LidTasks
Seen == [ open : BOOLEAN, on : BOOLEAN, some : BOOLEAN ]

TypeOK ==
    /\ { lid, on, internal, overtaken } \subseteq BOOLEAN
    /\ { config, switchAction } \subseteq { "none", "sleep" }
    /\ cover \in { "open", "closed" } /\ screens \in 0..MaxScreens /\ events \in 0..MaxEvents
    /\ timer \in { "none", "wakeup", "suspend" }
    /\ pc \in [ Threads -> { "idle", "suspend", "internalOff", "setInactive", "wakeup", "wake", "woken",
                             "clientCheck", "clientWake", "init", "connected", "disconnected",
                             "abnormal" } ]
    /\ reason \in [ Threads -> { "switch", "lid", "key" } ]
    /\ seen \in [ Threads -> Seen ]
    /\ wakeupMutex \subseteq Threads /\ monitorMutex \subseteq Threads

IsLidOrSwitchOpen == cover = "open"

\* What a thread reads of the cover, the device and the screens before it acts.
Now == [ open |-> IsLidOrSwitchOpen, on |-> on, some |-> screens > 0 ]
Unseen == [ open |-> TRUE, on |-> TRUE, some |-> FALSE ]
Look(t) == seen' = [ seen EXCEPT ![t] = Now ]
Forget(t) == seen' = [ seen EXCEPT ![t] = Unseen ]

Init ==
    /\ lid \in BOOLEAN /\ config \in { "none", "sleep" }
    /\ cover = "open" /\ screens = 0 /\ on = TRUE /\ internal = TRUE /\ switchAction = "none"
    /\ timer = "none" /\ pc = [ t \in Threads |-> "idle" ] /\ reason = [ t \in Threads |-> "key" ]
    /\ seen = [ t \in Threads |-> Unseen ]
    /\ wakeupMutex = {} /\ monitorMutex = {} /\ events = 0 /\ overtaken = FALSE

CountEvent == events < MaxEvents /\ events' = events + 1
Goto(t, label) == pc' = [ pc EXCEPT ![t] = label ]
Start(t, label, why) == Goto(t, label) /\ reason' = [ reason EXCEPT ![t] = why ]

\* SetState(AWAKE): the display turns every screen on if it was off.
SetStateAwake == on' = TRUE /\ internal' = (internal \/ ~on)
SetStateInactive == on' = FALSE /\ internal' = FALSE

-------------------------------------------------------------------------------
(* The cover *)

\* A mutant of ExecMonitorByReason: a task that has not started goes first and the new one is lost.
ExecMonitorByReason_KeepsOld(task) == timer' = IF timer = "none" THEN task ELSE timer

\* ExecSuspendMonitorByReason and ExecWakeupMonitorByReason for the switch: SetDelayTimer under
\* one id, which cancels the task before it if that has not started.
ExecMonitorByReason(task) == timer' = task

\* The switch event: the state, then the task.
SwitchEvent(open) ==
    /\ ~lid /\ CountEvent /\ IsLidOrSwitchOpen # open
    /\ cover' = IF open THEN "open" ELSE "closed"
    /\ ExecMonitorByReason(IF open THEN "wakeup" ELSE "suspend")
    /\ UNCHANGED << product, screens, on, internal, switchAction, pc, reason, seen, mutexes, overtaken >>

\* HallSensorCallback: an event that repeats the last is dropped; the task runs on any worker.
HallSensorCallback(t, open) ==
    /\ lid /\ CountEvent /\ IsLidOrSwitchOpen # open /\ pc[t] = "idle"
    /\ cover' = IF open THEN "open" ELSE "closed"
    /\ Start(t, IF open THEN "wakeup" ELSE "suspend", "lid")
    /\ overtaken' = (overtaken \/ \E u \in LidTasks : pc[u] # "idle")
    /\ UNCHANGED << product, screens, on, internal, switchAction, timer, seen, mutexes >>

TimerFires ==
    /\ timer # "none" /\ pc["queue"] = "idle"
    /\ Start("queue", timer, "switch") /\ timer' = "none"
    /\ UNCHANGED << product, cover, screens, on, internal, switchAction, seen, mutexes, events, overtaken >>

-------------------------------------------------------------------------------
(* SuspendController::ControlListener, under g_monitorMutex *)

\* The external screens stay on when the switch is to do nothing.
IsPowerOffInernalScreenOnlyScene(t) == reason[t] = "switch" /\ config = "none" /\ screens > 0 /\ on

SuspendControlListener(t) ==
    /\ pc[t] = "suspend" /\ monitorMutex = {}
    /\ switchAction' = IF reason[t] = "switch" THEN config ELSE switchAction
    /\ IF ~on THEN Goto(t, "idle") /\ UNCHANGED monitorMutex
       ELSE /\ Goto(t, IF IsPowerOffInernalScreenOnlyScene(t) THEN "internalOff" ELSE "setInactive")
            /\ monitorMutex' = {t}
    /\ UNCHANGED << product, cover, screens, on, internal, timer, reason, seen, wakeupMutex, events, overtaken >>

PowerOffInternalScreen(t) ==
    /\ pc[t] = "internalOff" /\ internal' = FALSE
    /\ Goto(t, "idle") /\ monitorMutex' = {}
    /\ overtaken' = (overtaken \/ (IsLidOrSwitchOpen /\ timer = "none"))
    /\ UNCHANGED << product, cover, screens, on, switchAction, timer, reason, seen, wakeupMutex, events >>

ControlListenerInner(t) ==
    /\ pc[t] = "setInactive" /\ SetStateInactive
    /\ Goto(t, "idle") /\ monitorMutex' = {}
    /\ UNCHANGED << product, cover, screens, switchAction, timer, reason, seen, wakeupMutex, events, overtaken >>

-------------------------------------------------------------------------------
(* WakeupController::ControlListener, under mutex_ *)

NeedToSkipCurrentWakeup(t) == (~IsLidOrSwitchOpen /\ screens = 0) \/ (on /\ reason[t] = "key")

WakeupControlListener(t) ==
    /\ pc[t] = "wakeup" /\ wakeupMutex = {}
    /\ IF NeedToSkipCurrentWakeup(t) THEN Goto(t, "idle") /\ UNCHANGED << wakeupMutex, seen >>
       ELSE Goto(t, "wake") /\ wakeupMutex' = {t} /\ Look(t)
    /\ UNCHANGED << product, cover, screens, on, internal, switchAction, timer, reason, monitorMutex,
                    events, overtaken >>

IsPowerOnInernalScreenOnlyScene(t) ==
    reason[t] = "switch" /\ switchAction = "none" /\ screens > 0 /\ on

\* The action of AWAKE, with HandleOnlySecondScreenWhenCoverOpen: the cover's own wake-up turns
\* the internal screen on even if the device was awake.
HandleOnlySecondScreenWhenCoverOpen(t) ==
    internal \/ ~on \/ (IsLidOrSwitchOpen /\ reason[t] = IF lid THEN "lid" ELSE "switch")

HandleWakeup(t) ==
    /\ pc[t] = "wake"
    /\ IF IsPowerOnInernalScreenOnlyScene(t) THEN
           /\ internal' = (internal \/ IsLidOrSwitchOpen)
           /\ Goto(t, "idle") /\ wakeupMutex' = {} /\ Forget(t)
           /\ UNCHANGED << on, overtaken >>
       ELSE IF on /\ reason[t] = "key" THEN
           /\ Goto(t, "idle") /\ wakeupMutex' = {} /\ Forget(t)
           /\ UNCHANGED << on, internal, overtaken >>
       ELSE
           /\ on' = TRUE /\ internal' = HandleOnlySecondScreenWhenCoverOpen(t)
           /\ Goto(t, "woken") /\ UNCHANGED << wakeupMutex, seen >>
           /\ overtaken' = (overtaken \/ (~IsLidOrSwitchOpen /\ timer = "none"
                                           /\ << seen[t].open, seen[t].some >> # << Now.open, Now.some >>))
    /\ UNCHANGED << product, cover, screens, switchAction, timer, reason, monitorMutex, events >>

HandleOnlySecondScreenWhenWakeup(t) ==
    /\ pc[t] = "woken"
    /\ internal' = (internal /\ ~(screens > 0 /\ ~IsLidOrSwitchOpen /\ reason[t] = "key"))
    /\ Goto(t, "idle") /\ wakeupMutex' = {}
    /\ Forget(t)
    /\ overtaken' = (overtaken \/ (seen[t].some /\ screens = 0 /\ ~IsLidOrSwitchOpen /\ timer = "none"))
    /\ UNCHANGED << product, cover, screens, on, switchAction, timer, reason, monitorMutex, events >>

-------------------------------------------------------------------------------
(* Keys, clients and time-outs *)

\* InputCallback::OnInputEvent: an event while the device is not awake.
OnInputEvent ==
    /\ ~on /\ pc["key"] = "idle" /\ Start("key", "wakeup", "key")
    /\ UNCHANGED << product, cover, screens, on, internal, switchAction, timer, seen, mutexes, events, overtaken >>

WakeupDevice ==
    /\ pc["client"] = "idle" /\ Goto("client", "clientCheck")
    /\ UNCHANGED << product, cover, screens, on, internal, switchAction, timer, reason, seen, mutexes, events, overtaken >>

\* WakeupDeviceInner: IsWakeupDeviceSkip, then SetState.
IsWakeupDeviceSkip(t) ==
    /\ pc[t] = "clientCheck" /\ Goto(t, IF IsLidOrSwitchOpen THEN "clientWake" ELSE "idle")
    /\ UNCHANGED << product, cover, screens, on, internal, switchAction, timer, reason, seen, mutexes, events, overtaken >>

WakeupDeviceInner(t) ==
    /\ pc[t] = "clientWake" /\ Goto(t, "idle") /\ SetStateAwake
    /\ overtaken' = (overtaken \/ (~IsLidOrSwitchOpen /\ ~on /\ timer = "none"))
    /\ UNCHANGED << product, cover, screens, switchAction, timer, reason, seen, mutexes, events >>

\* A client's SuspendDevice, or the screen-off time.
SuspendDeviceInner ==
    /\ on /\ SetStateInactive
    /\ UNCHANGED << product, cover, screens, switchAction, timer, pc, reason, seen, mutexes, events, overtaken >>

-------------------------------------------------------------------------------
(* External screens: a listener looks at the cover and the device, then acts *)

Stale == << seen["screen"].open, seen["screen"].on >> # << Now.open, Now.on >>

\* ExternalScreenInit, when the service starts with screens already there.
ExternalScreenInit(n) ==
    /\ events = 0 /\ events' = 1 /\ pc["screen"] = "idle"
    /\ screens' = n /\ Look("screen") /\ Goto("screen", "init")
    /\ UNCHANGED << product, cover, on, internal, switchAction, timer, reason, mutexes, overtaken >>

ExternalScreenInitActs ==
    /\ pc["screen"] = "init" /\ Goto("screen", "idle") /\ Forget("screen")
    /\ internal' = (seen["screen"].on /\ seen["screen"].open)
    /\ overtaken' = (overtaken \/ Stale)
    /\ UNCHANGED << product, cover, screens, on, switchAction, timer, reason, mutexes, events >>

OnConnect ==
    /\ pc["screen"] = "idle" /\ screens < MaxScreens /\ CountEvent
    /\ screens' = screens + 1 /\ Look("screen") /\ Goto("screen", "connected")
    /\ UNCHANGED << product, cover, on, internal, switchAction, timer, reason, mutexes, overtaken >>

\* PowerOnAllScreens and PowerOffAllScreens reach the internal screen too; with the cover closed
\* and more than one screen PowerOffInternalScreen follows at once.
OnConnectActs ==
    LET saw == seen["screen"] IN
    /\ pc["screen"] = "connected"
    /\ internal' = IF saw.open /\ saw.on THEN TRUE
                   ELSE IF saw.open THEN internal
                   ELSE IF ~saw.on \/ screens > 1 THEN FALSE
                   ELSE internal
    /\ \/ saw.open /\ ~saw.on /\ Goto("screen", "clientCheck")     \* isExternalScreenWakeup_
       \/ Goto("screen", "idle")
    /\ Forget("screen")
    /\ overtaken' = (overtaken \/ Stale)
    /\ UNCHANGED << product, cover, screens, on, switchAction, timer, reason, mutexes, events >>

OnDisconnect ==
    /\ pc["screen"] = "idle" /\ screens > 0 /\ CountEvent
    /\ screens' = screens - 1 /\ Look("screen") /\ Goto("screen", "disconnected")
    /\ UNCHANGED << product, cover, on, internal, switchAction, timer, reason, mutexes, overtaken >>

\* The last screen goes while the cover is closed: the switch monitor suspends the device.
OnDisconnectActs ==
    /\ pc["screen"] = "disconnected" /\ Goto("screen", "idle")
    /\ IF ~seen["screen"].open /\ screens = 0 THEN ExecMonitorByReason("suspend") ELSE UNCHANGED timer
    /\ Forget("screen")
    /\ overtaken' = (overtaken \/ Stale)
    /\ UNCHANGED << product, cover, screens, on, internal, switchAction, reason, mutexes, events >>

NotifyAbnormalScreenConnectChange ==
    /\ pc["screen"] = "idle" /\ screens > 0 /\ CountEvent /\ Look("screen") /\ Goto("screen", "abnormal")
    /\ UNCHANGED << product, cover, screens, on, internal, switchAction, timer, reason, mutexes, overtaken >>

AbnormalActs ==
    LET saw == seen["screen"] IN
    /\ pc["screen"] = "abnormal" /\ Goto("screen", "idle")
    /\ internal' = IF saw.on THEN saw.open ELSE internal
    /\ Forget("screen")
    /\ overtaken' = (overtaken \/ Stale)
    /\ UNCHANGED << product, cover, screens, on, switchAction, timer, reason, mutexes, events >>

Next ==
    \/ \E open \in BOOLEAN : SwitchEvent(open) \/ \E t \in LidTasks : HallSensorCallback(t, open)
    \/ TimerFires \/ OnInputEvent \/ WakeupDevice \/ SuspendDeviceInner
    \/ \E t \in Threads : \/ SuspendControlListener(t) \/ PowerOffInternalScreen(t)
                          \/ ControlListenerInner(t) \/ WakeupControlListener(t) \/ HandleWakeup(t)
                          \/ HandleOnlySecondScreenWhenWakeup(t) \/ IsWakeupDeviceSkip(t)
                          \/ WakeupDeviceInner(t)
    \/ (\E n \in 1..MaxScreens : ExternalScreenInit(n)) \/ ExternalScreenInitActs
    \/ OnConnect \/ OnConnectActs \/ OnDisconnect \/ OnDisconnectActs
    \/ NotifyAbnormalScreenConnectChange \/ AbnormalActs

Spec == Init /\ [][Next]_vars

-------------------------------------------------------------------------------
(* When every task has ended, the internal screen is on exactly when the      *)
(* device is on and its cover open, and a device with a closed cover and no   *)
(* external screen is off: however the cover's tasks, keys, clients and       *)
(* screens that come and go overlap, as long as none acted on what had        *)
(* changed since it looked (ExecSuspendMonitorByReason,                       *)
(* NeedToSkipCurrentWakeup, HandleOnlySecondScreenWhenWakeup, OnDisconnect).  *)
InternalScreenFollowsCover ==
    LET settled == timer = "none" /\ \A t \in Threads : pc[t] = "idle"
    IN settled /\ ~overtaken =>
           /\ internal = (on /\ IsLidOrSwitchOpen)
           /\ ~IsLidOrSwitchOpen /\ screens = 0 => ~on

==============================================================================
