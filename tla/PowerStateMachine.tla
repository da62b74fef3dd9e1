-------------------------- MODULE PowerStateMachine --------------------------
(***************************************************************************)
(* PowerStateMachine::SetState and the code that races with it.  SetState  *)
(* runs under stateMutex_, but RefreshActivityInner, SetDisplayOffTime and *)
(* the release of a screen running lock call ResetInactiveTimer without    *)
(* that mutex, and the time-out tasks of the FFRT queue arrive at SetState *)
(* when they may already have been cancelled.  Client threads (binder or   *)
(* ffrt threads that enter the service) and the queue, which runs one task *)
(* at a time, interleave at every access to shared state.                  *)
(***************************************************************************)
EXTENDS PowerState

CONSTANTS
    Clients,         \* threads that call into the service
    queue,           \* the thread of power_manager_ffrt_queue
    NoThread,        \* the owner of a free mutex
    Ops,             \* the operations clients call in this instance
    DisplayMayFail   \* whether SetDisplayState may report an error

AllOps == { "refresh", "wakeup", "suspend", "screenLock", "setForceTimingOut",
            "setDisplayOffTime", "lockScreenAfterTimingOut" }

ASSUME ThreadsAssumption == queue \notin Clients /\ NoThread \notin Clients \cup {queue}
ASSUME OpsAssumption == Ops \subseteq AllOps
ASSUME FailAssumption == DisplayMayFail \in BOOLEAN

Threads == Clients \cup {queue}

VARIABLES
    currentState,        \* currentState_
    display,             \* what stateAction_->GetDisplayState() returns
    settingStateFlag,    \* settingStateFlag_
    stateMutex,          \* owner of PowerStateMachine::stateMutex_
    screenMutex,         \* owner of PowerMgrService::screenMutex_
    lockMutex,           \* owner of PowerMgrService::lockMutex_
    handle,              \* FFRTTimer::handleMap_
    sleepTime,           \* SuspendController::sleepTime_ # -1
    sleepReason,         \* the suspend type the pending sleep task was given
    screenLock,          \* the SCREEN lock counter is above zero
    forceTimingOut,      \* forceTimingOut_
    autoOff,             \* displayOffTime_ >= 0
    timingOutLockScreen, \* enabledTimingOutLockScreen_ and ...CheckLock_
    recentRefresh,       \* a refresh was let through less than 100 ms ago
    pc,                  \* where each thread is
    call,                \* the operation each thread is in, with SetState's arguments
    overtaken            \* history: the timers were reset after the queue's task had started
                         \* and before it entered SetState

vars == << currentState, display, settingStateFlag, stateMutex, screenMutex, lockMutex,
           handle, sleepTime, sleepReason, screenLock, forceTimingOut, autoOff,
           timingOutLockScreen, recentRefresh, pc, call, overtaken >>

-------------------------------------------------------------------------------
Flags == States \cup {"NONE", "DIM_INTERRUPTED"}

Timers == {"TIMEOUT", "OFF", "SLEEP"}

\* A handle is null, or names a task that waits for its delay ("armed") or has started
\* ("running").  Cancelling or replacing it leaves a started task running without a handle.
HandleStates == {"null", "armed", "running"}

LockScreenModes == {"always", "unlessScreenLock", "never"}

Labels == { "idle", "enterLock", "enterRefresh", "refresh", "unlocked", "offTime", "force", "off",
            "lock", "check", "act", "cancelTimers", "dimArm", "dimCheck", "commit", "exit",
            "cas", "cancel", "arm", "sleepTimer", "taskEnd" }

OpNames == { "none", "refresh", "wakeup", "suspend", "screenLock", "screenUnlock",
             "forceOn", "forceOff", "setDisplayOffTime", "dimTask", "offTask", "sleepTask" }

Calls == [ op : OpNames, state : States, reason : Reasons, force : BOOLEAN, ok : BOOLEAN ]

NoCall == [ op |-> "none", state |-> "AWAKE", reason |-> "REFRESH", force |-> FALSE, ok |-> FALSE ]

TypeOK ==
    /\ currentState \in States
    /\ display \in DisplayStates
    /\ settingStateFlag \in Flags
    /\ {stateMutex, screenMutex, lockMutex} \subseteq Threads \cup {NoThread}
    /\ handle \in [Timers -> HandleStates]
    /\ sleepTime \in BOOLEAN
    /\ sleepReason \in {"APPLICATION", "TIMEOUT"}
    /\ screenLock \in BOOLEAN
    /\ forceTimingOut \in BOOLEAN
    /\ autoOff \in BOOLEAN
    /\ timingOutLockScreen \in LockScreenModes
    /\ recentRefresh \in BOOLEAN
    /\ pc \in [Threads -> Labels]
    /\ call \in [Threads -> Calls]
    /\ overtaken \in BOOLEAN

-------------------------------------------------------------------------------
(* FFRTTimer *)

CancelTimer(h, timers) == [ t \in Timers |-> IF t \in timers THEN "null" ELSE h[t] ]

SetTimer(h, timer) == [ h EXCEPT ![timer] = "armed" ]

\* The task the queue is executing is still the one its timer's handle names.
CurrentTaskHasHandle(timer) == handle[timer] = "running"

-------------------------------------------------------------------------------
(* Helpers *)

IsSettingState(state) == settingStateFlag = state

GoTo(th, label) == pc' = [ pc EXCEPT ![th] = label ]

Begin(th, opName, label) ==
    /\ GoTo(th, label)
    /\ call' = [ call EXCEPT ![th] = [ NoCall EXCEPT !.op = opName ] ]

\* The thread goes on to SetState(state, reason, force).
CallSetState(th, opName, state, reason, force) ==
    /\ GoTo(th, "lock")
    /\ call' = [ call EXCEPT ![th] = [ op |-> opName, state |-> state, reason |-> reason,
                                       force |-> force, ok |-> FALSE ] ]

\* A mutant of Return: lockMutex_ is not released.
Return_KeepsLockMutex(th) ==
    /\ GoTo(th, IF th = queue THEN "taskEnd" ELSE "idle")
    /\ call' = [ call EXCEPT ![th] = IF th = queue THEN @ ELSE NoCall ]
    /\ screenMutex' = IF screenMutex = th THEN NoThread ELSE screenMutex
    /\ UNCHANGED lockMutex

\* The operation is over: the guards of screenMutex_ and lockMutex_ go out of scope.
Return(th) ==
    /\ GoTo(th, IF th = queue THEN "taskEnd" ELSE "idle")
    /\ call' = [ call EXCEPT ![th] = IF th = queue THEN @ ELSE NoCall ]
    /\ screenMutex' = IF screenMutex = th THEN NoThread ELSE screenMutex
    /\ lockMutex' = IF lockMutex = th THEN NoThread ELSE lockMutex

\* The settings and the timing that SetState and ResetInactiveTimer never write.
settings == << screenLock, forceTimingOut, autoOff, timingOutLockScreen, recentRefresh >>

\* A mutant of GetReasonBySuspendType: a type without a case yields STATE_CHANGE_REASON_UNKNOWN.
GetReasonBySuspendType_MissingCase(type) == IF type = "TIMEOUT" THEN "TIMEOUT" ELSE "UNKNOWN"

\* GetReasonBySuspendType(SUSPEND_DEVICE_REASON_TIMEOUT), and APPLICATION for the others.
GetReasonBySuspendType(type) ==
    IF type = "TIMEOUT" /\ \/ timingOutLockScreen = "never"
                           \/ timingOutLockScreen = "unlessScreenLock" /\ screenLock
    THEN "TIMEOUT_NO_SCREEN_LOCK" ELSE type

-------------------------------------------------------------------------------
(* ResetInactiveTimer: three steps, with or without stateMutex_. *)

\* Tell the thread that is setting DIM.
ResetCas(th) ==
    /\ pc[th] = "cas"
    /\ settingStateFlag' = IF settingStateFlag = "DIM" THEN "DIM_INTERRUPTED" ELSE settingStateFlag
    /\ GoTo(th, "cancel")
    /\ UNCHANGED << currentState, display, stateMutex, screenMutex, lockMutex, handle, sleepTime,
                    sleepReason, settings, call, overtaken >>

ResetCancel(th) ==
    /\ pc[th] = "cancel"
    /\ handle' = CancelTimer(handle, {"TIMEOUT", "OFF"})
    /\ overtaken' = (overtaken \/ (call[queue].op \in {"dimTask", "offTask"} /\ pc[queue] \in {"off", "lock"}))
    /\ GoTo(th, "arm")
    /\ UNCHANGED << currentState, display, settingStateFlag, stateMutex, screenMutex, lockMutex,
                    sleepTime, sleepReason, settings, call >>

\* The timer is armed unless automatic screen-off is disabled; then the caller goes on: SetState
\* commits AWAKE or gives up an interrupted DIM, SetForceTimingOut unlocks, the others return.
ResetArm(th) ==
    /\ pc[th] = "arm"
    /\ handle' = IF autoOff THEN SetTimer(handle, "TIMEOUT") ELSE handle
    /\ IF stateMutex = th /\ call[th].op # "forceOn"
       THEN /\ GoTo(th, IF call[th].state = "AWAKE" THEN "commit" ELSE "exit")
            /\ UNCHANGED << stateMutex, screenMutex, lockMutex, call >>
       ELSE /\ Return(th)
            /\ stateMutex' = IF stateMutex = th THEN NoThread ELSE stateMutex
    /\ UNCHANGED << currentState, display, settingStateFlag, sleepTime, sleepReason, settings, overtaken >>

-------------------------------------------------------------------------------
(* SetState *)

TimerOf(state) == CASE state = "DIM" -> "TIMEOUT" [] state = "INACTIVE" -> "OFF" [] OTHER -> "SLEEP"

\* A mutant of CheckFFRTTaskAvailability: a cancelled task is not recognised.
CheckFFRTTaskAvailability_Always(th, state, reason) == TRUE

\* Only a time-out task of the queue can be out of date.
CheckFFRTTaskAvailability(th, state, reason) ==
    IsTimeoutReason(reason) /\ th = queue => CurrentTaskHasHandle(TimerOf(state))

\* A mutant of SetStateLock: stateMutex_ is not waited for.
SetStateLock_NoMutex(th) ==
    /\ pc[th] = "lock"
    /\ CheckFFRTTaskAvailability(th, call[th].state, call[th].reason)
    /\ stateMutex' = th
    /\ settingStateFlag' = call[th].state
    /\ GoTo(th, "check")
    /\ UNCHANGED << currentState, display, screenMutex, lockMutex, handle, sleepTime, sleepReason,
                    settings, call, overtaken >>

\* stateMutex_ is taken; an invalidated time-out task gives it back at once, any other call
\* raises settingStateFlag_.
SetStateLock(th) ==
    /\ pc[th] = "lock"
    /\ stateMutex = NoThread
    /\ IF CheckFFRTTaskAvailability(th, call[th].state, call[th].reason)
       THEN /\ stateMutex' = th
            /\ settingStateFlag' = call[th].state
            /\ GoTo(th, "check")
            /\ UNCHANGED << screenMutex, lockMutex, call >>
       ELSE /\ Return(th)
            /\ UNCHANGED << stateMutex, settingStateFlag >>
    /\ UNCHANGED << currentState, display, handle, sleepTime, sleepReason, settings, overtaken >>

Forced(c) == c.force \/ (IsTimeoutReason(c.reason) /\ forceTimingOut)

\* TransitTo up to the state's action: match, "already in state", forbidden, blocked by a lock.
TransitCheck(th) ==
    LET c == call[th]
        matched == MatchState(currentState, c.state, display)
        already == ~CheckState(matched, c.state)
        refused == \/ ~CanTransitTo(matched, c.state, c.reason)
                   \/ ~Forced(c) /\ BlockedByScreenLock(c.state) /\ screenLock
    IN  /\ pc[th] = "check"
        /\ currentState' = matched
        /\ call' = [ call EXCEPT ![th].ok = already ]
        /\ GoTo(th, IF already \/ refused THEN "exit" ELSE "act")
        /\ UNCHANGED << display, settingStateFlag, stateMutex, screenMutex, lockMutex, handle,
                        sleepTime, sleepReason, settings, overtaken >>

DisplayOf(state) == CASE state = "AWAKE" -> "ON" [] state = "DIM" -> "DIM" [] OTHER -> "OFF"

\* A mutant of StateAction: a display that fails is "not returned", for INACTIVE as for DIM.
StateAction_IgnoresFailure(th) ==
    /\ pc[th] = "act"
    /\ LET s == call[th].state
       IN  /\ \/ display' = IF s = "SLEEP" THEN display ELSE DisplayOf(s)
              \/ DisplayMayFail /\ display' = display
           /\ call' = [ call EXCEPT ![th].ok = TRUE ]
           /\ GoTo(th, CASE s = "AWAKE" -> "cas" [] s = "SLEEP" -> "commit" [] OTHER -> "cancelTimers")
    /\ UNCHANGED << currentState, settingStateFlag, stateMutex, screenMutex, lockMutex, handle,
                    sleepTime, sleepReason, settings, overtaken >>

\* The state's action up to the display: DIM gives up when automatic screen-off is disabled,
\* AWAKE and INACTIVE when the display fails, DIM goes on to its timer even then, SLEEP leaves
\* the display alone.
StateAction(th) ==
    /\ pc[th] = "act"
    /\ LET s == call[th].state
       IN  \/ /\ s = "DIM" /\ ~autoOff
              /\ GoTo(th, "exit")
              /\ UNCHANGED << display, call >>
           \/ /\ s = "SLEEP"
              /\ GoTo(th, "commit")
              /\ UNCHANGED << display, call >>
           \/ /\ s # "SLEEP" /\ (s = "DIM" => autoOff)
              /\ display' = DisplayOf(s)
              /\ call' = [ call EXCEPT ![th].ok = TRUE ]
              /\ GoTo(th, IF s = "AWAKE" THEN "cas" ELSE "cancelTimers")
           \/ /\ DisplayMayFail
              /\ s # "SLEEP" /\ (s = "DIM" => autoOff)
              /\ GoTo(th, IF s = "DIM" THEN "cancelTimers" ELSE "exit")
              /\ UNCHANGED << display, call >>
    /\ UNCHANGED << currentState, settingStateFlag, stateMutex, screenMutex, lockMutex, handle,
                    sleepTime, sleepReason, settings, overtaken >>

\* The rest of INACTIVE's action, and DIM's up to its own timer.
ActionCancelTimers(th) ==
    /\ pc[th] = "cancelTimers"
    /\ handle' = CancelTimer(handle, {"TIMEOUT", "OFF"})
    /\ GoTo(th, IF call[th].state = "DIM" THEN "dimArm" ELSE "commit")
    /\ UNCHANGED << currentState, display, settingStateFlag, stateMutex, screenMutex, lockMutex,
                    sleepTime, sleepReason, settings, call, overtaken >>

\* A mutant of DimArm: DIM does not arm the screen-off timer.
DimArm_NoTimer(th) ==
    /\ pc[th] = "dimArm"
    /\ GoTo(th, "dimCheck")
    /\ UNCHANGED << currentState, display, settingStateFlag, stateMutex, screenMutex, lockMutex,
                    handle, sleepTime, sleepReason, settings, call, overtaken >>

\* DIM's own timer, armed without looking at the running locks.
DimArm(th) ==
    /\ pc[th] = "dimArm"
    /\ handle' = IF autoOff THEN SetTimer(handle, "OFF") ELSE handle
    /\ GoTo(th, "dimCheck")
    /\ UNCHANGED << currentState, display, settingStateFlag, stateMutex, screenMutex, lockMutex,
                    sleepTime, sleepReason, settings, call, overtaken >>

\* "In case a refresh action occurs, change display state back to on": the result of that
\* SetDisplayState is ignored.
DimCheck(th) ==
    /\ pc[th] = "dimCheck"
    /\ IF settingStateFlag = "DIM_INTERRUPTED"
       THEN /\ display' = "ON" \/ (DisplayMayFail /\ display' = display)
            /\ call' = [ call EXCEPT ![th].ok = FALSE ]
            /\ GoTo(th, "cas")
       ELSE /\ GoTo(th, IF call[th].ok THEN "commit" ELSE "exit")
            /\ UNCHANGED << display, call >>
    /\ UNCHANGED << currentState, settingStateFlag, stateMutex, screenMutex, lockMutex, handle,
                    sleepTime, sleepReason, settings, overtaken >>

\* currentState_ is assigned and the listeners are notified: the suspend controller's listener
\* stops the sleep timer when the new state is AWAKE.
Commit(th) ==
    LET stopSleep == call[th].state = "AWAKE" /\ NeedNotify(currentState, "AWAKE")
    IN  /\ pc[th] = "commit"
        /\ currentState' = call[th].state
        /\ handle' = IF stopSleep THEN CancelTimer(handle, {"SLEEP"}) ELSE handle
        /\ sleepTime' = (sleepTime /\ ~stopSleep)
        /\ call' = [ call EXCEPT ![th].ok = TRUE ]
        /\ GoTo(th, "exit")
        /\ UNCHANGED << display, settingStateFlag, stateMutex, screenMutex, lockMutex, sleepReason,
                        settings, overtaken >>

\* SetState returns: the flag is lowered, then the mutex released.  A suspend that succeeded
\* goes on to StartSleepTimer.
SetStateExit(th) ==
    /\ pc[th] = "exit"
    /\ settingStateFlag' = "NONE"
    /\ stateMutex' = NoThread
    /\ IF call[th].op \in {"suspend", "offTask"} /\ call[th].ok
       THEN /\ GoTo(th, "sleepTimer")
            /\ UNCHANGED << screenMutex, lockMutex, call >>
       ELSE Return(th)
    /\ UNCHANGED << currentState, display, handle, sleepTime, sleepReason, settings, overtaken >>

\* StartSleepTimer with delay 0: ignored when an earlier sleep event is pending, but two calls
\* within the same millisecond replace one another; and ignored when the power mode has set the
\* sleep time below zero, which may be at any time.
StartSleepTimer(th) ==
    /\ pc[th] = "sleepTimer"
    /\ \/ /\ handle' = SetTimer(handle, "SLEEP")
          /\ sleepTime' = TRUE
          /\ sleepReason' = IF call[th].op = "offTask" THEN "TIMEOUT" ELSE "APPLICATION"
       \/ UNCHANGED << handle, sleepTime, sleepReason >>
    /\ Return(th)
    /\ UNCHANGED << currentState, display, settingStateFlag, stateMutex, settings, overtaken >>

-------------------------------------------------------------------------------
(* The operations clients call *)

\* RefreshActivityInner of the service waits for screenMutex_, drops a refresh that comes within
\* 100 ms of the last one, and looks at the screen before anything else.
RefreshActivity(c) ==
    /\ "refresh" \in Ops /\ pc[c] = "idle"
    /\ Begin(c, "refresh", "enterRefresh")
    /\ UNCHANGED << currentState, display, settingStateFlag, stateMutex, screenMutex, lockMutex,
                    handle, sleepTime, sleepReason, settings, overtaken >>

EnterRefresh(c) ==
    /\ pc[c] = "enterRefresh"
    /\ screenMutex = NoThread
    /\ recentRefresh' = TRUE
    /\ IF ~recentRefresh /\ ScreenOn(display) /\ ~IsSettingState("INACTIVE")
       THEN /\ GoTo(c, "refresh")
            /\ screenMutex' = c
            /\ UNCHANGED << lockMutex, call >>
       ELSE Return(c)
    /\ UNCHANGED << currentState, display, settingStateFlag, stateMutex, handle, sleepTime, sleepReason,
                    screenLock, forceTimingOut, autoOff, timingOutLockScreen, overtaken >>

\* RefreshActivityInner of the state machine: leave DIM, or only restart the timer.
RefreshBranch(c) ==
    /\ pc[c] = "refresh"
    /\ IF currentState = "DIM" \/ IsSettingState("DIM")
       THEN CallSetState(c, call[c].op, "AWAKE", "REFRESH", TRUE)
       ELSE GoTo(c, "cas") /\ UNCHANGED call
    /\ UNCHANGED << currentState, display, settingStateFlag, stateMutex, screenMutex, lockMutex,
                    handle, sleepTime, sleepReason, settings, overtaken >>

\* 100 ms pass after a refresh.
ThrottlePeriodEnds ==
    /\ recentRefresh
    /\ recentRefresh' = FALSE
    /\ UNCHANGED << currentState, display, settingStateFlag, stateMutex, screenMutex, lockMutex,
                    handle, sleepTime, sleepReason, screenLock, forceTimingOut, autoOff,
                    timingOutLockScreen, pc, call, overtaken >>

\* WakeupDeviceInner stops the sleep timer before SetState.
WakeupDevice(c) ==
    /\ "wakeup" \in Ops /\ pc[c] = "idle"
    /\ handle' = CancelTimer(handle, {"SLEEP"})
    /\ sleepTime' = FALSE
    /\ CallSetState(c, "wakeup", "AWAKE", "APPLICATION", TRUE)
    /\ UNCHANGED << currentState, display, settingStateFlag, stateMutex, screenMutex, lockMutex,
                    sleepReason, settings, overtaken >>

SuspendDevice(c) ==
    /\ "suspend" \in Ops /\ pc[c] = "idle"
    /\ CallSetState(c, "suspend", "INACTIVE", "APPLICATION", TRUE)
    /\ UNCHANGED << currentState, display, settingStateFlag, stateMutex, screenMutex, lockMutex,
                    handle, sleepTime, sleepReason, settings, overtaken >>

\* Lock and UnLock of a SCREEN running lock wait for lockMutex_.
ScreenLockCall(c, opName) ==
    /\ "screenLock" \in Ops /\ pc[c] = "idle"
    /\ Begin(c, opName, "enterLock")
    /\ UNCHANGED << currentState, display, settingStateFlag, stateMutex, screenMutex, lockMutex,
                    handle, sleepTime, sleepReason, settings, overtaken >>

\* The first SCREEN lock refreshes the activity, the last one to be given back restarts the timer
\* when the state is AWAKE; both still under lockMutex_.
EnterLock(c) ==
    /\ pc[c] = "enterLock"
    /\ lockMutex = NoThread
    /\ screenLock' = (call[c].op = "screenLock")
    /\ IF screenLock' = screenLock
       THEN Return(c)
       ELSE /\ lockMutex' = c
            /\ GoTo(c, IF screenLock' THEN "enterRefresh" ELSE "unlocked")
            /\ UNCHANGED << screenMutex, call >>
    /\ UNCHANGED << currentState, display, settingStateFlag, stateMutex, handle, sleepTime, sleepReason,
                    forceTimingOut, autoOff, timingOutLockScreen, recentRefresh, overtaken >>

SetDisplayOffTime(c, enabled) ==
    /\ "setDisplayOffTime" \in Ops /\ pc[c] = "idle"
    /\ autoOff' = enabled
    /\ Begin(c, "setDisplayOffTime", "offTime")
    /\ UNCHANGED << currentState, display, settingStateFlag, stateMutex, screenMutex, lockMutex,
                    handle, sleepTime, sleepReason, screenLock, forceTimingOut, timingOutLockScreen,
                    recentRefresh, overtaken >>

\* A mutant of ResetIfAwake: giving the screen lock back does not restart the timer.
ResetIfAwake_NoReset(c) ==
    /\ pc[c] \in {"unlocked", "offTime"}
    /\ Return(c)
    /\ UNCHANGED << currentState, display, settingStateFlag, stateMutex, handle, sleepTime, sleepReason,
                    settings, overtaken >>

\* The second half of SetDisplayOffTime and of the last screen lock's release.
ResetIfAwake(c) ==
    /\ pc[c] \in {"unlocked", "offTime"}
    /\ IF currentState = "AWAKE"
       THEN GoTo(c, "cas") /\ UNCHANGED << screenMutex, lockMutex, call >>
       ELSE Return(c)
    /\ UNCHANGED << currentState, display, settingStateFlag, stateMutex, handle, sleepTime, sleepReason,
                    settings, overtaken >>

\* The exchange, and the early return when nothing changes or no screen lock is active.
SetForceTimingOut(c, enabled) ==
    /\ "setForceTimingOut" \in Ops /\ pc[c] = "idle"
    /\ forceTimingOut' = enabled
    /\ IF forceTimingOut = enabled \/ ~screenLock
       THEN UNCHANGED << pc, call >>
       ELSE Begin(c, IF enabled THEN "forceOn" ELSE "forceOff", "force")
    /\ UNCHANGED << currentState, display, settingStateFlag, stateMutex, screenMutex, lockMutex,
                    handle, sleepTime, sleepReason, screenLock, autoOff, timingOutLockScreen,
                    recentRefresh, overtaken >>

\* The rest of SetForceTimingOut: a "weak" reset that try_locks stateMutex_, or leaving DIM.
ForceTimingOutEffect(c) ==
    /\ pc[c] = "force"
    /\ \/ /\ ~IsSettingState("DIM") /\ call[c].op = "forceOn"
          /\ stateMutex = NoThread /\ currentState = "AWAKE"
          /\ stateMutex' = c
          /\ GoTo(c, "cas")
          /\ UNCHANGED << screenMutex, lockMutex, call >>
       \/ /\ ~IsSettingState("DIM") /\ call[c].op = "forceOff"
          /\ CallSetState(c, "forceOff", "AWAKE", "REFRESH", FALSE)
          /\ UNCHANGED << stateMutex, screenMutex, lockMutex >>
       \/ /\ \/ IsSettingState("DIM")
             \/ call[c].op = "forceOn" /\ (stateMutex # NoThread \/ currentState # "AWAKE")
          /\ Return(c)
          /\ UNCHANGED stateMutex
    /\ UNCHANGED << currentState, display, settingStateFlag, handle, sleepTime, sleepReason, settings,
                    overtaken >>

LockScreenAfterTimingOut(c, mode) ==
    /\ "lockScreenAfterTimingOut" \in Ops /\ pc[c] = "idle"
    /\ timingOutLockScreen # mode
    /\ timingOutLockScreen' = mode
    /\ UNCHANGED << currentState, display, settingStateFlag, stateMutex, screenMutex, lockMutex,
                    handle, sleepTime, sleepReason, screenLock, forceTimingOut, autoOff,
                    recentRefresh, pc, call, overtaken >>

-------------------------------------------------------------------------------
(* The tasks of the queue *)

\* A timer expires and its task starts; from here on cancelling it only takes its handle away.
Fire(timer) ==
    /\ pc[queue] = "idle"
    /\ handle[timer] = "armed"
    /\ handle' = [ handle EXCEPT ![timer] = "running" ]
    /\ overtaken' = FALSE
    /\ \/ timer = "TIMEOUT" /\ CallSetState(queue, "dimTask", "DIM", "TIMEOUT", FALSE)
       \/ timer = "OFF" /\ Begin(queue, "offTask", "off")
       \/ timer = "SLEEP"
          /\ CallSetState(queue, "sleepTask", "SLEEP", GetReasonBySuspendType(sleepReason), FALSE)
    /\ UNCHANGED << currentState, display, settingStateFlag, stateMutex, screenMutex, lockMutex,
                    sleepTime, sleepReason, settings >>

\* TimeoutSuspendMonitor::HandleEvent through ControlListener: nothing to do when the screen is
\* off, else SetState(INACTIVE) that a lock may block.
OffTimeout ==
    /\ pc[queue] = "off"
    /\ IF ScreenOn(display)
       THEN /\ CallSetState(queue, "offTask", "INACTIVE", GetReasonBySuspendType("TIMEOUT"), FALSE)
            /\ UNCHANGED << screenMutex, lockMutex >>
       ELSE Return(queue)
    /\ UNCHANGED << currentState, display, settingStateFlag, stateMutex, handle, sleepTime, sleepReason,
                    settings, overtaken >>

\* The task is over and its handle names nothing any more; HandleAction clears sleepTime_.
TaskEnd ==
    /\ pc[queue] = "taskEnd"
    /\ handle' = [ t \in Timers |-> IF handle[t] = "running" THEN "null" ELSE handle[t] ]
    /\ sleepTime' = (sleepTime /\ call[queue].op # "sleepTask")
    /\ overtaken' = FALSE
    /\ pc' = [ pc EXCEPT ![queue] = "idle" ]
    /\ call' = [ call EXCEPT ![queue] = NoCall ]
    /\ UNCHANGED << currentState, display, settingStateFlag, stateMutex, screenMutex, lockMutex,
                    sleepReason, settings >>

-------------------------------------------------------------------------------
\* InitState: AWAKE with its timer when the screen is on at boot, else INACTIVE.
Init ==
    /\ \/ /\ currentState = "AWAKE" /\ display = "ON"
          /\ handle = [ t \in Timers |-> IF t = "TIMEOUT" THEN "armed" ELSE "null" ]
       \/ /\ currentState = "INACTIVE" /\ display = "OFF"
          /\ handle = [ t \in Timers |-> "null" ]
    /\ settingStateFlag = "NONE"
    /\ stateMutex = NoThread /\ screenMutex = NoThread /\ lockMutex = NoThread
    /\ sleepTime = FALSE /\ sleepReason = "APPLICATION"
    /\ screenLock = FALSE /\ forceTimingOut = FALSE /\ autoOff = TRUE
    /\ timingOutLockScreen = "always" /\ recentRefresh = FALSE
    /\ pc = [ th \in Threads |-> "idle" ]
    /\ call = [ th \in Threads |-> NoCall ]
    /\ overtaken = FALSE

\* A step of an operation that has begun.
ThreadStep(th) ==
    \/ ResetCas(th) \/ ResetCancel(th) \/ ResetArm(th)
    \/ SetStateLock(th) \/ TransitCheck(th) \/ StateAction(th) \/ ActionCancelTimers(th)
    \/ DimArm(th) \/ DimCheck(th) \/ Commit(th) \/ SetStateExit(th) \/ StartSleepTimer(th)

ClientStep(c) == EnterLock(c) \/ EnterRefresh(c) \/ RefreshBranch(c) \/ ResetIfAwake(c) \/ ForceTimingOutEffect(c)

ClientCall(c) ==
    \/ RefreshActivity(c) \/ WakeupDevice(c) \/ SuspendDevice(c)
    \/ \E o \in {"screenLock", "screenUnlock"} : ScreenLockCall(c, o)
    \/ \E b \in BOOLEAN : SetDisplayOffTime(c, b) \/ SetForceTimingOut(c, b)
    \/ \E m \in LockScreenModes : LockScreenAfterTimingOut(c, m)

QueueStep == OffTimeout \/ TaskEnd

Next ==
    \/ \E th \in Threads : ThreadStep(th)
    \/ \E c \in Clients : ClientStep(c) \/ ClientCall(c)
    \/ \E t \in Timers : Fire(t)
    \/ QueueStep
    \/ ThrottlePeriodEnds

Spec == Init /\ [][Next]_vars

\* The step of a thread that waits for a mutex.
TakeMutex(th) == SetStateLock(th) \/ (th \in Clients /\ (EnterLock(th) \/ EnterRefresh(th)))

\* Threads that run are scheduled and a timer that stays armed fires; a thread that waits for a
\* mutex gets it if it is released again and again (ffrt::mutex queues its waiters).
Fairness ==
    /\ \A c \in Clients : WF_vars(ThreadStep(c) \/ ClientStep(c))
    /\ WF_vars(ThreadStep(queue) \/ QueueStep)
    /\ \A th \in Threads : SF_vars(TakeMutex(th))
    /\ \A t \in Timers : WF_vars(Fire(t))

FairSpec == Spec /\ Fairness

-------------------------------------------------------------------------------
(* Properties *)

\* The power state agrees with the display: between two SetState calls the screen is off exactly
\* when the state is INACTIVE or SLEEP, and DIM is never reported for a bright screen.  The two
\* are written several steps apart and either step may be reached after a failure (a display that
\* refuses, an interrupted DIM), so an error path that leaves one behind breaks this; MatchState
\* exists to repair such a disagreement, and under this invariant it never has to.
StateMatchesDisplay ==
    stateMutex = NoThread =>
        /\ currentState \in {"INACTIVE", "SLEEP"} <=> display = "OFF"
        /\ currentState = "DIM" => display = "DIM"

\* A time-out task that had already started when ResetInactiveTimer cancelled the timers, and had
\* not yet entered SetState, never gets as far as the display: the strong reset "invalidates any
\* time-out timer previously set" although a started FFRT task cannot be cancelled.
OvertakenTaskIsDropped ==
    overtaken => pc[queue] \in {"off", "lock", "taskEnd"}

\* Every change of currentState_ is one that CanTransitTo allows from the state it really leaves:
\* the check TransitTo made is still true several steps later, when the state is assigned.
TransitionsAreAllowed ==
    [][ currentState' # currentState =>
          \E th \in Threads :
              stateMutex = th /\ CanTransitTo(currentState, currentState', call[th].reason) ]_vars

Quiet == \A th \in Threads : pc[th] = "idle"

TimerArmed == handle["TIMEOUT"] = "armed" \/ handle["OFF"] = "armed"

\* When nothing is in progress, an AWAKE device with no screen lock has a timer that will turn the
\* screen off: refreshes, screen locks, forced time-outs and interrupted DIMs cancel and arm the two
\* timers from several threads without a common lock, and one timer is left in the end.
AwakeHasTimer == Quiet /\ currentState = "AWAKE" /\ autoOff /\ ~screenLock => TimerArmed

\* SetForceTimingOut's comment: "the goal here is to ensure that there exist some Timer, regardless
\* who sets the timer", which is what makes a forced time-out happen under a screen lock.
ForcedTimeoutHasTimer ==
    Quiet /\ currentState = "AWAKE" /\ autoOff /\ screenLock /\ forceTimingOut => TimerArmed

\* EmplaceDim's comment: "in case a refresh action occurs, change display state back to on": when
\* SetState(DIM) is over, a refresh that raised SETTING_DIM_INTERRUPTED has got its screen back.
InterruptedDimIsUndone ==
    \A th \in Threads :
        pc[th] = "exit" /\ call[th].state = "DIM" /\ settingStateFlag = "DIM_INTERRUPTED"
            => display = "ON"

-------------------------------------------------------------------------------
(* The inductive invariant behind StateMatchesDisplay, TransitionsAreAllowed and            *)
(* OvertakenTaskIsDropped: what holds at each line of SetState for the thread that is there. *)

InSetState == {"check", "act", "cancelTimers", "dimArm", "dimCheck", "commit", "exit"}

InReset == {"cas", "cancel", "arm"}

Consistent ==
    /\ currentState \in {"INACTIVE", "SLEEP"} <=> display = "OFF"
    /\ currentState = "DIM" => display = "DIM"

\* stateMutex_ is owned by the thread inside SetState, and while it resets the timer there.
MutexInv ==
    \A th \in Threads :
        /\ pc[th] \in InSetState => stateMutex = th
        /\ stateMutex = th => pc[th] \in InSetState \cup InReset

\* What the callers of SetState pass: only the time-out asks for DIM, a weak reset never calls it.
CallInv ==
    \A th \in Threads :
        /\ pc[th] \in InSetState \cup {"lock", "enterLock", "enterRefresh", "refresh"} => call[th].op # "forceOn"
        /\ call[th].state = "DIM" => call[th].reason = "TIMEOUT"

\* The display while DIM is being set: its failure, which DIM goes past, is remembered in ok.
SettingDim(th) ==
    /\ call[th].state = "DIM" /\ currentState = "AWAKE"
    /\ display # "OFF"
    /\ call[th].ok => display = "DIM"

Allowed(th) == CanTransitTo(currentState, call[th].state, call[th].reason)

\* The display and the state at each line of SetState.
Phase(th) ==
    /\ pc[th] \in {"check", "act", "exit"} => Consistent
    /\ pc[th] = "act" => Allowed(th) /\ CheckState(currentState, call[th].state) /\ ~call[th].ok
    /\ pc[th] = "cancelTimers" =>
           /\ (call[th].state = "INACTIVE" /\ display = "OFF") \/ SettingDim(th)
           /\ Allowed(th)
    /\ pc[th] \in {"dimArm", "dimCheck"} => SettingDim(th) /\ Allowed(th)
    /\ pc[th] \in InReset =>
           \/ call[th].op = "forceOn" /\ Consistent
           \/ call[th].op # "forceOn" /\ call[th].state = "AWAKE" /\ display = "ON" /\ Allowed(th)
           \/ call[th].op # "forceOn" /\ SettingDim(th)
    /\ pc[th] = "commit" => display = DisplayOf(call[th].state) /\ Allowed(th)

PhaseInv ==
    /\ stateMutex = NoThread => Consistent
    /\ \A th \in Threads : stateMutex = th => Phase(th)

\* The queue's task and the handle it would be checked against.
OvertakenInv ==
    /\ pc[queue] = "off" => call[queue].op = "offTask"
    /\ pc[queue] = "lock" =>
           /\ call[queue].op = "dimTask" => call[queue].state = "DIM" /\ call[queue].reason = "TIMEOUT"
           /\ call[queue].op = "offTask" =>
                  call[queue].state = "INACTIVE" /\ IsTimeoutReason(call[queue].reason)
    /\ overtaken =>
           /\ pc[queue] \in {"off", "lock", "taskEnd"}
           /\ \/ call[queue].op = "dimTask" /\ handle["TIMEOUT"] # "running"
              \/ call[queue].op = "offTask" /\ handle["OFF"] # "running"

SafetyInv == TypeOK /\ MutexInv /\ CallInv /\ PhaseInv /\ OvertakenInv

-------------------------------------------------------------------------------
(* Liveness *)

\* Nobody waits for ever: lockMutex_, screenMutex_ and stateMutex_ are nested in this order by a
\* screen lock's refresh, and each is given back on every path, so every call returns.
EveryCallReturns == \A c \in Clients : pc[c] # "idle" ~> pc[c] = "idle"

ClientsIdle == \A c \in Clients : pc[c] = "idle"

\* When the callers are done and no lock is held, the time-out chain AWAKE, DIM, INACTIVE comes to
\* its end and the screen stays off.
ScreenGoesOff == <>[](ClientsIdle /\ autoOff /\ ~screenLock) => <>[](display = "OFF")

==============================================================================
