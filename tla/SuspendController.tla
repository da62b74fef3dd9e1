-------------------------- MODULE SuspendController --------------------------
(***************************************************************************)
(* The way into and out of SLEEP: SuspendController's sleep timer and its  *)
(* tasks, the wake-up paths of PowerStateMachine and WakeupController that *)
(* undo them, and SystemSuspendController, which passes both on to the HDI *)
(* power service.  SetState is serialised by stateMutex_; everything else  *)
(* here (sleepTime_, the timer, allowSleepTask_, the sync callbacks, the   *)
(* HDI) is touched outside of it, by client threads and by the FFRT queue, *)
(* one shared access per step.                                             *)
(*                                                                         *)
(* AWAKE stands for DIM too, and the screen is on exactly when the state   *)
(* is AWAKE (StateMatchesDisplay of PowerStateMachine).                    *)
(***************************************************************************)
EXTENDS PowerState

CONSTANTS
    Clients,          \* threads that call into the service
    queue,            \* the thread of power_manager_ffrt_queue
    NoThread,         \* the owner of a free mutex
    Ops,              \* the operations clients call in this instance
    Actions,          \* the SuspendActions that the power_suspend.json sources are given
    SetStateMayFail   \* whether SetState may be refused by a lock or the display

AllOps == { "wakeupDevice", "handleWakeup", "suspendDevice", "forceSuspendDevice", "monitor", "switch" }

SleepActions == {"AUTO", "FORCE", "NONE"}

ASSUME ThreadsAssumption == queue \notin Clients /\ NoThread \notin Clients \cup {queue}
ASSUME OpsAssumption == Ops \subseteq AllOps
ASSUME ActionsAssumption == Actions \subseteq SleepActions
ASSUME FailAssumption == SetStateMayFail \in BOOLEAN

Threads == Clients \cup {queue}

VARIABLES
    currentState,     \* currentState_
    stateMutex,       \* owner of PowerStateMachine::stateMutex_
    handle,           \* the handle of TIMER_ID_SLEEP
    task,             \* what the armed task of that timer will do
    sleepTime,        \* SuspendController::sleepTime_ # -1
    sleepType,        \* SuspendController::sleepType_
    allowSleepTask,   \* SystemSuspendController::allowSleepTask_
    autoSuspend,      \* the HDI: StartSuspend was called, and no StopSuspend since
    onForceSleep,     \* SuspendController::onForceSleep
    pc,               \* where each thread is
    call,             \* the operation each thread is in
    forceWanted       \* history: the last request was ForceSuspendDevice, not yet carried out

vars == << currentState, stateMutex, handle, task, sleepTime, sleepType, allowSleepTask, autoSuspend,
           onForceSleep, pc, call, forceWanted >>

-------------------------------------------------------------------------------
HandleStates == {"null", "armed", "running"}

Labels == { "idle", "cancelSleep", "clearSleep", "hdiWakeup", "lock", "allow", "disallow", "commit",
            "exit", "awakeCheck", "sleepCheck", "trigger", "start", "mark", "arm", "hdiSuspend",
            "armForce", "taskEnd" }

\* The operations of clients, and those of the queue: the screen-off time-out, HandleAction and
\* the delayed task of HandleForceSleep.
OpNames == AllOps \cup {"none", "switchForced", "timeout", "handleAction", "forceTask"}

Tasks == [ op : {"handleAction", "forceTask"}, action : SleepActions, reason : Reasons ]

Calls == [ op : OpNames, action : SleepActions, reason : Reasons ]

NoCall == [ op |-> "none", action |-> "NONE", reason |-> "APPLICATION" ]

TypeOK ==
    /\ currentState \in States
    /\ stateMutex \in Threads \cup {NoThread}
    /\ handle \in HandleStates
    /\ task \in Tasks
    /\ sleepTime \in BOOLEAN
    /\ sleepType \in SleepActions
    /\ allowSleepTask \in BOOLEAN
    /\ autoSuspend \in BOOLEAN
    /\ onForceSleep \in BOOLEAN
    /\ pc \in [Threads -> Labels]
    /\ call \in [Threads -> Calls]
    /\ forceWanted \in BOOLEAN

-------------------------------------------------------------------------------
\* The thread goes on; a client that becomes idle has returned from its call.
GoTo(th, label) ==
    /\ pc' = [ pc EXCEPT ![th] = label ]
    /\ call' = [ call EXCEPT ![th] = IF label = "idle" THEN NoCall ELSE @ ]

Begin(th, label, opName, action, reason) ==
    /\ pc' = [ pc EXCEPT ![th] = label ]
    /\ call' = [ call EXCEPT ![th] = [ op |-> opName, action |-> action, reason |-> reason ] ]

Done(th) == IF th = queue THEN "taskEnd" ELSE "idle"

Waking(th) == call[th].op \in {"wakeupDevice", "handleWakeup"}

\* The state that the operation asks SetState for.
Target(th) == CASE Waking(th)                       -> "AWAKE"
                [] call[th].op = "handleAction"     -> "SLEEP"
                [] OTHER                            -> "INACTIVE"

hdi == << allowSleepTask, autoSuspend >>

sleepVars == << handle, task, sleepTime, sleepType >>

-------------------------------------------------------------------------------
(* StopSleep: the timer first, sleepTime_ after it. *)

StopSleepCancel(th) ==
    /\ pc[th] = "cancelSleep"
    /\ handle' = "null"
    /\ GoTo(th, "clearSleep")
    /\ UNCHANGED << currentState, stateMutex, task, sleepTime, sleepType, hdi, onForceSleep, forceWanted >>

\* Called by the listener of SetState(AWAKE), by the two wake-ups and by SuspendWhenScreenOff.
StopSleepClear(th) ==
    /\ pc[th] = "clearSleep"
    /\ sleepTime' = FALSE
    /\ GoTo(th, IF stateMutex = th THEN "exit"
                ELSE CASE call[th].op = "wakeupDevice"     -> "lock"
                       [] call[th].op = "handleWakeup"     -> "hdiWakeup"
                       [] OTHER                            -> "start")
    /\ UNCHANGED << currentState, stateMutex, handle, task, sleepType, hdi, onForceSleep, forceWanted >>

-------------------------------------------------------------------------------
(* StartSleepTimer *)

\* "Already have a sleep event": sleepTime_ is read outside of any lock; a call within the same
\* millisecond, or with a delay that ends before the pending event's, goes on all the same.  An
\* automatic sleep is dropped when the power mode has set the state machine's sleep time below zero.
StartSleepTimer(th) ==
    /\ pc[th] = "start"
    /\ \/ GoTo(th, "mark")
       \/ (sleepTime \/ call[th].action = "AUTO") /\ GoTo(th, Done(th))
    /\ UNCHANGED << currentState, stateMutex, sleepVars, hdi, onForceSleep, forceWanted >>

MarkSleepTime(th) ==
    /\ pc[th] = "mark"
    /\ sleepTime' = TRUE
    /\ sleepType' = call[th].action
    /\ GoTo(th, "arm")
    /\ UNCHANGED << currentState, stateMutex, handle, task, hdi, onForceSleep, forceWanted >>

ArmSleepTimer(th) ==
    /\ pc[th] = "arm"
    /\ handle' = "armed"
    /\ task' = [ op |-> "handleAction", action |-> call[th].action, reason |-> call[th].reason ]
    /\ GoTo(th, Done(th))
    /\ UNCHANGED << currentState, stateMutex, sleepTime, sleepType, hdi, onForceSleep, forceWanted >>

-------------------------------------------------------------------------------
(* SetState, with the parts of the states' actions that concern the HDI *)

\* What the caller of SetState does with its result.
AfterSetState(th, ok) ==
    CASE call[th].op = "wakeupDevice"         -> "trigger"
      [] call[th].op = "handleWakeup"         -> "awakeCheck"
      [] call[th].op = "forceSuspendDevice"   -> "start"
      [] call[th].op = "handleAction"         -> IF ~ok THEN Done(th)
                                                 ELSE IF call[th].action = "AUTO" THEN "sleepCheck"
                                                 ELSE "trigger"
      [] OTHER                                -> IF ok THEN "start" ELSE Done(th)

\* HandleForceSleep raises onForceSleep once SetState(SLEEP) has succeeded.
SetsForceSleep(th, ok) == ok /\ call[th].op = "handleAction" /\ call[th].action = "FORCE"

\* Under stateMutex_: a time-out task that was cancelled, "already in state", a forbidden transition
\* or a refusal by a lock or the display end the call; else the state's action begins.
SetState(th) ==
    LET c       == call[th]
        target  == Target(th)
        stale   == IsTimeoutReason(c.reason) /\ c.op = "handleAction" /\ handle # "running"
        already == ~CheckState(currentState, target)
        allowed == CanTransitTo(currentState, target, c.reason)
    IN  /\ pc[th] = "lock"
        /\ stateMutex = NoThread
        /\ \/ /\ ~stale /\ ~already /\ allowed
              /\ stateMutex' = th
              /\ GoTo(th, CASE target = "AWAKE" -> "disallow"
                            [] target = "SLEEP" -> "allow"
                            [] OTHER             -> "commit")
              /\ UNCHANGED onForceSleep
           \/ /\ ~stale /\ already
              /\ GoTo(th, AfterSetState(th, TRUE))
              /\ onForceSleep' = (onForceSleep \/ SetsForceSleep(th, TRUE))
              /\ UNCHANGED stateMutex
           \/ /\ stale \/ (~already /\ (~allowed \/ (SetStateMayFail /\ target # "SLEEP")))
              /\ GoTo(th, AfterSetState(th, FALSE))
              /\ UNCHANGED << stateMutex, onForceSleep >>
        /\ UNCHANGED << currentState, sleepVars, hdi, forceWanted >>

AllowAutoSleep(th) ==
    /\ pc[th] = "allow"
    /\ allowSleepTask' = TRUE
    /\ GoTo(th, "commit")
    /\ UNCHANGED << currentState, stateMutex, sleepVars, autoSuspend, onForceSleep, forceWanted >>

DisallowAutoSleep(th) ==
    /\ pc[th] = "disallow"
    /\ allowSleepTask' = FALSE
    /\ GoTo(th, "hdiWakeup")
    /\ UNCHANGED << currentState, stateMutex, sleepVars, autoSuspend, onForceSleep, forceWanted >>

\* The state is assigned; the suspend controller hears of a change to AWAKE and stops the timer.
Commit(th) ==
    /\ pc[th] = "commit"
    /\ currentState' = Target(th)
    /\ forceWanted' = (forceWanted /\ Target(th) # "AWAKE")
    /\ GoTo(th, IF Target(th) = "AWAKE" /\ NeedNotify(currentState, "AWAKE") THEN "cancelSleep" ELSE "exit")
    /\ UNCHANGED << stateMutex, sleepVars, hdi, onForceSleep >>

SetStateExit(th) ==
    /\ pc[th] = "exit"
    /\ stateMutex' = NoThread
    /\ GoTo(th, AfterSetState(th, TRUE))
    /\ onForceSleep' = (onForceSleep \/ SetsForceSleep(th, TRUE))
    /\ UNCHANGED << currentState, sleepVars, hdi, forceWanted >>

-------------------------------------------------------------------------------
(* SystemSuspendController: Suspend and Wakeup hold its mutex_ *)

\* StopSuspend: in the action of AWAKE, in HandleWakeup before SetState, in SuspendWhenStateSleep.
HdiWakeup(th) ==
    /\ pc[th] = "hdiWakeup"
    /\ autoSuspend' = FALSE
    /\ GoTo(th, IF stateMutex = th THEN "commit"
                ELSE CASE Waking(th)                        -> "lock"
                       [] call[th].op = "switchForced"      -> "hdiSuspend"
                       [] OTHER                             -> "start")
    /\ UNCHANGED << currentState, stateMutex, sleepVars, allowSleepTask, onForceSleep, forceWanted >>

Forces(th) == call[th].op \in {"forceTask", "switchForced"}

\* A mutant of HdiSuspend: allowSleepTask_ is not looked at.
HdiSuspend_Unchecked(th) ==
    /\ pc[th] = "hdiSuspend"
    /\ autoSuspend' = (autoSuspend \/ ~Forces(th))
    /\ forceWanted' = (forceWanted /\ ~Forces(th))
    /\ GoTo(th, Done(th))
    /\ UNCHANGED << currentState, stateMutex, sleepVars, allowSleepTask, onForceSleep >>

\* ForceSuspend whatever the state has become, StartSuspend only while the state allows it.
HdiSuspend(th) ==
    /\ pc[th] = "hdiSuspend"
    /\ autoSuspend' = (autoSuspend \/ (~Forces(th) /\ allowSleepTask))
    /\ forceWanted' = (forceWanted /\ ~Forces(th))
    /\ GoTo(th, Done(th))
    /\ UNCHANGED << currentState, stateMutex, sleepVars, allowSleepTask, onForceSleep >>

-------------------------------------------------------------------------------
(* The rest of the wake-ups and of the sleep tasks *)

\* HandleWakeup tells the sync callbacks only if the device is AWAKE now.
AwakeCheck(th) ==
    /\ pc[th] = "awakeCheck"
    /\ GoTo(th, IF currentState = "AWAKE" THEN "trigger" ELSE Done(th))
    /\ UNCHANGED << currentState, stateMutex, sleepVars, hdi, onForceSleep, forceWanted >>

\* SetAutoSleep, and the delayed task of HandleForceSleep, look at the state once more.
SleepCheck(th) ==
    /\ pc[th] = "sleepCheck"
    /\ GoTo(th, IF currentState # "SLEEP" THEN Done(th)
                ELSE IF call[th].op = "forceTask" THEN "hdiSuspend"
                ELSE "trigger")
    /\ UNCHANGED << currentState, stateMutex, sleepVars, hdi, onForceSleep, forceWanted >>

\* The sync callbacks, called one after the other under sleepCbMutex_.
TriggerSyncSleepCallback(th) ==
    /\ pc[th] = "trigger"
    /\ onForceSleep' = (onForceSleep /\ ~Waking(th))
    /\ GoTo(th, IF Waking(th) THEN Done(th)
                ELSE IF call[th].action = "AUTO" THEN "hdiSuspend"
                ELSE "armForce")
    /\ UNCHANGED << currentState, stateMutex, sleepVars, hdi, forceWanted >>

\* HandleForceSleep leaves the suspend to a task FORCE_SLEEP_DELAY_MS later, in the sleep timer's place.
ArmForceTask(th) ==
    /\ pc[th] = "armForce"
    /\ handle' = "armed"
    /\ task' = [ op |-> "forceTask", action |-> "FORCE", reason |-> call[th].reason ]
    /\ GoTo(th, Done(th))
    /\ UNCHANGED << currentState, stateMutex, sleepTime, sleepType, hdi, onForceSleep, forceWanted >>

-------------------------------------------------------------------------------
(* The operations *)

\* The service's suspendMutex_ and wakeupMutex_ admit one caller at a time.
NobodyIn(ops) == \A c \in Clients : call[c].op \notin ops

SuspendDevice(c) ==
    /\ "suspendDevice" \in Ops /\ pc[c] = "idle"
    /\ NobodyIn({"suspendDevice", "forceSuspendDevice"})
    /\ Begin(c, "lock", "suspendDevice", "AUTO", "APPLICATION")
    /\ forceWanted' = FALSE
    /\ UNCHANGED << currentState, stateMutex, sleepVars, hdi, onForceSleep >>

\* ForceSuspendDeviceInner: the result of SetState is ignored.
ForceSuspendDevice(c) ==
    /\ "forceSuspendDevice" \in Ops /\ pc[c] = "idle"
    /\ NobodyIn({"suspendDevice", "forceSuspendDevice"})
    /\ Begin(c, "lock", "forceSuspendDevice", "FORCE", "APPLICATION")
    /\ forceWanted' = TRUE
    /\ UNCHANGED << currentState, stateMutex, sleepVars, hdi, onForceSleep >>

WakeupDevice(c) ==
    /\ "wakeupDevice" \in Ops /\ pc[c] = "idle"
    /\ NobodyIn({"wakeupDevice"})
    /\ Begin(c, "cancelSleep", "wakeupDevice", "NONE", "APPLICATION")
    /\ UNCHANGED << currentState, stateMutex, sleepVars, hdi, onForceSleep, forceWanted >>

\* A wake-up monitor: nothing to do when the state is AWAKE, except for the opening switch or lid.
HandleWakeup(c, device) ==
    /\ "handleWakeup" \in Ops /\ pc[c] = "idle"
    /\ currentState # "AWAKE" \/ device = "LID"
    /\ Begin(c, "cancelSleep", "handleWakeup", "NONE", "APPLICATION")
    /\ UNCHANGED << currentState, stateMutex, sleepVars, hdi, onForceSleep, forceWanted >>

\* ControlListener of a suspend monitor while the screen is on.
ControlListener(c, action) ==
    /\ "monitor" \in Ops /\ pc[c] = "idle"
    /\ currentState = "AWAKE"
    /\ Begin(c, "lock", "monitor", action, "APPLICATION")
    /\ forceWanted' = FALSE
    /\ UNCHANGED << currentState, stateMutex, sleepVars, hdi, onForceSleep >>

\* ControlListener of the closing switch or lid while the screen is off: a sleep that is on its way is
\* replaced, an automatic one that has come is replaced by a forced one, a forced one is repeated.
SuspendWhenScreenOff(c, action) ==
    /\ "switch" \in Ops /\ pc[c] = "idle"
    /\ \/ /\ currentState = "INACTIVE"
          /\ Begin(c, "cancelSleep", "switch", action, "APPLICATION")
       \/ /\ currentState = "SLEEP" /\ action = "FORCE" /\ sleepType = "AUTO"
          /\ Begin(c, "hdiWakeup", "switch", action, "APPLICATION")
       \/ /\ currentState = "SLEEP" /\ action = "FORCE" /\ sleepType = "FORCE"
          /\ Begin(c, "hdiWakeup", "switchForced", action, "APPLICATION")
    /\ UNCHANGED << currentState, stateMutex, sleepVars, hdi, onForceSleep, forceWanted >>

-------------------------------------------------------------------------------
(* The tasks of the queue *)

\* The screen-off time-out through TimeoutSuspendMonitor.
OffTimeout ==
    /\ pc[queue] = "idle"
    /\ currentState = "AWAKE"
    /\ \E action \in Actions : Begin(queue, "lock", "timeout", action, "TIMEOUT")
    /\ UNCHANGED << currentState, stateMutex, sleepVars, hdi, onForceSleep, forceWanted >>

\* The sleep timer expires; HandleAction chooses by the action.
SleepTimerFires ==
    /\ pc[queue] = "idle"
    /\ handle = "armed"
    /\ handle' = "running"
    /\ Begin(queue, IF task.op = "forceTask" THEN "sleepCheck"
                    ELSE IF task.action = "NONE" THEN "taskEnd"
                    ELSE "lock",
             task.op, task.action, task.reason)
    /\ UNCHANGED << currentState, stateMutex, task, sleepTime, sleepType, hdi, onForceSleep, forceWanted >>

\* A mutant of TaskEnd: HandleAction leaves sleepTime_ as it is.
TaskEnd_KeepsSleepTime ==
    /\ pc[queue] = "taskEnd"
    /\ handle' = IF handle = "running" THEN "null" ELSE handle
    /\ GoTo(queue, "idle")
    /\ UNCHANGED << currentState, stateMutex, task, sleepTime, sleepType, hdi, onForceSleep, forceWanted >>

\* HandleAction's last lines; the other tasks end without them.
TaskEnd ==
    /\ pc[queue] = "taskEnd"
    /\ sleepTime' = (sleepTime /\ call[queue].op # "handleAction")
    /\ handle' = IF handle = "running" THEN "null" ELSE handle
    /\ GoTo(queue, "idle")
    /\ UNCHANGED << currentState, stateMutex, task, sleepType, hdi, onForceSleep, forceWanted >>

-------------------------------------------------------------------------------
Init ==
    /\ currentState \in {"AWAKE", "INACTIVE"}
    /\ stateMutex = NoThread
    /\ handle = "null"
    /\ task = [ op |-> "handleAction", action |-> "NONE", reason |-> "APPLICATION" ]
    /\ sleepTime = FALSE /\ sleepType = "NONE"
    /\ allowSleepTask = FALSE /\ autoSuspend = FALSE
    /\ onForceSleep = FALSE
    /\ pc = [ th \in Threads |-> "idle" ]
    /\ call = [ th \in Threads |-> NoCall ]
    /\ forceWanted = FALSE

ThreadStep(th) ==
    \/ StopSleepCancel(th) \/ StopSleepClear(th)
    \/ StartSleepTimer(th) \/ MarkSleepTime(th) \/ ArmSleepTimer(th)
    \/ SetState(th) \/ AllowAutoSleep(th) \/ DisallowAutoSleep(th) \/ Commit(th) \/ SetStateExit(th)
    \/ HdiWakeup(th) \/ HdiSuspend(th)
    \/ AwakeCheck(th) \/ SleepCheck(th) \/ TriggerSyncSleepCallback(th) \/ ArmForceTask(th)

ClientCall(c) ==
    \/ SuspendDevice(c) \/ ForceSuspendDevice(c) \/ WakeupDevice(c)
    \/ \E device \in { "KEY", "LID" } : HandleWakeup(c, device)
    \/ \E action \in Actions : ControlListener(c, action) \/ SuspendWhenScreenOff(c, action)

Next ==
    \/ \E th \in Threads : ThreadStep(th)
    \/ \E c \in Clients : ClientCall(c)
    \/ OffTimeout \/ SleepTimerFires \/ TaskEnd

Spec == Init /\ [][Next]_vars

-------------------------------------------------------------------------------
(* Properties *)

Quiet == \A th \in Threads : pc[th] = "idle"

\* Once the device is AWAKE the HDI's automatic suspend is off and stays off: SetAutoSleep decides to
\* suspend, then runs the sync callbacks, and a wake-up that passes it meanwhile is not undone by its
\* late StartSuspend, because AWAKE disallows it before StopSuspend.
AwakeIsNotAutoSuspended == currentState = "AWAKE" => ~autoSuspend

\* sleepTime_ never outlives its event: when nothing is in progress and it is set, the sleep timer is
\* armed.  StartSleepTimer, StopSleep and HandleAction write it and the timer one after the other
\* without a common lock; a value left behind would make every later StartSleepTimer return with
\* "already have a sleep event", and the device would never sleep again.
SleepTimeHasTimer == Quiet /\ sleepTime => handle = "armed"

\* power_mgr_client.h says of ForceSuspendDevice: "forcibly suspend the device into deepsleep".  When
\* nothing is in progress, a forced suspend that was the last request and that no wake-up has ended
\* has been passed on to the HDI, or is pending.
ForceSuspendIsCarriedOut == Quiet /\ forceWanted => handle = "armed"

-------------------------------------------------------------------------------
(* The inductive invariant behind AwakeIsNotAutoSuspended and SleepTimeHasTimer *)

\* stateMutex_ is owned by the thread inside SetState.
MutexInv ==
    \A th \in Threads :
        /\ pc[th] \in {"allow", "disallow", "commit", "exit"} => stateMutex = th
        /\ stateMutex = th =>
               pc[th] \in {"allow", "disallow", "hdiWakeup", "commit", "cancelSleep", "clearSleep", "exit"}

\* SLEEP is entered from a state other than AWAKE, and AWAKE with automatic suspend disallowed first
\* and stopped after.
AutoSuspendInv ==
    /\ currentState = "AWAKE" => ~allowSleepTask /\ ~autoSuspend
    /\ \A th \in Threads : stateMutex = th =>
           /\ pc[th] = "allow" => Target(th) = "SLEEP"
           /\ pc[th] \in {"disallow", "hdiWakeup"} => Target(th) = "AWAKE"
           /\ pc[th] \in {"allow", "commit"} /\ Target(th) = "SLEEP" => currentState # "AWAKE"
           /\ pc[th] \in {"hdiWakeup", "commit"} /\ Target(th) = "AWAKE" => ~allowSleepTask
           /\ pc[th] = "commit" /\ Target(th) = "AWAKE" => ~autoSuspend

\* Which operations reach the last steps of the sleep tasks and of the wake-ups.
OpInv ==
    \A th \in Threads :
        /\ pc[th] = "awakeCheck" => call[th].op = "handleWakeup"
        /\ pc[th] = "sleepCheck" => call[th].op \in {"handleAction", "forceTask"}
        /\ pc[th] = "trigger" => Waking(th) \/ call[th].op = "handleAction"
        /\ pc[th] = "armForce" => call[th].op = "handleAction"
        /\ call[th].op = "handleAction" => th = queue

\* Whoever is about to arm the timer or to clear sleepTime_.
SleepPending ==
    \/ handle = "armed" /\ task.op = "handleAction"
    \/ \E th \in Threads : pc[th] \in {"arm", "clearSleep"}
    \/ call[queue].op = "handleAction"

SleepTimeInv ==
    /\ sleepTime => SleepPending
    /\ pc[queue] = "idle" => call[queue].op = "none"

SleepInv == TypeOK /\ MutexInv /\ AutoSuspendInv /\ OpInv /\ SleepTimeInv

==============================================================================
