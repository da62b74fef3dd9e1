------------------------------ MODULE PowerKey ------------------------------
(***************************************************************************)
(* The power key: PowerKeySuspendMonitor (key up turns the screen off in   *)
(* an ffrt task), PowerkeyWakeupMonitor (key down interrupts that task and *)
(* wakes the device) and the hand-shake between both in DeviceStateAction. *)
(* Key events arrive on one thread, "key"; the screen-off task is "task"; *)
(* "other" turns the screen off by time-out and on by application.         *)
(***************************************************************************)
EXTENDS Naturals, FiniteSets

CONSTANT WaitMayTimeOut   \* whether wait_for may give up after its 300 ms

VARIABLES
    screenOn,                  \* PowerStateMachine::IsScreenOn(); the power state agrees with it
    stateMutex,                \* the owner of PowerStateMachine::stateMutex_, as a set
    dms,                       \* the display manager's screen-off: none, begun, cancelled
    screenOffStarted,          \* screenOffStarted_
    cvUnblocked,               \* cancelScreenOffCvUnblocked_
    interruptingScreenOff,     \* interruptingScreenOff_
    screenOffInterrupted,      \* screenOffInterrupted_
    powerkeyScreenOff,         \* PowerKeySuspendMonitor::powerkeyScreenOff_
    powerkeyDownWhenScreenOff, \* SuspendController::powerkeyDownWhenScreenOff_
    poweroffInterrupted,       \* the local variable of the key-down callback
    pressed,                   \* the key is down
    pc,                        \* where key, task and other are
    outcome                    \* history: how the last screen-off task ended

vars == << screenOn, stateMutex, dms, screenOffStarted, cvUnblocked, interruptingScreenOff,
           screenOffInterrupted, powerkeyScreenOff, powerkeyDownWhenScreenOff,
           poweroffInterrupted, pressed, pc, outcome >>

handshake == << screenOffStarted, cvUnblocked, interruptingScreenOff, screenOffInterrupted >>
keyFlags == << powerkeyScreenOff, powerkeyDownWhenScreenOff, poweroffInterrupted, pressed >>

KeyLabels == { "idle", "load", "cancel", "wait", "join", "record", "notify" }
TaskLabels == { "none", "listen", "lock", "begin", "display", "clear", "end" }
OtherLabels == { "idle", "begin", "display" }

TypeOK ==
    /\ stateMutex \in { {}, {"task"}, {"other"} }
    /\ dms \in { "none", "begun", "cancelled" }
    /\ pc \in [ key : KeyLabels, task : TaskLabels, other : OtherLabels ]
    /\ outcome \in { "none", "off", "interrupted" }
    /\ { screenOn, screenOffStarted, cvUnblocked, interruptingScreenOff, screenOffInterrupted,
         powerkeyScreenOff, powerkeyDownWhenScreenOff, poweroffInterrupted, pressed }
       \subseteq BOOLEAN

Init ==
    /\ screenOn = TRUE
    /\ stateMutex = {}
    /\ dms = "none"
    /\ screenOffStarted = FALSE
    /\ cvUnblocked = FALSE
    /\ interruptingScreenOff = FALSE
    /\ screenOffInterrupted = FALSE
    /\ powerkeyScreenOff = FALSE
    /\ powerkeyDownWhenScreenOff = FALSE
    /\ poweroffInterrupted = FALSE
    /\ pressed = FALSE
    /\ pc = [ key |-> "idle", task |-> "none", other |-> "idle" ]
    /\ outcome = "none"

GoTo(actor, label) == pc' = [ pc EXCEPT ![actor] = label ]

-------------------------------------------------------------------------------
(* DeviceStateAction *)

BeginPowerkeyScreenOff ==
    /\ screenOffStarted' = TRUE
    /\ cvUnblocked' = FALSE
    /\ interruptingScreenOff' = FALSE
    /\ screenOffInterrupted' = FALSE

\* A mutant of EndPowerkeyScreenOff: a waiting TryToCancelScreenOff is not told.
EndPowerkeyScreenOff_NotTold ==
    /\ screenOffStarted' = FALSE
    /\ interruptingScreenOff' = FALSE
    /\ screenOffInterrupted' = FALSE
    /\ UNCHANGED cvUnblocked

EndPowerkeyScreenOff ==
    /\ screenOffStarted' = FALSE
    /\ cvUnblocked' = TRUE
    /\ interruptingScreenOff' = FALSE
    /\ screenOffInterrupted' = FALSE

\* For STATE_CHANGE_REASON_HARD_KEY, under cancelScreenOffMutex_: either TryToCancelScreenOff
\* came first and the screen-off fails, or SuspendBegin is called.
IsInterruptingScreenOff ==
    /\ cvUnblocked' = TRUE
    /\ \/ /\ screenOffStarted /\ interruptingScreenOff
          /\ screenOffInterrupted' = TRUE
          /\ stateMutex' = {}
          /\ outcome' = "interrupted"
          /\ GoTo("task", "clear")
          /\ UNCHANGED dms
       \/ /\ ~(screenOffStarted /\ interruptingScreenOff)
          /\ dms' = "begun"
          /\ GoTo("task", "display")
          /\ UNCHANGED << screenOffInterrupted, stateMutex, outcome >>

\* DisplayManagerLite::TryToCancelScreenOff: true while a screen-off has begun and has not ended.
DmsTryToCancelScreenOff(result) ==
    \/ /\ dms = "begun" /\ result
       /\ dms' = "cancelled"
    \/ /\ dms # "begun" /\ ~result
       /\ UNCHANGED dms

\* DisplayPowerMgrClient::SetDisplayState(DISPLAY_OFF): fails when it was cancelled.
DisplayOff ==
    /\ screenOn' = (dms = "cancelled")
    /\ dms' = "none"
    /\ stateMutex' = {}

-------------------------------------------------------------------------------
(* PowerkeyWakeupMonitor::ReceivePowerkeyCallback, the key goes down *)

KeyDown ==
    /\ pc.key = "idle" /\ ~pressed
    /\ pressed' = TRUE
    /\ poweroffInterrupted' = FALSE
    /\ outcome' = "none"
    /\ GoTo("key", "load")
    /\ UNCHANGED << screenOn, stateMutex, dms, handshake, powerkeyScreenOff,
                    powerkeyDownWhenScreenOff >>

KeyLoad ==
    /\ pc.key = "load"
    /\ GoTo("key", IF powerkeyScreenOff THEN "cancel" ELSE "join")
    /\ UNCHANGED << screenOn, stateMutex, dms, handshake, keyFlags, outcome >>

\* Up to wait_for, which gives cancelScreenOffMutex_ back.
TryToCancelScreenOff ==
    /\ pc.key = "cancel"
    /\ \/ /\ ~screenOffStarted
          /\ GoTo("key", "join")
          /\ UNCHANGED interruptingScreenOff
       \/ /\ screenOffStarted
          /\ interruptingScreenOff' = TRUE
          /\ GoTo("key", "wait")
    /\ UNCHANGED << screenOn, stateMutex, dms, screenOffStarted, cvUnblocked,
                    screenOffInterrupted, keyFlags, outcome >>

\* From wait_for on.  A wait that times out goes on as if it had been notified.
TryToCancelScreenOffWoken ==
    /\ pc.key = "wait"
    /\ cvUnblocked \/ WaitMayTimeOut
    /\ \/ /\ screenOffInterrupted
          /\ poweroffInterrupted' = TRUE
          /\ UNCHANGED << dms, screenOffInterrupted >>
       \/ /\ ~screenOffInterrupted
          /\ \E result \in BOOLEAN :
                /\ DmsTryToCancelScreenOff(result)
                /\ screenOffInterrupted' = result
                /\ poweroffInterrupted' = result
    /\ GoTo("key", "join")
    /\ UNCHANGED << screenOn, stateMutex, screenOffStarted, cvUnblocked, interruptingScreenOff,
                    powerkeyScreenOff, powerkeyDownWhenScreenOff, pressed, outcome >>

\* ffrt::wait({&powerkeyScreenOff_}): the end of the screen-off task.
KeyJoin ==
    /\ pc.key = "join" /\ pc.task = "none"
    /\ GoTo("key", "record")
    /\ UNCHANGED << screenOn, stateMutex, dms, handshake, keyFlags, outcome >>

RecordPowerKeyDown ==
    /\ pc.key = "record"
    /\ powerkeyDownWhenScreenOff' = (screenOn => poweroffInterrupted)
    /\ GoTo("key", "notify")
    /\ UNCHANGED << screenOn, stateMutex, dms, handshake, powerkeyScreenOff, poweroffInterrupted,
                    pressed, outcome >>

\* Notify: WakeupController::ControlListener may skip this wake-up; it is needed unless AWAKE.
KeyWakeup ==
    /\ pc.key = "notify"
    /\ \/ UNCHANGED screenOn
       \/ stateMutex = {} /\ screenOn' = TRUE
    /\ GoTo("key", "idle")
    /\ UNCHANGED << stateMutex, dms, handshake, keyFlags, outcome >>

-------------------------------------------------------------------------------
(* PowerKeySuspendMonitor::ReceivePowerkeyCallback, the key goes up *)

\* The screen-off is blocked in this fold mode, or the last key up is less than 350 ms ago.
KeyUpSkipped ==
    /\ pc.key = "idle" /\ pressed
    /\ pressed' = FALSE
    /\ UNCHANGED << screenOn, stateMutex, dms, handshake, powerkeyScreenOff,
                    powerkeyDownWhenScreenOff, poweroffInterrupted, pc, outcome >>

\* The key was pressed when the screen was off: GetPowerkeyDownWhenScreenOff also clears that.
KeyUpIgnored ==
    /\ pc.key = "idle" /\ pressed
    /\ powerkeyDownWhenScreenOff
    /\ pressed' = FALSE
    /\ powerkeyDownWhenScreenOff' = FALSE
    /\ UNCHANGED << screenOn, stateMutex, dms, handshake, powerkeyScreenOff,
                    poweroffInterrupted, pc, outcome >>

KeyUpTurnsOff ==
    /\ pc.key = "idle" /\ pressed
    /\ ~powerkeyDownWhenScreenOff
    /\ pressed' = FALSE
    /\ BeginPowerkeyScreenOff
    /\ powerkeyScreenOff' = TRUE
    /\ GoTo("task", "listen")
    /\ outcome' = "none"
    /\ UNCHANGED << screenOn, stateMutex, dms, powerkeyDownWhenScreenOff, poweroffInterrupted >>

-------------------------------------------------------------------------------
(* The screen-off task *)

\* SuspendController::ControlListener returns early behind a dialog, a shutdown, a block or a
\* call, and does nothing for the power key when the screen is off.
TaskListen ==
    /\ pc.task = "listen"
    /\ \/ GoTo("task", "clear")
       \/ screenOn /\ GoTo("task", "lock")
    /\ UNCHANGED << screenOn, stateMutex, dms, handshake, keyFlags, outcome >>

\* SetState(INACTIVE, HARD_KEY, force) takes stateMutex_; INACTIVE already is nothing to do.
TaskLock ==
    /\ pc.task = "lock" /\ stateMutex = {}
    /\ \/ /\ screenOn
          /\ stateMutex' = {"task"}
          /\ GoTo("task", "begin")
       \/ /\ ~screenOn
          /\ GoTo("task", "clear")
          /\ UNCHANGED stateMutex
    /\ UNCHANGED << screenOn, dms, handshake, keyFlags, outcome >>

TaskBegin ==
    /\ pc.task = "begin"
    /\ IsInterruptingScreenOff
    /\ UNCHANGED << screenOn, screenOffStarted, interruptingScreenOff, keyFlags >>

TaskDisplay ==
    /\ pc.task = "display"
    /\ DisplayOff
    /\ outcome' = IF dms = "cancelled" THEN "interrupted" ELSE "off"
    /\ GoTo("task", "clear")
    /\ UNCHANGED << handshake, keyFlags >>

TaskClear ==
    /\ pc.task = "clear"
    /\ powerkeyScreenOff' = FALSE
    /\ GoTo("task", "end")
    /\ UNCHANGED << screenOn, stateMutex, dms, handshake, powerkeyDownWhenScreenOff,
                    poweroffInterrupted, pressed, outcome >>

TaskEnd ==
    /\ pc.task = "end"
    /\ EndPowerkeyScreenOff
    /\ GoTo("task", "none")
    /\ UNCHANGED << screenOn, stateMutex, dms, keyFlags, outcome >>

-------------------------------------------------------------------------------
(* Other callers of SetState *)

\* SetState(INACTIVE, TIMEOUT): SuspendBegin without a look at the hand-shake.
OtherBegin ==
    /\ pc.other = "idle" /\ screenOn /\ stateMutex = {}
    /\ stateMutex' = {"other"}
    /\ dms' = "begun"
    /\ GoTo("other", "display")
    /\ UNCHANGED << screenOn, handshake, keyFlags, outcome >>

OtherDisplay ==
    /\ pc.other = "display"
    /\ DisplayOff
    /\ GoTo("other", "idle")
    /\ UNCHANGED << handshake, keyFlags, outcome >>

OtherWakeup ==
    /\ ~screenOn /\ stateMutex = {}
    /\ screenOn' = TRUE
    /\ UNCHANGED << stateMutex, dms, handshake, keyFlags, pc, outcome >>

-------------------------------------------------------------------------------
Key == \/ KeyLoad \/ TryToCancelScreenOff \/ TryToCancelScreenOffWoken \/ KeyJoin
       \/ RecordPowerKeyDown \/ KeyWakeup
User == KeyDown \/ KeyUpSkipped \/ KeyUpIgnored \/ KeyUpTurnsOff
Task == TaskListen \/ TaskLock \/ TaskBegin \/ TaskDisplay \/ TaskClear \/ TaskEnd
Other == OtherBegin \/ OtherDisplay \/ OtherWakeup

Next == Key \/ User \/ Task \/ Other

\* Threads are scheduled; stateMutex_ is an ffrt mutex whose waiters are queued.
Fairness == WF_vars(Key) /\ WF_vars(Task) /\ SF_vars(TaskLock) /\ WF_vars(OtherDisplay)

Spec == Init /\ [][Next]_vars
FairSpec == Spec /\ Fairness

-------------------------------------------------------------------------------
(* Properties *)

\* A key press that interrupted a screen-off is not itself taken for a screen-off: once the press
\* has been recorded, letting the key go is ignored (powerkeyDownWhenScreenOff_).
InterruptingPressIsIgnored ==
    pc.key = "notify" /\ outcome = "interrupted" => powerkeyDownWhenScreenOff

\* Every key-down callback that waits for the screen-off task goes on, without the help of the
\* 300 ms time-out: the task always reaches a notify_all.
CancelIsAnswered == pc.key = "wait" ~> pc.key # "wait"

==============================================================================
