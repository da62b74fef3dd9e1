------------------------------ MODULE ScreenOffPre ------------------------------
(***************************************************************************)
(* The screen-off-pre controller tells its clients, remainTime before the  *)
(* screen is dimmed, that it will be (eye detection then refreshes the     *)
(* activity).  The state machine moves the notice with every reset of its  *)
(* inactivity timer, a registration places it from lastOnTime.  Times are  *)
(* what is left of them, in ticks; calls take no time.                     *)
(***************************************************************************)
EXTENDS Integers

CONSTANTS Clients, Times, RemainTimes    \* active times (display-off less dim time), remain times

VARIABLES
    awake,          \* AWAKE; otherwise the screen is dimmed or off
    offTime,        \* displayOffTime_ less its dim time
    settingTime,    \* the stored setting less the same dim time
    sinceOn,        \* time since lastOnTime
    dimIn,          \* time left of CHECK_USER_ACTIVITY_TIMEOUT_MSG
    remainTime, callbackSet, isRegistered,
    task,           \* time left of the task eyeDetectTimeOutHandle_ names
    orphans,        \* times left of submitted tasks whose handle was overwritten
    machine, register,   \* SchedulEyeDetectTimeout of the state machine and of a registration
    told,           \* history: the clients were told since the timer was reset
    disturbed       \* history: the notice and the timer went apart; see Apart

controller == << remainTime, callbackSet, isRegistered >>
clock == << awake, offTime, settingTime, sinceOn, dimIn >>
vars == << clock, controller, task, orphans, machine, register, told, disturbed >>

Never == -1     \* no time: a timer that is not set, a screen that never goes off
Longest == CHOOSE t \in Times : \A u \in Times : u <= t
Idle == [at |-> "idle", next |-> Never]

TypeOK ==
    /\ awake \in BOOLEAN /\ { offTime, settingTime } \subseteq Times \cup { Never }
    /\ sinceOn \in 0..(Longest + 1) /\ dimIn \in Never..Longest
    /\ remainTime \in RemainTimes \cup { 0 } /\ callbackSet \subseteq Clients
    /\ isRegistered \in BOOLEAN /\ task \in Never..Longest /\ orphans \subseteq 0..Longest
    /\ \A t \in { machine, register } :
         t.at \in { "idle", "cancel", "submit" } /\ t.next \in Never..Longest
    /\ told \in BOOLEAN /\ disturbed \in BOOLEAN

Init ==
    /\ awake = TRUE /\ \E t \in Times : offTime = t /\ settingTime = t /\ dimIn = t
    /\ sinceOn = 0 /\ remainTime = 0 /\ callbackSet = {} /\ isRegistered = FALSE
    /\ task = Never /\ orphans = {} /\ machine = Idle /\ register = Idle
    /\ told = FALSE /\ disturbed = FALSE

-------------------------------------------------------------------------------
(* SchedulEyeDetectTimeout, for the state machine and for a registration *)

\* A mutant of NeedEyeDetectLocked: a notice that would be due at once is left out.
NeedEyeDetectLocked_Positive(next) == next > 0

NeedEyeDetectLocked(next) == next >= 0

\* What is left to do for a notice that is due in next ticks.
SchedulEyeDetectTimeout(next, remain) ==
    IF remain > 0 /\ NeedEyeDetectLocked(next) THEN [at |-> "cancel", next |-> next] ELSE Idle

CancelEyeDetectTimeout(t) == t.at = "cancel" /\ task' = Never /\ UNCHANGED orphans

HandleEyeDetectTimeout(t) ==
    /\ t.at = "submit" /\ task' = t.next
    /\ orphans' = orphans \cup ({ task } \ { Never })

MachineCancels ==
    /\ CancelEyeDetectTimeout(machine) /\ machine' = [machine EXCEPT !.at = "submit"]
    /\ UNCHANGED << clock, controller, register, told, disturbed >>

MachineSubmits ==
    /\ HandleEyeDetectTimeout(machine) /\ machine' = Idle
    /\ disturbed' = (disturbed \/ task # Never)
    /\ UNCHANGED << clock, controller, register, told >>

RegisterCancels ==
    /\ CancelEyeDetectTimeout(register) /\ register' = [register EXCEPT !.at = "submit"]
    /\ UNCHANGED << clock, controller, machine, told, disturbed >>

RegisterSubmits ==
    /\ HandleEyeDetectTimeout(register) /\ register' = Idle
    /\ disturbed' = (disturbed \/ task # Never)
    /\ UNCHANGED << clock, controller, machine, told >>

-------------------------------------------------------------------------------
(* The state machine *)

\* The old notice stays when the screen never goes off or the new one would be overdue.
Apart(t) == task # Never /\ (t = Never \/ (isRegistered /\ t < remainTime))

ResetScreenOffPreTimeForSwing(t) ==
    machine' = IF isRegistered THEN SchedulEyeDetectTimeout(t - remainTime, remainTime) ELSE Idle

\* ResetInactiveTimer with display-off time t.
ResetInactiveTimer(t) ==
    /\ machine = Idle
    /\ IF t = Never THEN machine' = Idle ELSE ResetScreenOffPreTimeForSwing(t)
    /\ dimIn' = t /\ told' = FALSE
    /\ disturbed' = (disturbed \/ Apart(t) \/ register # Idle)

\* An activity, or a wake-up.
RefreshActivity ==
    /\ ResetInactiveTimer(offTime)
    /\ awake' = TRUE /\ sinceOn' = 0
    /\ UNCHANGED << offTime, settingTime, controller, task, orphans, register >>

\* The time changes, by the setting or over it; lastOnTime stays.
SetDisplayOffTime ==
    /\ \E t \in (Times \cup { Never }) \ { offTime } :
         /\ offTime' = t /\ settingTime' \in { t, settingTime }
         /\ IF awake THEN ResetInactiveTimer(t)
            ELSE UNCHANGED << machine, dimIn, told, disturbed >>
    /\ UNCHANGED << awake, sinceOn, controller, task, orphans, register >>

\* The activity times out, or something turns the screen off: the notice is not cancelled.
ScreenGoesDim ==
    /\ machine = Idle /\ register = Idle /\ awake /\ awake' = FALSE /\ dimIn' = Never
    /\ task # 0
    /\ UNCHANGED << offTime, settingTime, sinceOn, controller, task, orphans, machine, register,
                    told, disturbed >>

-------------------------------------------------------------------------------
(* The clients *)

\* The whole of it is under screenOffPreMutex_.
AddScreenStateCallback(c) ==
    /\ register = Idle
    /\ \E r \in RemainTimes :
         LET next == settingTime - sinceOn - r
         IN /\ remainTime' = r
            /\ register' = SchedulEyeDetectTimeout(next, r)
            /\ disturbed' = (\/ disturbed \/ machine # Idle
                             \/ awake /\ dimIn # Never /\ next # dimIn - r
                             \/ task # Never /\ next < 0)
    /\ callbackSet' = callbackSet \cup { c } /\ isRegistered' = TRUE
    /\ UNCHANGED << clock, task, orphans, machine, told >>

\* It is not registered any more, whoever else is.
DelScreenStateCallback(c) ==
    /\ register = Idle
    /\ callbackSet' = callbackSet \ { c } /\ isRegistered' = FALSE
    /\ UNCHANGED << clock, remainTime, task, orphans, machine, register, told, disturbed >>

OnRemoteDied(c) ==
    /\ c \in callbackSet /\ callbackSet' = callbackSet \ { c }
    /\ UNCHANGED << clock, remainTime, isRegistered, task, orphans, machine, register, told, disturbed >>

\* The task tells every client.
TriggerCallback ==
    /\ task = 0 /\ task' = Never /\ told' = (told \/ callbackSet # {})
    /\ UNCHANGED << clock, controller, orphans, machine, register, disturbed >>

TriggerOrphan ==
    /\ 0 \in orphans /\ orphans' = orphans \ { 0 } /\ told' = (told \/ callbackSet # {})
    /\ UNCHANGED << clock, controller, task, machine, register, disturbed >>

-------------------------------------------------------------------------------

Less(t) == IF t = Never THEN Never ELSE t - 1

Tick ==
    /\ machine = Idle /\ register = Idle /\ dimIn # 0 /\ task # 0 /\ 0 \notin orphans
    /\ dimIn' = Less(dimIn) /\ task' = Less(task) /\ orphans' = { t - 1 : t \in orphans }
    /\ sinceOn' = IF sinceOn > Longest THEN sinceOn ELSE sinceOn + 1
    /\ UNCHANGED << awake, offTime, settingTime, controller, machine, register, told, disturbed >>

Next ==
    \/ MachineCancels \/ MachineSubmits \/ RegisterCancels \/ RegisterSubmits
    \/ RefreshActivity \/ SetDisplayOffTime \/ ScreenGoesDim
    \/ \E c \in Clients : AddScreenStateCallback(c) \/ DelScreenStateCallback(c) \/ OnRemoteDied(c)
    \/ TriggerCallback \/ TriggerOrphan \/ Tick

Spec == Init /\ [][Next]_vars

-------------------------------------------------------------------------------

\* While the controller is registered the next notice comes remainTime before the screen is
\* dimmed, whatever refreshes, changes of the display-off time, registrations and deaths move
\* it, unless the clients were told or there was no time for it; provided no two
\* SchedulEyeDetectTimeout overlapped and none kept an old notice (SchedulEyeDetectTimeout
\* is called from ResetInactiveTimer and from AddScreenStateCallback without a common mutex).
NoticePrecedesDim ==
    awake /\ isRegistered /\ remainTime > 0 /\ dimIn >= remainTime /\ ~disturbed
        => \/ told \/ machine # Idle \/ register # Idle
           \/ task = dimIn - remainTime
           \/ dimIn = remainTime /\ callbackSet = {}

===============================================================================
