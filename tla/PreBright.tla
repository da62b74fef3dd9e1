------------------------------- MODULE PreBright -------------------------------
(***************************************************************************)
(* The pre-bright wake-up: the face is authenticated behind a screen that  *)
(* is not lit yet.  The result comes as a second wake-up, or a timer takes *)
(* its place; callers, the timer's task and the sleep timer share the      *)
(* pre-bright state under stateMutex_, but StopSleep and the cancellation  *)
(* of the timer happen before it is taken.  SetState is one step, and the   *)
(* device is allowed to sleep (GetSleepTime is not negative).              *)
(***************************************************************************)
EXTENDS Naturals

CONSTANT Callers    \* threads that bring wake-ups and results

VARIABLES
    state,          \* currentState_
    display,        \* external: what the display shows; "pre" is reported as off
    doze,           \* isDozeEnabled_
    preBrightState,
    authTimer,      \* TIMER_ID_PRE_BRIGHT_AUTH is set
    pc, type,       \* of the callers and of the timer's task: where they are and what they bring
    sleepTimer,     \* TIMER_ID_SLEEP is set
    inactiveTimer   \* CHECK_USER_ACTIVITY_TIMEOUT_MSG is set

callers == << pc, type >>
vars == << state, display, doze, preBrightState, authTimer, callers, sleepTimer, inactiveTimer >>

Timer == "timer"    \* the timer's task
Threads == Callers \cup { Timer }

SUCCESS == "PRE_BRIGHT_AUTH_SUCCESS"
SCREEN_ON == "PRE_BRIGHT_AUTH_FAIL_SCREEN_ON"
SCREEN_OFF == "PRE_BRIGHT_AUTH_FAIL_SCREEN_OFF"

IsPreBrightAuthReason(reason) == reason \in { SUCCESS, SCREEN_ON, SCREEN_OFF }
IsPreBrightWakeUp(t) == t = "PRE_BRIGHT" \/ IsPreBrightAuthReason(t)

TypeOK ==
    /\ state \in { "AWAKE", "INACTIVE", "SLEEP" } /\ display \in { "on", "doze", "off", "pre" }
    /\ preBrightState \in { "UNSTART", "STARTED", "FINISHED" }
    /\ { doze, authTimer, sleepTimer, inactiveTimer } \subseteq BOOLEAN
    /\ pc \in [Threads -> { "idle", "setState", "after" }]
    /\ type \in [Threads -> { "PRE_BRIGHT", SUCCESS, SCREEN_ON, SCREEN_OFF, "OTHER" }]

Init ==
    /\ state = "AWAKE" /\ display = "on" /\ doze \in BOOLEAN /\ preBrightState = "UNSTART"
    /\ authTimer = FALSE /\ sleepTimer = FALSE /\ inactiveTimer = TRUE
    /\ pc = [t \in Threads |-> "idle"] /\ type = [t \in Threads |-> "OTHER"]

-------------------------------------------------------------------------------
(* What SetState does *)

\* A mutant of HandlePreBrightState: a pre-bright that is under way keeps no timer of its own.
HandlePreBrightState_NoNewTimer(target, reason) ==
    IF reason = "PRE_BRIGHT"
    THEN authTimer' = (preBrightState # "STARTED") /\ preBrightState' = "STARTED"
    ELSE IF IsPreBrightAuthReason(reason)
    THEN preBrightState' = "FINISHED" /\ UNCHANGED authTimer
    ELSE IF target # "SLEEP"
    THEN authTimer' = (authTimer /\ preBrightState # "STARTED") /\ preBrightState' = "UNSTART"
    ELSE UNCHANGED << authTimer, preBrightState >>

\* An authentication result no pre-bright waits for is refused before this; see Refused.
HandlePreBrightState(target, reason) ==
    IF reason = "PRE_BRIGHT"
    THEN authTimer' = TRUE /\ preBrightState' = "STARTED"
    ELSE IF IsPreBrightAuthReason(reason)
    THEN preBrightState' = "FINISHED" /\ UNCHANGED authTimer
    ELSE IF target # "SLEEP"
    THEN authTimer' = (authTimer /\ preBrightState # "STARTED") /\ preBrightState' = "UNSTART"
    ELSE UNCHANGED << authTimer, preBrightState >>

Refused(reason) == IsPreBrightAuthReason(reason) /\ preBrightState # "STARTED"

\* What MatchState makes of the state before a transition to a state other than SLEEP.
MatchState ==
    IF state = "AWAKE" /\ display \in { "off", "pre" } THEN "INACTIVE"
    ELSE IF state = "INACTIVE" /\ display = "on" THEN "AWAKE"
    ELSE state

\* A failure leaves a display alone that something else has lit, and may be interrupted.
SetDisplayState(reason, ok) ==
    display' = CASE ~ok -> display
                 [] reason = "PRE_BRIGHT" /\ display # "on" -> "pre"
                 [] reason = SCREEN_OFF /\ display # "on" -> IF doze THEN "doze" ELSE "off"
                 [] OTHER -> "on"

SetStateAwake(reason, ok) ==
    /\ ~Refused(reason) /\ (display = "on" => ok)
    /\ HandlePreBrightState("AWAKE", reason)
    /\ SetDisplayState(reason, ok)
    /\ state' = IF ok THEN "AWAKE" ELSE MatchState
    /\ inactiveTimer' = (inactiveTimer \/ (ok /\ reason # "PRE_BRIGHT"))

\* HandlePreBrightState starts the sleep timer for a result that comes too late.
SetStateRefused(reason) ==
    /\ Refused(reason)
    /\ sleepTimer' = TRUE /\ state' = MatchState
    /\ UNCHANGED << display, preBrightState, authTimer, inactiveTimer >>

-------------------------------------------------------------------------------
(* The callers *)

StopSleep == sleepTimer' = FALSE

\* HandlePreBrightWakeUp, until it wants stateMutex_.
HandlePreBrightWakeUp(c) ==
    /\ pc[c] = "idle"
    /\ \E t \in { "PRE_BRIGHT", SUCCESS, SCREEN_ON, SCREEN_OFF } :
         /\ IsPreBrightWakeUp(t)
         /\ type' = [type EXCEPT ![c] = t]
         /\ authTimer' = (authTimer /\ ~IsPreBrightAuthReason(t))
    /\ StopSleep /\ pc' = [pc EXCEPT ![c] = "setState"]
    /\ UNCHANGED << state, display, doze, preBrightState, inactiveTimer >>

\* WakeupDeviceInner, for any other type.
WakeupDeviceInner(c) ==
    /\ pc[c] = "idle"
    /\ StopSleep
    /\ pc' = [pc EXCEPT ![c] = "setState"] /\ type' = [type EXCEPT ![c] = "OTHER"]
    /\ UNCHANGED << state, display, doze, preBrightState, authTimer, inactiveTimer >>

CallSetState(t) ==
    /\ pc[t] = "setState" /\ pc' = [pc EXCEPT ![t] = "after"]
    /\ \/ /\ \E ok \in BOOLEAN : SetStateAwake(type[t], ok)
          /\ UNCHANGED sleepTimer
       \/ SetStateRefused(type[t])
    /\ UNCHANGED << doze, type >>

\* A failed authentication restores the sleep timer the wake-up has stopped.
After(t) ==
    /\ pc[t] = "after" /\ pc' = [pc EXCEPT ![t] = "idle"]
    /\ sleepTimer' = (sleepTimer \/ type[t] = SCREEN_OFF)
    /\ UNCHANGED << state, display, doze, preBrightState, authTimer, inactiveTimer, type >>

\* The timer's task calls HandlePreBrightWakeUp with timeoutTriggered: it cancels no timer.
AuthFailTask ==
    /\ authTimer /\ pc[Timer] = "idle"
    /\ authTimer' = FALSE
    /\ StopSleep
    /\ pc' = [pc EXCEPT ![Timer] = "setState"] /\ type' = [type EXCEPT ![Timer] = SCREEN_OFF]
    /\ UNCHANGED << state, display, doze, preBrightState, inactiveTimer >>

\* The screen is turned off, by a call or by the activity timer, and the device is to sleep.
SuspendDevice ==
    /\ MatchState # "INACTIVE"
    /\ HandlePreBrightState("INACTIVE", "OTHER")
    /\ state' = "INACTIVE" /\ display' = (IF doze THEN "doze" ELSE "off")
    /\ inactiveTimer' = FALSE /\ sleepTimer' = TRUE
    /\ UNCHANGED << callers, doze >>

\* SetAutoSleep: AWAKE may not go to SLEEP, a running lock may forbid it too.
SetAutoSleep ==
    /\ sleepTimer /\ sleepTimer' = FALSE
    /\ state' \in { state } \cup (IF state = "INACTIVE" THEN { "SLEEP" } ELSE {})
    /\ UNCHANGED << display, doze, preBrightState, authTimer, callers, inactiveTimer >>

Next ==
    \/ \E c \in Callers : HandlePreBrightWakeUp(c) \/ WakeupDeviceInner(c)
    \/ \E t \in Threads : CallSetState(t) \/ After(t)
    \/ AuthFailTask
    \/ SuspendDevice
    \/ SetAutoSleep

Spec == Init /\ [][Next]_vars

-------------------------------------------------------------------------------

\* A pre-bright that waits for its result cannot wait for ever: its timer is set, the timer's
\* task runs, or a caller that cancelled the timer is about to bring the result, however results,
\* new pre-brights and other transitions of several threads overlap (HandlePreBrightWakeUp
\* cancels the timer before it takes stateMutex_, HandlePreBrightState sets it under it).
PreBrightIsTimed ==
    preBrightState = "STARTED" =>
        authTimer \/ \E t \in Threads : pc[t] = "setState" /\ IsPreBrightAuthReason(type[t])

===============================================================================
