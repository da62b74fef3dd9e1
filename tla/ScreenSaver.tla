------------------------------ MODULE ScreenSaver ------------------------------
(***************************************************************************)
(* The screen saver (built with POWER_MANAGER_SCREEN_SAVER): the timer     *)
(* that ends in START_DREAM, its settings by power supply and user, their  *)
(* observers, and the common events of the screen, the user, the screen    *)
(* locks and the supply.  Every entry holds screenSaverMutex_; an event of *)
(* the supply takes it twice.  Whether the task finds a screen lock or the *)
(* screen off, and so publishes nothing, makes no difference here.         *)
(***************************************************************************)
EXTENDS Integers, Sequences

CONSTANTS
    Times,                  \* what a row of the screen saver's time may hold
    OffTime,                \* the screen-off time by supply
    MIN_DISPLAY_OFF_TIME_MS,
    MaxEvents, MaxUpdates   \* bounds on events that wait and on observers' threads

VARIABLES
    plugged,    \* the device is on the mains
    row,        \* the screen saver's time in the current user's settings, by supply
    observed,   \* the two observers watch the current user's rows
    updates,    \* observers' threads that are to run
    plugStatus, \* powerPlugStatus_
    at,         \* how far Init has come: "start", "observe", "subscribe", "done"
    switching,  \* a user switch has updated the user and not yet the observers
    events,     \* common events that the subscriber is to get
    inside,     \* a supply's event is between its two critical sections
    timer,      \* the delay of the task that waits; NoTimer when none does
    spent,      \* history: since the last update the timer was cancelled or has run
    stale,      \* history: rows changed that nobody watched, since the last update
    mistaken    \* history: no event tells what plugStatus should be

vars == << plugged, row, observed, updates, plugStatus, at, switching, events, inside, timer,
           spent, stale, mistaken >>

settings == << row, observed, updates, switching >>

NoTimer == -1
NEVER_AUTO_SCREEN_OFF == -1
DISABLE_SCREEN_SAVER_TIME == -1
Supplies == { "AC", "DC" }
Events == { "SCREEN_OFF", "USER_ACTIVITY", "RUNNINGLOCK_SCREEN", "AC", "DC" }

TypeOK ==
    /\ { plugged, observed, switching, inside, spent, stale, mistaken } \subseteq BOOLEAN
    /\ row \in [ Supplies -> Times ]
    /\ updates \in 0 .. MaxUpdates
    /\ plugStatus \in Supplies \cup { "INVALID" }
    /\ at \in { "start", "observe", "subscribe", "done" }
    /\ events \in Seq(Events) /\ Len(events) <= MaxEvents
    /\ timer \in Times \cup { NoTimer }

Supply(p) == IF p THEN "AC" ELSE "DC"

Init ==
    /\ plugged \in BOOLEAN
    /\ row \in [ Supplies -> Times ]
    /\ observed = FALSE
    /\ updates = 0
    /\ plugStatus = "INVALID"
    /\ at = "start"
    /\ switching = FALSE
    /\ events = << >>
    /\ inside = FALSE
    /\ timer = NoTimer
    /\ spent = FALSE
    /\ stale = FALSE
    /\ mistaken = FALSE

-------------------------------------------------------------------------------
(* The timer. *)

\* The row of the current supply; a time that is too short counts as DISABLE_SCREEN_SAVER_TIME.
GetSettingScreenSaverTime(status) ==
    LET value == row[Supply(status = "AC")]
    IN  IF value \in 0 .. MIN_DISPLAY_OFF_TIME_MS THEN DISABLE_SCREEN_SAVER_TIME ELSE value

\* A screen that goes off first needs no saver.
SetScreenSaverTimer(time, off) ==
    IF \/ time <= DISABLE_SCREEN_SAVER_TIME
       \/ off # NEVER_AUTO_SCREEN_OFF /\ off <= time
    THEN NoTimer ELSE time

UpdateScreenSaverTimer(status) ==
    /\ timer' = SetScreenSaverTimer(GetSettingScreenSaverTime(status),
                                    OffTime[Supply(status = "AC")])
    /\ spent' = FALSE
    /\ stale' = FALSE

CancelScreenSaverTimer ==
    /\ timer' = NoTimer
    /\ spent' = TRUE
    /\ UNCHANGED stale

TimerRuns ==
    /\ timer # NoTimer
    /\ timer' = NoTimer
    /\ spent' = TRUE
    /\ UNCHANGED << plugged, settings, plugStatus, at, events, inside, stale, mistaken >>

-------------------------------------------------------------------------------
(* Start-up and user switches. *)

\* PowerPlugStatusManager::Init asks the battery service, which may fail or, in a build without
\* settings by supply, is not asked.
InitTimer ==
    /\ at = "start"
    /\ at' = "observe"
    /\ plugStatus' \in { Supply(plugged), "INVALID" }
    /\ mistaken' = (plugStatus' = "INVALID")
    /\ UpdateScreenSaverTimer(plugStatus')
    /\ UNCHANGED << plugged, settings, events, inside >>

RegisterSettingScreenSaverObservers ==
    /\ \/ at = "observe" /\ at' = "subscribe" /\ UNCHANGED switching
       \/ switching /\ switching' = FALSE /\ UNCHANGED at
    /\ observed' = TRUE
    /\ UNCHANGED << plugged, row, updates, plugStatus, events, inside, timer, spent, stale,
                    mistaken >>

SubscribeCommonEvent ==
    /\ at = "subscribe"
    /\ at' = "done"
    /\ UNCHANGED << plugged, settings, plugStatus, events, inside, timer, spent, stale, mistaken >>

\* COMMON_EVENT_USER_SWITCHED reaches the service, which updates the user and then the observers;
\* the new user has rows of their own.
UserSwitched ==
    /\ at # "start" /\ ~switching
    /\ switching' = TRUE
    /\ row' \in [ Supplies -> Times ]
    /\ observed' = FALSE
    /\ stale' = TRUE
    /\ UNCHANGED << plugged, updates, plugStatus, at, events, inside, timer, spent, mistaken >>

-------------------------------------------------------------------------------
(* What the settings and the device do. *)

\* An observer runs in a thread of its own for every change of its row.
RowChanges ==
    /\ updates < MaxUpdates
    /\ \E s \in Supplies : \E t \in Times \ { row[s] } : row' = [ row EXCEPT ![s] = t ]
    /\ updates' = IF observed THEN updates + 1 ELSE updates
    /\ stale' = (stale \/ ~observed)
    /\ UNCHANGED << plugged, observed, switching, plugStatus, at, events, inside, timer, spent,
                    mistaken >>

\* The observers' updateFunc.
ObserverUpdates ==
    /\ updates > 0
    /\ updates' = updates - 1
    /\ UpdateScreenSaverTimer(plugStatus)
    /\ UNCHANGED << plugged, row, observed, switching, plugStatus, at, events, inside, mistaken >>

Publish(e) ==
    /\ Len(events) < MaxEvents
    /\ events' = IF at = "done" THEN Append(events, e) ELSE events

PlugChanges ==
    /\ plugged' = ~plugged
    /\ Publish(Supply(plugged'))
    /\ mistaken' = (mistaken \/ at \in { "observe", "subscribe" })
    /\ UNCHANGED << settings, plugStatus, at, inside, timer, spent, stale >>

\* The screen goes off, the user is active, the first screen lock is taken or the last released.
OthersPublish ==
    /\ at = "done"
    /\ \E e \in Events \ Supplies : Publish(e)
    /\ UNCHANGED << plugged, settings, plugStatus, at, inside, timer, spent, stale, mistaken >>

-------------------------------------------------------------------------------
\* A mutant of PlugEventUpdates: a timer that is armed is left alone.
PlugEventUpdates_Armed ==
    /\ inside
    /\ inside' = FALSE
    /\ IF timer # NoTimer THEN UNCHANGED << timer, spent, stale >>
       ELSE UpdateScreenSaverTimer(plugStatus)
    /\ UNCHANGED << plugged, settings, plugStatus, at, events, mistaken >>

\* The second critical section of a supply's event.
PlugEventUpdates ==
    /\ inside
    /\ inside' = FALSE
    /\ UpdateScreenSaverTimer(plugStatus)
    /\ UNCHANGED << plugged, settings, plugStatus, at, events, mistaken >>

\* The subscriber gets its events one after the other.
OnReceiveEvent ==
    /\ events # << >> /\ ~inside
    /\ events' = Tail(events)
    /\ \/ /\ Head(events) = "SCREEN_OFF"
          /\ CancelScreenSaverTimer
          /\ UNCHANGED << inside, plugStatus, mistaken >>
       \/ /\ Head(events) \in { "USER_ACTIVITY", "RUNNINGLOCK_SCREEN" }
          /\ UpdateScreenSaverTimer(plugStatus)
          /\ UNCHANGED << inside, plugStatus, mistaken >>
       \/ /\ Head(events) \in Supplies
          /\ plugStatus' = Head(events)
          /\ inside' = TRUE
          /\ mistaken' = FALSE
          /\ UNCHANGED << timer, spent, stale >>
    /\ UNCHANGED << plugged, settings, at >>

Next ==
    \/ TimerRuns \/ InitTimer \/ RegisterSettingScreenSaverObservers \/ SubscribeCommonEvent
    \/ UserSwitched \/ RowChanges \/ ObserverUpdates \/ PlugChanges \/ OthersPublish
    \/ OnReceiveEvent \/ PlugEventUpdates

Spec == Init /\ [][Next]_vars

-------------------------------------------------------------------------------
AtRest == at = "done" /\ updates = 0 /\ events = << >> /\ ~inside

\* Once the observers and the subscriber have done their work, the timer is the one that the
\* current user's row for the device's own supply asks for, unless the screen went off or the
\* timer has run: whatever order supply events, setting changes, activity and screen locks
\* updated it in.  The property says nothing after a change that nobody watches: a user switch
\* before the next event, the supply before the subscription.
SaverFollowsSettings ==
    AtRest /\ ~mistaken =>
        /\ plugStatus = Supply(plugged)
        /\ ~stale => timer = IF spent THEN NoTimer
                             ELSE SetScreenSaverTimer(GetSettingScreenSaverTime(Supply(plugged)),
                                                      OffTime[Supply(plugged)])

===============================================================================
