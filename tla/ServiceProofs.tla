---------------------------- MODULE ServiceProofs -----------------------------
(***************************************************************************)
(* Proofs about components that follow something outside of the service:   *)
(* HdiLink (the HDI power service and its manager), ScreenSaver (supply,   *)
(* settings and users), ServiceLife (the display service, the boot and the *)
(* cover), PowerMode (the user's settings) and Settings (those and the     *)
(* user). Notices about the outside arrive late and in a queue; the        *)
(* inductive invariants say which of them is still to come, or where the   *)
(* value is kept until then. The components share nothing here but the     *)
(* names of their variables.                                               *)
(***************************************************************************)
EXTENDS Integers, FiniteSets, Sequences, TLAPS

CONSTANTS
    MaxStarts, MaxManagers, MaxRetries,                             \* HdiLink
    Times, OffTime, MIN_DISPLAY_OFF_TIME_MS, MaxEvents, MaxUpdates, \* ScreenSaver
    MaxCover, MaxLives,                                             \* ServiceLife
    Switches, Readable, Values, Policy,                             \* PowerMode
    Users, OffTimes, DEFAULT_DISPLAY_OFF_TIME_MS, SettingChanges, MaxSettingUpdates   \* Settings

VARIABLES
    started, listening, manager, managers, hdi, starts, listener, status, saNotices, hdiRemove,
    retries, tasks, interface, callback, unheard,
    plugged, row, observed, updates, plugStatus, at, switching, events, inside, timer, spent, stale,
    mistaken,
    ready, notices, up, lives, bootDone, needReInit, crashed, loops, initMutex, init, sa, saw, live,
    subscribed, cover, moves, switchOpen, on, task, told, overtaken,
    mode, subMode, switchMap, recoverMap, observerRegisted, modeCall, target, settings, savedMode,
    savedSubMode, savedRecoverMap, noticed, user, disturbed,
    chargingType, active, currentUserId, store, observer, wakeupSource, displayOffTime, override,
    beforeOverride, connectedAc, handler, changes, toHandle, caller, lost

L == INSTANCE HdiLink
V == INSTANCE ScreenSaver
E == INSTANCE ServiceLife
M == INSTANCE PowerMode
U == INSTANCE Settings WITH Times <- OffTimes, MaxUpdates <- MaxSettingUpdates

-------------------------------------------------------------------------------
(* HdiLink *)

\* The queues of notices, the counts, and whose callback the power service that runs has.
LTyped ==
    /\ status \in Seq({ "START", "STOP" }) /\ saNotices \in Seq({ "add", "remove" })
    /\ managers \in Nat /\ retries \in Nat /\ tasks \in Nat /\ callback \in { 0, hdi }

\* The last notice of s is x.
EndsIn(s, x) == Len(s) > 0 /\ s[Len(s)] = x

\* x is one of the notices of s.
Holds(s, x) == \E i \in 1 .. Len(s) : s[i] = x

\* Before OnStart has registered with the system ability manager the service has heard and done
\* nothing.
Unheard == 
    ~listening => /\ ~started /\ ~hdiRemove /\ listener = 0 /\ retries = 0 /\ tasks = 0 /\ interface = 0
                  /\ status = << >> /\ saNotices = << >>

\* Between two deaths of the service manager it starts: a notice of a removal never follows
\* another, nor one that was handled, without a notice of the start between them.
RemovesAlternate ==
    \A j \in 1 .. Len(saNotices) :
        saNotices[j] = "remove" => IF j = 1 THEN ~hdiRemove ELSE saNotices[j - 1] = "add"

\* The last notice on its way says whether the service manager runs; without a notice hdiRemove
\* says it, or a registration is being retried.
NoticesFollowManager ==
    listening => IF manager # 0 THEN EndsIn(saNotices, "add") \/ (saNotices = << >> /\ ~hdiRemove)
                 ELSE EndsIn(saNotices, "remove") \/ (saNotices = << >> /\ hdiRemove) \/ retries > 0

\* RegisterHdiStatusListener will be called again: a retry is set, or a start is on its way that
\* comes after a removal.
WillRegister ==
    \/ retries > 0
    \/ \E k \in 1 .. Len(saNotices) : /\ saNotices[k] = "add"
                                      /\ hdiRemove \/ \E i \in 1 .. k - 1 : saNotices[i] = "remove"

\* A service manager that does not have our listener will be given it.
ListenerIsComing == listening /\ manager # 0 /\ listener # manager => WillRegister

\* A dead interface we keep will be reset by a notice that is on its way.
DeadInterface ==
    /\ interface \notin { 0, hdi } => unheard \/ Holds(status, "STOP") \/ Holds(saNotices, "remove")
    /\ manager = 0 /\ interface # 0 => Holds(saNotices, "remove")

\* A power service that does not have our callback will be given it: by a registration to come, by
\* its START, or by a task that gets a live interface.
CallbackIsComing ==
    started /\ manager # 0 /\ hdi # 0 /\ callback # hdi =>
        \/ unheard \/ WillRegister \/ EndsIn(status, "START")
        \/ tasks > 0 /\ interface \in { 0, hdi }

\* The inductive invariant of the link to the HDI.
LInv ==
    /\ LTyped
    /\ Unheard
    /\ RemovesAlternate
    /\ NoticesFollowManager
    /\ ListenerIsComing
    /\ DeadInterface
    /\ CallbackIsComing

\* What appending to a queue of notices does.
LEMMA Appended ==
  ASSUME NEW T, NEW s \in Seq(T), NEW x \in T
  PROVE  /\ Append(s, x) \in Seq(T) /\ Len(Append(s, x)) = Len(s) + 1
         /\ Append(s, x)[Len(s) + 1] = x /\ \A i \in 1 .. Len(s) : Append(s, x)[i] = s[i]
         /\ \A y : Holds(s, y) => Holds(Append(s, x), y)
         /\ Holds(Append(s, x), x) /\ EndsIn(Append(s, x), x)
  BY DEF Holds, EndsIn

\* What taking the first notice from a queue does.
LEMMA Removed ==
  ASSUME NEW T, NEW s \in Seq(T), s # << >>
  PROVE  /\ Tail(s) \in Seq(T) /\ Len(Tail(s)) = Len(s) - 1 /\ Len(s) \in Nat
         /\ Head(s) = s[1] /\ \A i \in 1 .. Len(s) - 1 : Tail(s)[i] = s[i + 1]
         /\ \A y : Holds(s, y) /\ y # Head(s) => Holds(Tail(s), y)
         /\ \A y : EndsIn(s, y) => EndsIn(Tail(s), y) \/ (Tail(s) = << >> /\ Head(s) = y)
  <1>1. /\ Tail(s) \in Seq(T) /\ Len(Tail(s)) = Len(s) - 1 /\ Len(s) \in Nat /\ Len(s) > 0
        /\ Head(s) = s[1] /\ \A i \in 1 .. Len(s) - 1 : Tail(s)[i] = s[i + 1]
    OBVIOUS
  <1>2. ASSUME NEW y, Holds(s, y), y # Head(s) PROVE Holds(Tail(s), y)
    <2>1. PICK i \in 1 .. Len(s) : s[i] = y
      BY <1>2 DEF Holds
    <2>2. i - 1 \in 1 .. Len(Tail(s)) /\ Tail(s)[i - 1] = y
      BY <1>1, <1>2, <2>1
    <2> QED BY <2>2 DEF Holds
  <1>3. ASSUME NEW y, EndsIn(s, y) PROVE EndsIn(Tail(s), y) \/ (Tail(s) = << >> /\ Head(s) = y)
    BY <1>1, <1>3 DEF EndsIn
  <1> QED BY <1>1, <1>2, <1>3

\* The invariant holds before OnStart.
LEMMA LInit == L!Init => LInv
  <1> SUFFICES ASSUME L!Init PROVE LInv
    OBVIOUS
  <1>1. LTyped
    BY DEF L!Init, LTyped
  <1>2. Unheard /\ RemovesAlternate /\ NoticesFollowManager /\ ListenerIsComing
    BY DEF L!Init, Unheard, RemovesAlternate, NoticesFollowManager, ListenerIsComing
  <1>3. DeadInterface /\ CallbackIsComing
    BY DEF L!Init, DeadInterface, CallbackIsComing
  <1> QED BY <1>1, <1>2, <1>3 DEF LInv

\* What SystemSuspendController::RegisterHdiStatusListener leaves behind: a retry, or a listener
\* and, if the power service runs, its START.
LEMMA Registering ==
  ASSUME LTyped, L!RegisterHdiStatusListener
  PROVE  /\ status' \in Seq({ "START", "STOP" }) /\ retries' \in Nat
         /\ Holds(status, "STOP") => Holds(status', "STOP")
         /\ \/ retries' > 0 /\ listener' = listener /\ status' = status
            \/ /\ manager # 0 /\ listener' = manager /\ retries' = retries
               /\ hdi # 0 => EndsIn(status', "START")
  <1>1. CASE status' = Append(status, "START")
    <2>1. /\ status' \in Seq({ "START", "STOP" }) /\ EndsIn(status', "START")
          /\ Holds(status, "STOP") => Holds(status', "STOP")
      BY <1>1, Appended DEF LTyped
    <2> QED BY <2>1 DEF LTyped, L!RegisterHdiStatusListener
  <1>2. CASE status' = status
    BY <1>2 DEF LTyped, L!RegisterHdiStatusListener
  <1> QED BY <1>1, <1>2 DEF L!RegisterHdiStatusListener

\* A death of the service manager that we have not heard of is followed by a start that registers
\* again.
LEMMA RemoveIsFollowed ==
  ASSUME LInv, manager # 0, Holds(saNotices, "remove")
  PROVE  WillRegister
  <1>1. PICK i \in 1 .. Len(saNotices) : saNotices[i] = "remove"
    BY DEF Holds
  <1>2. EndsIn(saNotices, "add")
    BY DEF LInv, Unheard, NoticesFollowManager, Holds
  <1>3. Len(saNotices) \in 1 .. Len(saNotices) /\ i \in 1 .. Len(saNotices) - 1
    BY <1>1, <1>2 DEF LInv, LTyped, EndsIn
  <1> QED BY <1>1, <1>2, <1>3 DEF WillRegister, EndsIn

\* Every notice, retry and task, and every start and death of the power service and of its manager,
\* preserves the invariant.
LEMMA LNext == LInv /\ [L!Next]_L!vars => LInv'
  <1> SUFFICES ASSUME LInv, [L!Next]_L!vars PROVE LInv'
    OBVIOUS
  <1> USE DEF LInv, LTyped, Unheard, RemovesAlternate, NoticesFollowManager, ListenerIsComing,
        DeadInterface, CallbackIsComing, L!world
  <1>1. CASE L!OnStart
    <2>1. CASE manager # 0
      <3>1. /\ saNotices' \in Seq({ "add", "remove" }) /\ EndsIn(saNotices', "add")
            /\ Holds(saNotices, "remove") => Holds(saNotices', "remove")
            /\ Len(saNotices') = Len(saNotices) + 1 /\ Len(saNotices) \in Nat
            /\ \A i \in 1 .. Len(saNotices) : saNotices'[i] = saNotices[i]
            /\ saNotices'[Len(saNotices) + 1] = "add"
        BY <1>1, <2>1, Appended DEF L!OnStart
      <3>2. WillRegister => WillRegister' \/ listener' = manager
        BY <1>1, <3>1, Registering DEF L!OnStart, WillRegister
      <3>3. retries' > 0 => WillRegister'
        BY DEF WillRegister
      <3>4. RemovesAlternate'
        BY <1>1, <3>1 DEF L!OnStart
      <3> QED BY <1>1, <2>1, <3>1, <3>2, <3>3, <3>4, Registering DEF L!OnStart
    <2>2. CASE manager = 0
      BY <1>1, <2>2, Registering DEF L!OnStart
    <2> QED BY <2>1, <2>2
  <1>2. CASE L!OnStop
    BY <1>2 DEF L!OnStop, L!UnRegisterPowerHdiCallback, L!GetPowerInterface, WillRegister
  <1>3. CASE L!OnRemoveSystemAbility
    <2>1. LTyped'
      BY <1>3, Removed DEF L!OnRemoveSystemAbility, L!ResetHandle
    <2>2. Unheard'
      BY <1>3, Removed DEF L!OnRemoveSystemAbility, L!ResetHandle
    <2>3. RemovesAlternate'
      BY <1>3, Removed DEF L!OnRemoveSystemAbility, L!ResetHandle
    <2>4. NoticesFollowManager'
      BY <1>3, Removed DEF L!OnRemoveSystemAbility, L!ResetHandle
    <2>a. WillRegister => WillRegister'
      <3>1. ASSUME NEW k \in 1 .. Len(saNotices), saNotices[k] = "add" PROVE WillRegister'
        <4>1. k - 1 \in 1 .. Len(saNotices') /\ saNotices'[k - 1] = "add" /\ hdiRemove'
          BY <1>3, <3>1, Removed DEF L!OnRemoveSystemAbility
        <4> QED BY <4>1 DEF WillRegister
      <3> QED BY <1>3, <3>1 DEF L!OnRemoveSystemAbility, WillRegister
    <2>5. ListenerIsComing'
      BY <1>3, <2>a DEF L!OnRemoveSystemAbility
    <2>6. DeadInterface'
      BY <1>3, Removed DEF L!OnRemoveSystemAbility, L!ResetHandle
    <2>7. CallbackIsComing'
      BY <1>3, <2>a DEF L!OnRemoveSystemAbility, L!ResetHandle
    <2> QED BY <2>1, <2>2, <2>3, <2>4, <2>5, <2>6, <2>7
  <1>4. CASE L!OnAddSystemAbilityInner
    <2>0. /\ saNotices' \in Seq({ "add", "remove" }) /\ Len(saNotices') = Len(saNotices) - 1
          /\ Len(saNotices) \in Nat /\ saNotices[1] = "add" /\ Len(saNotices) > 0
          /\ \A i \in 1 .. Len(saNotices) - 1 : saNotices'[i] = saNotices[i + 1]
          /\ Holds(saNotices, "remove") => Holds(saNotices', "remove")
          /\ \A y : EndsIn(saNotices, y) => EndsIn(saNotices', y) \/ (saNotices' = << >> /\ y = "add")
          /\ hdiRemove' = FALSE
      BY <1>4, Removed DEF L!OnAddSystemAbilityInner
    <2>1. RemovesAlternate'
      BY <2>0 DEF RemovesAlternate
    <2>2. CASE ~hdiRemove
      <3>1. WillRegister => WillRegister'
        <4>1. ASSUME NEW k \in 1 .. Len(saNotices), saNotices[k] = "add", NEW i \in 1 .. k - 1,
                saNotices[i] = "remove"
              PROVE WillRegister'
          <5>1. /\ k - 1 \in 1 .. Len(saNotices') /\ saNotices'[k - 1] = "add"
                /\ i - 1 \in 1 .. (k - 1) - 1 /\ saNotices'[i - 1] = "remove"
            BY <4>1, <2>0
          <5> QED BY <5>1 DEF WillRegister
        <4> QED BY <1>4, <2>2, <4>1 DEF L!OnAddSystemAbilityInner, WillRegister
      <3> QED BY <1>4, <2>0, <2>1, <2>2, <3>1 DEF L!OnAddSystemAbilityInner
    <2>3. CASE hdiRemove
      BY <1>4, <2>0, <2>1, <2>3, Registering DEF L!OnAddSystemAbilityInner, WillRegister
    <2> QED BY <2>2, <2>3
  <1>5. CASE L!RetryTask
    <2>1. CASE /\ manager # 0 /\ listener' = manager /\ retries' = retries - 1
               /\ hdi # 0 /\ status' = Append(status, "START")
      <3>1. /\ status' \in Seq({ "START", "STOP" }) /\ EndsIn(status', "START")
            /\ Holds(status, "STOP") => Holds(status', "STOP")
        BY <2>1, Appended
      <3> QED BY <1>5, <2>1, <3>1 DEF L!RetryTask, WillRegister
    <2>2. CASE /\ manager # 0 /\ listener' = manager /\ retries' = retries - 1
               /\ hdi = 0 /\ status' = status
      BY <1>5, <2>2 DEF L!RetryTask, WillRegister
    <2>3. CASE UNCHANGED << listener, status, retries >>
      BY <1>5, <2>3 DEF L!RetryTask, WillRegister
    <2> QED BY <1>5, <2>1, <2>2, <2>3 DEF L!RetryTask
  <1>6. CASE L!StatusCallback
    <2>1. LTyped'
      BY <1>6, Removed DEF L!StatusCallback, WillRegister
    <2>2. Unheard'
      BY <1>6, Removed DEF L!StatusCallback, WillRegister
    <2>3. RemovesAlternate'
      BY <1>6, Removed DEF L!StatusCallback, WillRegister
    <2>4. NoticesFollowManager'
      BY <1>6, Removed DEF L!StatusCallback, WillRegister
    <2>5. ListenerIsComing'
      BY <1>6, Removed DEF L!StatusCallback, WillRegister
    <2>6. DeadInterface'
      BY <1>6, Removed DEF L!StatusCallback, WillRegister
    <2>7. CallbackIsComing'
      <3>1. WillRegister' = WillRegister
        BY <1>6 DEF L!StatusCallback, WillRegister
      <3>2. EndsIn(status, "START") =>
              EndsIn(status', "START") \/ (status' = << >> /\ Head(status) = "START")
        BY <1>6, Removed DEF L!StatusCallback
      <3>3. status' = << >> /\ Head(status) = "START" => ~Holds(status, "STOP")
        <4>1. status' = << >> => ~Holds(status', "STOP")
          BY DEF Holds
        <4> QED BY <1>6, <4>1, Removed DEF L!StatusCallback
      <3> QED BY <1>6, <3>1, <3>2, <3>3, RemoveIsFollowed DEF L!StatusCallback
    <2> QED BY <2>1, <2>2, <2>3, <2>4, <2>5, <2>6, <2>7
  <1>7. CASE L!UseInterface
    BY <1>7 DEF L!UseInterface, L!GetPowerInterface, WillRegister
  <1>8. CASE L!RegisterPowerHdiCallback
    BY <1>8 DEF L!RegisterPowerHdiCallback, L!GetPowerInterface, WillRegister
  <1>9. CASE L!HdiStarts
    BY <1>9, Appended DEF L!HdiStarts, L!Notify, WillRegister
  <1>10. CASE L!HdiDies
    <2>1. /\ unheard => unheard'
          /\ interface = hdi /\ manager # 0 /\ listener # manager => unheard'
      BY <1>10, Zenon DEF L!HdiDies
    <2>2. /\ status' \in Seq({ "START", "STOP" })
          /\ Holds(status, "STOP") => Holds(status', "STOP")
          /\ IF manager # 0 /\ listener = manager THEN Holds(status', "STOP") ELSE status' = status
      BY <1>10, Appended DEF L!HdiDies, L!Notify
    <2> QED BY <1>10, <2>1, <2>2 DEF L!HdiDies, WillRegister
  <1>11. CASE L!ManagerDies
    <2>1. CASE ~listening
      BY <1>11, <2>1 DEF L!ManagerDies
    <2>2. CASE listening
      <3>1. /\ saNotices' \in Seq({ "add", "remove" })
            /\ EndsIn(saNotices', "remove") /\ Holds(saNotices', "remove")
            /\ Len(saNotices') = Len(saNotices) + 1 /\ Len(saNotices) \in Nat
            /\ \A i \in 1 .. Len(saNotices) : saNotices'[i] = saNotices[i]
        BY <1>11, <2>2, Appended DEF L!ManagerDies
      <3>2. RemovesAlternate'
        BY <1>11, <2>2, <3>1 DEF L!ManagerDies, EndsIn
      <3> QED BY <1>11, <2>2, <3>1, <3>2 DEF L!ManagerDies
    <2> QED BY <2>1, <2>2
  <1>12. CASE L!ManagerStarts
    <2>1. CASE ~listening
      BY <1>12, <2>1 DEF L!ManagerStarts
    <2>2. CASE listening
      <3>1. /\ saNotices' \in Seq({ "add", "remove" }) /\ EndsIn(saNotices', "add")
            /\ Len(saNotices') = Len(saNotices) + 1 /\ Len(saNotices) \in Nat
            /\ \A i \in 1 .. Len(saNotices) : saNotices'[i] = saNotices[i]
            /\ saNotices'[Len(saNotices) + 1] = "add"
            /\ Holds(saNotices, "remove") => Holds(saNotices', "remove")
        BY <1>12, <2>2, Appended DEF L!ManagerStarts
      <3>2. RemovesAlternate'
        BY <1>12, <3>1 DEF L!ManagerStarts
      <3>3. WillRegister'
        BY <1>12, <2>2, <3>1 DEF L!ManagerStarts, WillRegister, EndsIn
      <3> QED BY <1>12, <2>2, <3>1, <3>2, <3>3 DEF L!ManagerStarts
    <2> QED BY <2>1, <2>2
  <1>13. CASE UNCHANGED L!vars
    BY <1>13 DEF L!vars, WillRegister
  <1> QED BY <1>1, <1>2, <1>3, <1>4, <1>5, <1>6, <1>7, <1>8, <1>9, <1>10, <1>11, <1>12, <1>13
        DEF L!Next

\* SystemSuspendController: when every notice, retry and task is handled, the power service that
\* runs has our callback and the interface we keep is not a dead one's, after any number of
\* restarts of both services, unless one died while the registration was being retried.
THEOREM PowerServiceGetsTheCallback == L!Spec => []L!CallbackFollowsHdi
  <1>1. LInv => L!CallbackFollowsHdi
    BY DEF L!CallbackFollowsHdi, LInv, LTyped, DeadInterface, CallbackIsComing, WillRegister,
       EndsIn, Holds
  <1> QED BY LInit, LNext, <1>1, PTL DEF L!Spec

-------------------------------------------------------------------------------
(* ScreenSaver *)

\* The events that wait, the observers' threads and the stages of the initialization.
VTyped == events \in Seq(V!Events) /\ updates \in Nat /\ plugStatus \in V!Supplies \cup { "INVALID" }
          /\ (at # "done" => events = << >>)
          /\ at \in { "start", "observe", "subscribe", "done" }

\* The i-th event that waits is the last of the supply's.
LastPlug(i) == events[i] \in V!Supplies /\ \A j \in i + 1 .. Len(events) : events[j] \notin V!Supplies

\* The last event of the supply that waits, or without one plugStatus, is the supply's state, once
\* the events are subscribed to.
PlugIsKnown ==
    /\ \A i \in 1 .. Len(events) : LastPlug(i) => events[i] = V!Supply(plugged)
    /\ at # "start" /\ ~mistaken /\ (\A i \in 1 .. Len(events) : events[i] \notin V!Supplies)
          => plugStatus = V!Supply(plugged)

\* The timer that belongs to a supply's state and to the settings.
Due(supply) ==
    V!SetScreenSaverTimer(V!GetSettingScreenSaverTime(supply), OffTime[V!Supply(supply = "AC")])

\* With no update under way the timer is the one for plugStatus, unless the saver has run.
TimerIsDue ==
    at # "start" /\ ~stale /\ updates = 0 /\ ~inside =>
        timer = IF spent THEN V!NoTimer ELSE Due(plugStatus)

\* The inductive invariant of the screen saver.
VInv == VTyped /\ PlugIsKnown /\ TimerIsDue

\* The invariant holds before the initialization.
LEMMA VInit == V!Init => VInv
  BY DEF V!Init, VInv, VTyped, PlugIsKnown, TimerIsDue

\* Every event, observer's thread, change of a row or of the supply, and switch of user preserves
\* it.
LEMMA VNext == VInv /\ [V!Next]_V!vars => VInv'
  <1> SUFFICES ASSUME VInv, [V!Next]_V!vars PROVE VInv'
    OBVIOUS
  <1> USE DEF VInv, VTyped, PlugIsKnown, TimerIsDue, V!settings, LastPlug
  <1>1. CASE V!TimerRuns
    BY <1>1 DEF V!TimerRuns, Due, V!GetSettingScreenSaverTime
  <1>a. ASSUME V!UpdateScreenSaverTimer(plugStatus'), row' = row PROVE TimerIsDue'
    BY <1>a DEF V!UpdateScreenSaverTimer, Due, V!GetSettingScreenSaverTime
  <1>2. CASE V!InitTimer
    <2>1. ~mistaken' => plugStatus' # "INVALID"
      BY <1>2, Zenon DEF V!InitTimer
    <2> QED BY <1>2, <1>a, <2>1 DEF V!InitTimer, V!Supply, V!Supplies
  <1>3. CASE V!RegisterSettingScreenSaverObservers
    BY <1>3 DEF V!RegisterSettingScreenSaverObservers, Due, V!GetSettingScreenSaverTime
  <1>4. CASE V!SubscribeCommonEvent
    BY <1>4 DEF V!SubscribeCommonEvent, Due, V!GetSettingScreenSaverTime
  <1>5. CASE V!UserSwitched
    BY <1>5 DEF V!UserSwitched
  <1>6. CASE V!RowChanges
    <2>1. ~stale' => ~stale /\ observed
      BY <1>6, Zenon DEF V!RowChanges
    <2> QED BY <1>6, <2>1 DEF V!RowChanges
  <1>7. CASE V!ObserverUpdates
    BY <1>7, <1>a DEF V!ObserverUpdates
  <1>8. CASE V!PlugChanges
    <2>1. ~mistaken' => ~mistaken /\ at \notin { "observe", "subscribe" }
      BY <1>8, Zenon DEF V!PlugChanges
    <2>2. V!Supply(plugged') \in V!Supplies
      BY DEF V!Supply, V!Supplies
    <2>3. CASE at = "done"
      <3>1. /\ events' \in Seq(V!Events) /\ Len(events') = Len(events) + 1 /\ Len(events) \in Nat
            /\ events'[Len(events) + 1] = V!Supply(plugged')
        BY <1>8, <2>2, <2>3 DEF V!PlugChanges, V!Publish, V!Events, V!Supplies
      <3>2. PlugIsKnown'
        BY <2>2, <3>1
      <3> QED BY <1>8, <2>3, <3>1, <3>2 DEF V!PlugChanges, Due, V!GetSettingScreenSaverTime
    <2>4. CASE at # "done"
      BY <1>8, <2>1, <2>4 DEF V!PlugChanges, V!Publish, Due, V!GetSettingScreenSaverTime
    <2> QED BY <2>3, <2>4
  <1>9. CASE V!OthersPublish
    BY <1>9 DEF V!OthersPublish, V!Publish, Due, V!GetSettingScreenSaverTime
  <1>10. CASE V!OnReceiveEvent
    <2>1. /\ events' \in Seq(V!Events) /\ Len(events') = Len(events) - 1
          /\ Len(events) \in Nat /\ Len(events) > 0
          /\ Head(events) = events[1] /\ \A i \in 1 .. Len(events') : events'[i] = events[i + 1]
          /\ events # << >>
      BY <1>10 DEF V!OnReceiveEvent
    <2>2. /\ VTyped'
          /\ \A i \in 1 .. Len(events') : LastPlug(i)' => events'[i] = V!Supply(plugged')
      <3>1. ASSUME NEW i \in 1 .. Len(events'), LastPlug(i)' PROVE events'[i] = V!Supply(plugged')
        <4>1. i + 1 \in 1 .. Len(events) /\ events[i + 1] \in V!Supplies
          BY <2>1, <3>1
        <4>2. \A j \in i + 2 .. Len(events) :
                 j - 1 \in i + 1 .. Len(events') /\ events'[j - 1] = events[j]
          BY <2>1, <3>1
        <4>3. LastPlug(i + 1)
          BY <2>1, <3>1, <4>1, <4>2
        <4> QED BY <1>10, <2>1, <4>1, <4>3 DEF V!OnReceiveEvent
      <3> QED BY <1>10, <2>1, <3>1 DEF V!OnReceiveEvent
    <2>3. ASSUME \A i \in 1 .. Len(events') : events'[i] \notin V!Supplies
          PROVE  IF events[1] \in V!Supplies THEN events[1] = V!Supply(plugged)
                 ELSE \A i \in 1 .. Len(events) : events[i] \notin V!Supplies
      <3>1. \A i \in 2 .. Len(events) : i - 1 \in 1 .. Len(events') /\ events[i] = events'[i - 1]
        BY <2>1
      <3> QED BY <2>1, <2>3, <3>1
    <2>4. CASE Head(events) = "SCREEN_OFF"
      BY <1>10, <2>1, <2>2, <2>3, <2>4 DEF V!OnReceiveEvent, V!CancelScreenSaverTimer, V!Supplies
    <2>5. CASE Head(events) \in { "USER_ACTIVITY", "RUNNINGLOCK_SCREEN" }
      BY <1>10, <1>a, <2>1, <2>2, <2>3, <2>5 DEF V!OnReceiveEvent, V!Supplies
    <2>6. CASE Head(events) \in V!Supplies
      BY <1>10, <2>1, <2>2, <2>3, <2>6 DEF V!OnReceiveEvent, V!Supplies
    <2> QED BY <1>10, <2>4, <2>5, <2>6 DEF V!OnReceiveEvent
  <1>11. CASE V!PlugEventUpdates
    BY <1>11, <1>a DEF V!PlugEventUpdates
  <1>12. CASE UNCHANGED V!vars
    BY <1>12 DEF V!vars, Due, V!GetSettingScreenSaverTime
  <1> QED BY <1>1, <1>2, <1>3, <1>4, <1>5, <1>6, <1>7, <1>8, <1>9, <1>10, <1>11, <1>12 DEF V!Next

\* The screen saver: once events and threads are handled, the timer is the one for the user's row,
\* the screen-off time and the supply, in whichever order they changed, for any off times; changes
\* that nobody watches excepted.
THEOREM SaverTimerFollows == V!Spec => []V!SaverFollowsSettings
  <1>1. VInv => V!SaverFollowsSettings
    BY DEF VInv, VTyped, PlugIsKnown, TimerIsDue, Due, V!SaverFollowsSettings, V!AtRest, V!Supply
  <1> QED BY VInit, VNext, <1>1, PTL DEF V!Spec

-------------------------------------------------------------------------------
(* ServiceLife *)

\* What OnStart's listeners are told of at once.
LEMMA Joined ==
  ASSUME notices \in Seq({ "add", "remove" } \X E!Displays)
  PROVE  LET q == notices \o E!Listed("brightness") \o E!Listed("display")
         IN /\ q \in Seq({ "add", "remove" } \X E!Displays)
            /\ Holds(notices, << "add", "display" >>) => Holds(q, << "add", "display" >>)
            /\ "display" \in up => Holds(q, << "add", "display" >>)
  <1> DEFINE T == { "add", "remove" } \X E!Displays
  <1> DEFINE add == << "add", "display" >>
  <1>1. ASSUME NEW s \in Seq(T), NEW r \in Seq(T)
        PROVE  /\ s \o r \in Seq(T) /\ (Holds(s, add) \/ Holds(r, add) => Holds(s \o r, add))
    <2>1. s \o r \in Seq(T) /\ Len(s \o r) = Len(s) + Len(r) /\ Len(s) \in Nat /\ Len(r) \in Nat
      OBVIOUS
    <2>2. ASSUME NEW i \in 1 .. Len(s) PROVE (s \o r)[i] = s[i]
      OBVIOUS
    <2>3. ASSUME NEW i \in 1 .. Len(r) PROVE (s \o r)[Len(s) + i] = r[i]
      OBVIOUS
    <2>4. ASSUME Holds(s, add) PROVE Holds(s \o r, add)
      <3>1. PICK i \in 1 .. Len(s) : s[i] = add
        BY <2>4 DEF Holds
      <3>2. i \in 1 .. Len(s \o r) /\ (s \o r)[i] = add
        BY <2>1, <2>2, <3>1
      <3> QED BY <3>2 DEF Holds
    <2>5. ASSUME Holds(r, add) PROVE Holds(s \o r, add)
      <3>1. PICK i \in 1 .. Len(r) : r[i] = add
        BY <2>5 DEF Holds
      <3>2. Len(s) + i \in 1 .. Len(s \o r)
        BY <2>1
      <3> QED BY <2>3, <3>1, <3>2 DEF Holds
    <2> QED BY <2>1, <2>4, <2>5
  <1>2. /\ E!Listed("brightness") \in Seq(T) /\ E!Listed("display") \in Seq(T)
        /\ "display" \in up => Holds(E!Listed("display"), add)
    BY DEF E!Listed, E!Displays, Holds
  <1>3. notices \in Seq(T)
    OBVIOUS
  <1>4. notices \o E!Listed("brightness") \in Seq(T)
    BY <1>1, <1>2, <1>3
  <1> QED BY <1>1, <1>2, <1>3, <1>4

\* The queues, what is known of the cover, and what a thread has read of it.
ETyped ==
    /\ notices \in Seq({ "add", "remove" } \X E!Displays) /\ events \in Seq(E!Cover)
    /\ cover \in E!Cover /\ saw \in [ { "boot", "sa" } -> E!Cover ] /\ told \in E!Cover \cup { E!None }

\* The switch's events are in order, and the last one on its way is the cover's state; without a
\* subscription there are none.
EventsFollowCover == events # << >> => subscribed /\ EndsIn(events, cover)

\* Whoever subscribes to the switch, or completed the boot, has started: the display service's
\* coming is told, which OnStop does not change.
DisplayIsHeard ==
    ready \/ bootDone \/ init # "idle" \/ subscribed => "display" \in listening

\* A display service that is not there knows nothing; one that is there and knows nothing is told
\* when its notice is handled.
NoticeIsComing ==
    /\ "display" \notin up => told = E!None
    /\ told = E!None /\ "display" \in up /\ "display" \in listening
         => sa # "idle" \/ Holds(notices, << "add", "display" >>)

\* A display service that has the wrong state will be told the right one: by the boot's report, by
\* an event on its way, or by the task of a closed cover.
ReportIsComing ==
    subscribed /\ ~overtaken =>
        \/ told \in { cover, E!None } \/ init \in { "look", "report" } \/ events # << >>
        \/ cover = "closed" /\ (timer = "suspend" \/ task \in { "suspend", "closed" })

\* powerInitMutex_: the boot's callback and OnAddSystemAbility do not overlap.
InitIsGuarded ==
    /\ init # "idle" => initMutex = { "boot" }
    /\ sa # "idle" => initMutex = { "sa" }

EInv == ETyped /\ InitIsGuarded /\ EventsFollowCover /\ DisplayIsHeard /\ NoticeIsComing /\ ReportIsComing

\* The invariant holds before OnStart.
LEMMA EInit == E!Init => EInv
  <1> SUFFICES ASSUME E!Init PROVE EInv
    OBVIOUS
  <1>1. ETyped
    BY DEF E!Init, ETyped, E!Cover
  <1> QED BY <1>1 DEF EInv, E!Init, InitIsGuarded, EventsFollowCover, DisplayIsHeard,
         NoticeIsComing, ReportIsComing

\* Every step of the service, the boot, the display service and the cover keeps it.
LEMMA ENext == EInv /\ [E!Next]_E!vars => EInv'
  <1> SUFFICES ASSUME EInv, [E!Next]_E!vars PROVE EInv'
    OBVIOUS
  <1> USE DEF EInv, ETyped, InitIsGuarded, EventsFollowCover, DisplayIsHeard, NoticeIsComing,
         ReportIsComing, E!None, E!Cover, E!services, E!boot, E!switch
  <1>1. CASE E!OnStart
    <2>1. /\ notices' \in Seq({ "add", "remove" } \X E!Displays)
          /\ Holds(notices, << "add", "display" >>) \/ "display" \in up
                => Holds(notices', << "add", "display" >>)
      BY <1>1, Joined DEF E!OnStart
    <2>2. ETyped' /\ InitIsGuarded' /\ EventsFollowCover' /\ DisplayIsHeard'
      BY <1>1, <2>1 DEF E!OnStart, E!Displays
    <2>3. NoticeIsComing'
      BY <1>1, <2>1 DEF E!OnStart
    <2>4. ReportIsComing'
      BY <1>1 DEF E!OnStart
    <2> QED BY <2>2, <2>3, <2>4
  <1>2. CASE E!OnStop
    BY <1>2 DEF E!OnStop
  <1>3. CASE E!BootCompletes
    BY <1>3 DEF E!BootCompletes
  <1>4. ASSUME NEW s \in E!Displays, E!ServiceStarts(s) PROVE EInv'
    <2>1. CASE s \in listening
      <3>1. /\ notices' \in Seq({ "add", "remove" } \X E!Displays)
            /\ \A y : Holds(notices, y) => Holds(notices', y)
            /\ Holds(notices', << "add", s >>)
        BY <1>4, <2>1, Appended DEF E!ServiceStarts
      <3> QED BY <1>4, <2>1, <3>1 DEF E!ServiceStarts
    <2>2. CASE s \notin listening
      BY <1>4, <2>2 DEF E!ServiceStarts
    <2> QED BY <2>1, <2>2
  <1>5. ASSUME NEW s \in E!Displays, E!ServiceCrashes(s) PROVE EInv'
    <2>1. CASE s \in listening
      <3>1. /\ notices' \in Seq({ "add", "remove" } \X E!Displays)
            /\ \A y : Holds(notices, y) => Holds(notices', y)
        BY <1>5, <2>1, Appended DEF E!ServiceCrashes
      <3> QED BY <1>5, <2>1, <3>1 DEF E!ServiceCrashes
    <2>2. CASE s \notin listening
      BY <1>5, <2>2 DEF E!ServiceCrashes
    <2> QED BY <2>1, <2>2
  <1>6. CASE E!OnRemoveSystemAbility
    <2>1. /\ notices' \in Seq({ "add", "remove" } \X E!Displays)
          /\ Holds(notices, << "add", "display" >>) => Holds(notices', << "add", "display" >>)
      BY <1>6, Removed DEF E!OnRemoveSystemAbility
    <2> QED BY <1>6, <2>1 DEF E!OnRemoveSystemAbility
  <1>7. CASE E!OnAddBrightness
    <2>1. /\ notices' \in Seq({ "add", "remove" } \X E!Displays)
          /\ Holds(notices, << "add", "display" >>) => Holds(notices', << "add", "display" >>)
      BY <1>7, Removed DEF E!OnAddBrightness
    <2> QED BY <1>7, <2>1 DEF E!OnAddBrightness, E!RegisterBootCompletedCallback
  <1>8. CASE E!OnAddDisplay
    BY <1>8 DEF E!OnAddDisplay
  <1>9. CASE E!LookAtCover
    BY <1>9 DEF E!LookAtCover, E!IsSwitchOpenByPath
  <1>10. CASE E!OnAddDisplayEnds
    BY <1>10 DEF E!OnAddDisplayEnds, E!Tell
  <1>11. CASE E!BootCompletedCallback
    <2>1. DisplayIsHeard'
      BY <1>11 DEF E!BootCompletedCallback
    <2>2. ReportIsComing'
      BY <1>11 DEF E!BootCompletedCallback
    <2> QED BY <1>11, <2>1, <2>2 DEF E!BootCompletedCallback
  <1>12. CASE E!SwitchSubscriberInit
    BY <1>12 DEF E!SwitchSubscriberInit
  <1>13. CASE E!DoReportSwitchState
    BY <1>13 DEF E!DoReportSwitchState, E!Tell, E!IsSwitchOpenByPath
  <1>14. CASE E!InitEnds
    BY <1>14 DEF E!InitEnds
  <1>15. CASE E!Move
    BY <1>15, Appended DEF E!Move
  <1>16. CASE E!SwitchEvent
    <2>1. /\ events' \in Seq(E!Cover) /\ Head(events) \in E!Cover
          /\ EndsIn(events', cover) \/ (events' = << >> /\ Head(events) = cover)
      BY <1>16, Removed DEF E!SwitchEvent
    <2>2. ETyped' /\ InitIsGuarded' /\ EventsFollowCover' /\ DisplayIsHeard' /\ NoticeIsComing'
      BY <1>16, <2>1 DEF E!SwitchEvent, E!Tell
    <2>3. ReportIsComing'
      <3>1. CASE events' # << >>
        BY <3>1
      <3>2. CASE events' = << >>
        <4>1. Head(events) = cover /\ cover \in { "open", "closed" }
          BY <2>1, <3>2 DEF EndsIn
        <4>2. CASE cover = "open"
          BY <1>16, <4>1, <4>2 DEF E!SwitchEvent, E!Tell
        <4>3. CASE cover = "closed"
          BY <1>16, <4>1, <4>3 DEF E!SwitchEvent
        <4> QED BY <4>1, <4>2, <4>3
      <3> QED BY <3>1, <3>2
    <2> QED BY <2>2, <2>3
  <1>17. CASE E!TimerFires
    BY <1>17 DEF E!TimerFires
  <1>18. CASE E!WakeupTask
    BY <1>18 DEF E!WakeupTask
  <1>19. CASE E!SuspendTask
    BY <1>19 DEF E!SuspendTask
  <1>20. CASE E!DoSwitchClose
    BY <1>20 DEF E!DoSwitchClose, E!Tell
  <1>21. CASE E!ScreenChanges
    BY <1>21 DEF E!ScreenChanges
  <1>22. CASE UNCHANGED E!vars
    BY <1>22 DEF E!vars
  <1> QED BY <1>1, <1>2, <1>3, <1>4, <1>5, <1>6, <1>7, <1>8, <1>9, <1>10, <1>11, <1>12, <1>13,
         <1>14, <1>15, <1>16, <1>17, <1>18, <1>19, <1>20, <1>21, <1>22 DEF E!Next

\* DisplayKnowsCover: in a settled state, with the switch subscribed to and no event overtaken by
\* OnAddSystemAbility's own look at the cover, the display service has the cover's state, whatever
\* the order in which the boot, the display service and the cover come and go (OnStart,
\* RegisterBootCompletedCallback, OnAddSystemAbility, DoReportSwitchState).
THEOREM DisplayIsToldOfCover == E!Spec => []E!DisplayKnowsCover
  <1>1. EInv => E!DisplayKnowsCover
    BY DEF EInv, ETyped, DisplayIsHeard, NoticeIsComing, ReportIsComing, Holds,
           E!DisplayKnowsCover, E!Settled, E!Displays, E!None
  <1> QED BY EInit, ENext, <1>1, PTL DEF E!Spec

-------------------------------------------------------------------------------
(* PowerMode *)

\* INIT_VALUE_FALSE is no value of a setting, and the configuration gives values of settings.
ModesAreGiven ==
    /\ M!INIT_VALUE_FALSE \notin Values /\ 0 \in Values /\ Readable \subseteq Switches
    /\ \A m \in M!Modes, s \in Switches : Policy[m][s].value \in Values \cup { M!INIT_VALUE_FALSE }

Unset == M!INIT_VALUE_FALSE

MTyped ==
    /\ mode \in M!Modes /\ savedMode \in M!Modes /\ observed \in M!Modes \cup { "none" }
    /\ target.mode \in M!Modes /\ switchMap \in M!Maps /\ recoverMap \in M!Maps
    /\ savedRecoverMap \in M!Maps \cup { << >> }
    /\ settings \in [ Switches -> Values ] /\ user \in [ Switches -> Values ]

\* The user's value of s is in the settings, or in the back-up.
Backed(map, s) == IF map[s] = Unset THEN settings[s] = user[s] ELSE map[s] = user[s]

\* Between the start of the service and InitPowerMode nothing has been set, and the saved back-up
\* is that of the saved mode.
BeforeStart ==
    ~ready /\ ~disturbed =>
        /\ mode = "NORMAL" /\ modeCall = "idle" /\ noticed = {} /\ ~observerRegisted
        /\ recoverMap = M!Nothing
        /\ savedRecoverMap = << >> => \A s \in M!Recoverable : settings[s] = user[s]
        /\ savedRecoverMap # << >> =>
               \A s \in M!Recoverable : /\ Backed(savedRecoverMap, s)
                                        /\ s \notin M!Overrides(savedMode) => savedRecoverMap[s] = Unset

\* What the next start will read is what this one has.
BackupIsSaved == ready /\ ~disturbed => savedRecoverMap = recoverMap

\* Until EnableMode has saved the mode no observer is registered.
NothingIsNoticed ==
    ready /\ ~disturbed /\ modeCall \in { "policy", "actions", "save" }
      => noticed = {} /\ ~observerRegisted

\* Before UpdatePowerModePolicy the back-up is still that of the former mode.
AtPolicy ==
    ready /\ ~disturbed /\ modeCall = "policy" => \A s \in M!Recoverable : Backed(recoverMap, s)

\* After it the back-up has the user's value of every setting that the mode overrides, and
\* switchMap_ that of every other that is to be set.
AtActions ==
    ready /\ ~disturbed /\ modeCall = "actions" =>
        \A s \in M!Recoverable :
            IF s \in M!Overrides(mode) THEN recoverMap[s] = user[s] /\ switchMap[s] # Unset
            ELSE recoverMap[s] = Unset /\ Backed(switchMap, s)

\* In a mode that is set, a setting it overrides is backed up, or the user has changed it: then
\* the observer has ended the back-up or is about to.
InMode ==
    ready /\ ~disturbed /\ modeCall \in { "save", "sub", "idle" } =>
        \A s \in M!Recoverable :
            IF recoverMap[s] = Unset THEN settings[s] = user[s]
            ELSE /\ s \in M!Overrides(mode)
                 /\ \/ recoverMap[s] = user[s] /\ settings[s] = switchMap[s]
                    \/ recoverMap[s] = user[s] /\ ~observerRegisted /\ modeCall # "save"
                    \/ settings[s] = user[s] /\ settings[s] # switchMap[s] /\ s \in noticed

MInv == MTyped /\ BeforeStart /\ BackupIsSaved /\ NothingIsNoticed /\ AtPolicy /\ AtActions /\ InMode

\* A map of the switches is not the empty one that stands for no saved map.
LEMMA MapsAreNotEmpty ==
  ASSUME NEW map \in M!Maps, NEW s \in Switches PROVE map # << >>
  <1>1. DOMAIN map = Switches
    BY DEF M!Maps
  <1>2. DOMAIN << >> = {}
    OBVIOUS
  <1> QED BY <1>1, <1>2

\* ReadPowerModePolicy gives a map of the switches.
LEMMA ReadIsMap == ASSUME ModesAreGiven, MTyped, NEW m \in M!Modes
  PROVE M!ReadPowerModePolicy(m) \in [ Switches -> Values \cup { Unset } ]
  BY DEF ModesAreGiven, MTyped, M!ReadPowerModePolicy, M!GetSettingSwitchState, Unset

\* The invariant holds at the first start.
LEMMA MInit == ASSUME ModesAreGiven PROVE M!Init => MInv
  <1> SUFFICES ASSUME M!Init PROVE MInv
    OBVIOUS
  <1>1. MTyped
    BY DEF M!Init, MTyped, M!Modes, M!Maps, M!Nothing, M!NoTarget
  <1>2. \A s \in M!Recoverable : settings[s] = user[s]
    BY DEF M!Init
  <1> QED BY <1>1, <1>2 DEF MInv, M!Init, BeforeStart, BackupIsSaved, NothingIsNoticed, AtPolicy,
         AtActions, InMode

\* SetModeItem, for the calls of clients and of the settings' observer.
LEMMA SetModeItemKeeps ==
  ASSUME ModesAreGiven, MInv, NEW m \in M!Modes, NEW sub, M!SetModeItem(m, sub),
           observed' \in M!Modes \cup { "none" }
  PROVE  MInv'
  <1>1. CASE m = mode /\ m = "EXTREME_POWER_SAVE" /\ modeCall' = "sub" /\ UNCHANGED << mode,
               subMode, savedSubMode, observerRegisted, noticed, disturbed >>
    BY <1>1 DEF MInv, MTyped, BeforeStart, BackupIsSaved, NothingIsNoticed, AtPolicy, AtActions,
           InMode, M!SetModeItem, Backed
  <1>2. CASE m # mode /\ M!UnregisterSaveModeObserver /\ disturbed' = (disturbed \/ ~ready \/ noticed # {}) /\ mode' = m /\ modeCall' = "policy"
    <2>1. MTyped'
      BY <1>2 DEF MInv, MTyped, M!SetModeItem
    <2>2. ~disturbed' => ~disturbed /\ ready /\ noticed = {}
      BY <1>2
    <2>3. BeforeStart' /\ BackupIsSaved' /\ NothingIsNoticed' /\ AtActions' /\ InMode'
      BY <1>2, <2>2 DEF MInv, BeforeStart, BackupIsSaved, NothingIsNoticed, AtActions, InMode,
             M!SetModeItem, M!UnregisterSaveModeObserver
    <2>4. AtPolicy'
      BY <1>2, <2>2 DEF MInv, AtPolicy, InMode, M!SetModeItem, Backed
    <2> QED BY <2>1, <2>3, <2>4 DEF MInv
  <1> QED BY <1>1, <1>2 DEF M!SetModeItem

\* What the service finds at its start.
LEMMA SavedIsBackedUp ==
  ASSUME BeforeStart, ~ready, ~disturbed, savedRecoverMap # << >>
  PROVE  /\ \A s \in M!Recoverable : Backed(savedRecoverMap, s)
         /\ \A s \in M!Recoverable : s \notin M!Overrides(savedMode) => savedRecoverMap[s] = Unset
  <1>1. \A s \in M!Recoverable : Backed(savedRecoverMap, s)
    BY DEF BeforeStart
  <1>2. \A s \in M!Recoverable : s \notin M!Overrides(savedMode) => savedRecoverMap[s] = Unset
    BY DEF BeforeStart
  <1> QED BY <1>1, <1>2

\* Every step of a mode change, of the observers, the user and a crash keeps it.
LEMMA MNext == ASSUME ModesAreGiven PROVE MInv /\ [M!Next]_M!vars => MInv'
  <1> SUFFICES ASSUME MInv, [M!Next]_M!vars PROVE MInv'
    OBVIOUS
  <1> USE DEF MInv, MTyped, BeforeStart, BackupIsSaved, NothingIsNoticed, AtPolicy, AtActions,
         InMode
  <1>0. \A s \in M!Recoverable : s \in Switches /\ s \in Readable
    BY DEF M!Recoverable, ModesAreGiven
  <1>1. ASSUME NEW m \in M!Modes, M!SetDeviceMode(m) PROVE MInv'
    BY <1>1, SetModeItemKeeps DEF M!SetDeviceMode
  <1>2. ASSUME NEW m \in M!Modes, M!SettingsSetMode(m) PROVE MInv'
    BY <1>2 DEF M!SettingsSetMode, M!volatile, Backed
  <1>3. ASSUME NEW sub \in M!SubModes, M!SetDeviceSubMode(sub) PROVE MInv'
    <2>1. "EXTREME_POWER_SAVE" \in M!Modes
      BY DEF M!Modes
    <2> QED BY <1>3, <2>1, SetModeItemKeeps DEF M!SetDeviceSubMode
  <1>4. CASE M!EnableModePolicy
    <2>1. /\ modeCall = "policy" /\ modeCall' = "actions" /\ UNCHANGED << target, mode, ready,
               disturbed, settings, user, savedMode, observed, noticed, observerRegisted >>
          /\ savedRecoverMap' = recoverMap'
          /\ switchMap' = [ s \in Switches |-> IF s \in M!Overrides(mode) THEN Policy[mode][s].value
               ELSE recoverMap[s] ]
          /\ recoverMap' = [ s \in Switches |-> IF s \in M!Overrides(mode) /\ recoverMap[s] # Unset
               THEN recoverMap[s] ELSE M!ReadPowerModePolicy(mode)[s] ]
      BY <1>4 DEF M!EnableModePolicy, M!UpdatePowerModePolicy, M!ComparePowerModePolicy,
             M!SavePowerModeRecoverMap, Unset
    <2>2. switchMap' \in M!Maps
      BY <2>1 DEF M!Maps, ModesAreGiven
    <2>3. recoverMap' \in M!Maps
      <3>1. M!ReadPowerModePolicy(mode) \in [ Switches -> Values \cup { Unset } ]
        BY ReadIsMap
      <3> QED BY <2>1, <3>1 DEF M!Maps, Unset
    <2>4. ASSUME ready', ~disturbed', NEW s \in M!Recoverable
          PROVE  IF s \in M!Overrides(mode) THEN recoverMap'[s] = user[s] /\ switchMap'[s] # Unset
                 ELSE recoverMap'[s] = Unset /\ Backed(switchMap', s)
      <3>1. s \in Switches /\ s \in Readable /\ Backed(recoverMap, s)
        BY <1>0, <2>1, <2>4
      <3>2. M!ReadPowerModePolicy(mode)[s] = IF s \in M!Overrides(mode) THEN settings[s] ELSE Unset
        BY <3>1 DEF M!ReadPowerModePolicy, M!GetSettingSwitchState, M!Recoverable, Unset
      <3> QED BY <2>1, <3>1, <3>2 DEF Backed, M!Overrides, Unset
    <2>5. AtActions'
      BY <2>1, <2>4 DEF Backed, M!Overrides
    <2> QED BY <2>1, <2>2, <2>3, <2>5
  <1>5. CASE M!EnableModeActions
    <2>1. /\ modeCall = "actions" /\ modeCall' = "save"
          /\ UNCHANGED << target, mode, ready, disturbed, switchMap, recoverMap, user, savedMode,
               savedRecoverMap, observed, noticed, observerRegisted >>
          /\ settings' = [ s \in Switches |-> IF switchMap[s] # Unset THEN switchMap[s]
               ELSE settings[s] ]
      BY <1>5 DEF M!EnableModeActions, M!TriggerAllActions, M!volatile, M!saved, Unset
    <2>2. settings' \in [ Switches -> Values ]
      BY <2>1 DEF M!Maps, Unset
    <2>3. InMode'
      <3>1. ASSUME ready, ~disturbed, NEW s \in M!Recoverable
            PROVE  IF recoverMap[s] = Unset THEN settings'[s] = user[s]
                   ELSE s \in M!Overrides(mode) /\ recoverMap[s] = user[s] /\ settings'[s] = switchMap[s]
        <4>1. s \in Switches /\ settings'[s] = IF switchMap[s] # Unset THEN switchMap[s]
                ELSE settings[s]
          BY <1>0, <2>1, <3>1
        <4>2. user[s] # Unset
          BY <4>1 DEF ModesAreGiven, Unset
        <4> QED BY <2>1, <3>1, <4>1, <4>2 DEF Backed
      <3> QED BY <2>1, <3>1 DEF M!Overrides
    <2> QED BY <2>1, <2>2, <2>3
  <1>6. CASE M!EnableModeSave
    BY <1>6 DEF M!EnableModeSave, M!RegisterSaveModeObserver, M!NoTarget, M!Modes, M!Overrides,
           Backed
  <1>7. CASE M!SetModeAndSubModeItem
    BY <1>7 DEF M!SetModeAndSubModeItem, M!NoTarget, M!Modes, M!Overrides, Backed
  <1>8. CASE M!InitPowerMode
    <2>1. /\ ~ready /\ ready' /\ mode' = savedMode /\ UNCHANGED << observerRegisted, modeCall,
               target, observed, savedMode, noticed, user >>
          /\ ~disturbed' => ~disturbed /\ modeCall = "idle"
      BY <1>8 DEF M!InitPowerMode
    <2>2. CASE savedRecoverMap = << >> /\ M!UpdatePowerModePolicy(savedMode, recoverMap)
                 /\ M!TriggerAllActions(switchMap')
      <3>1. /\ switchMap' = [ s \in Switches |-> IF s \in M!Overrides(savedMode)
                 THEN Policy[savedMode][s].value ELSE recoverMap[s] ]
            /\ recoverMap' = [ s \in Switches |-> IF s \in M!Overrides(savedMode) /\ recoverMap[s] # Unset THEN recoverMap[s] ELSE M!ReadPowerModePolicy(savedMode)[s] ]
            /\ savedRecoverMap' = recoverMap'
            /\ settings' = [ s \in Switches |-> IF switchMap'[s] # Unset THEN switchMap'[s]
                 ELSE settings[s] ]
        BY <2>2 DEF M!UpdatePowerModePolicy, M!ComparePowerModePolicy, M!SavePowerModeRecoverMap,
               M!TriggerAllActions, Unset
      <3>2. M!ReadPowerModePolicy(savedMode) \in [ Switches -> Values \cup { Unset } ]
        BY ReadIsMap
      <3>3. switchMap' \in M!Maps /\ recoverMap' \in M!Maps
        BY <3>1, <3>2 DEF M!Maps, ModesAreGiven, Unset
      <3>4. settings' \in [ Switches -> Values ]
        BY <3>1, <3>3 DEF M!Maps, Unset
      <3>5. ASSUME ~disturbed', NEW s \in M!Recoverable
            PROVE  IF recoverMap'[s] = Unset THEN settings'[s] = user[s]
                   ELSE s \in M!Overrides(savedMode) /\ recoverMap'[s] = user[s] /\ settings'[s] = switchMap'[s]
        <4>1. s \in Switches /\ s \in Readable /\ recoverMap[s] = Unset /\ settings[s] = user[s]
          BY <1>0, <2>1, <2>2, <3>5 DEF M!Nothing, Unset
        <4>2. M!ReadPowerModePolicy(savedMode)[s] = IF s \in M!Overrides(savedMode) THEN settings[s]
                ELSE Unset
          BY <4>1 DEF M!ReadPowerModePolicy, M!GetSettingSwitchState, M!Recoverable, Unset
        <4>3. user[s] # Unset
          BY <4>1 DEF ModesAreGiven, Unset
        <4> QED BY <3>1, <4>1, <4>2, <4>3 DEF M!Overrides, Unset
      <3>6. InMode'
        BY <2>1, <3>5 DEF M!Overrides
      <3> QED BY <2>1, <3>1, <3>3, <3>4, <3>6
    <2>3. CASE savedRecoverMap # << >> /\ recoverMap' = M!ParseRecoverJson
                 /\ UNCHANGED << switchMap, settings, savedRecoverMap >>
      <3>1. ASSUME ~disturbed, modeCall = "idle"
                     PROVE recoverMap' = savedRecoverMap /\ savedRecoverMap \in M!Maps
        BY <2>1, <2>3, <3>1 DEF M!ParseRecoverJson, M!Nothing, M!Maps
      <3>2. recoverMap' \in M!Maps
        BY <2>3 DEF M!ParseRecoverJson, M!Maps
      <3>3. ASSUME ~disturbed', NEW s \in M!Recoverable
            PROVE  IF recoverMap'[s] = Unset THEN settings'[s] = user'[s]
                   ELSE s \in M!Overrides(savedMode) /\ recoverMap'[s] = user'[s]
        <4>1. Backed(savedRecoverMap, s) /\ (s \notin M!Overrides(savedMode)
                => savedRecoverMap[s] = Unset)
          <5>1. ~ready /\ ~disturbed /\ savedRecoverMap # << >>
            BY <2>1, <2>3, <3>3
          <5> HIDE DEF MInv, BeforeStart, MTyped
          <5>2. BeforeStart
            BY DEF MInv
          <5> QED BY <3>3, <5>1, <5>2, SavedIsBackedUp
        <4> QED BY <2>1, <2>3, <3>1, <3>3, <4>1 DEF Backed
      <3>4. InMode'
        BY <2>1, <2>3, <3>3 DEF M!Overrides
      <3> QED BY <2>1, <2>3, <3>1, <3>2, <3>4
    <2>4. CASE savedRecoverMap # << >> /\ M!UpdatePowerModePolicy(savedMode, M!ParseRecoverJson)
                 /\ UNCHANGED settings
      <3>1. PICK held : held = M!ParseRecoverJson
        OBVIOUS
      <3>2. held \in M!Maps /\ (~disturbed /\ modeCall = "idle" => held = savedRecoverMap)
        BY <2>1, <2>4, <3>1 DEF M!ParseRecoverJson, M!Nothing, M!Maps
      <3>3. /\ switchMap' = [ s \in Switches |-> IF s \in M!Overrides(savedMode)
                 THEN Policy[savedMode][s].value ELSE held[s] ]
            /\ recoverMap' = [ s \in Switches |-> IF s \in M!Overrides(savedMode) /\ held[s] # Unset
                 THEN held[s] ELSE M!ReadPowerModePolicy(savedMode)[s] ]
            /\ savedRecoverMap' = recoverMap' /\ settings' = settings
        BY <2>4, <3>1 DEF M!UpdatePowerModePolicy, M!ComparePowerModePolicy,
               M!SavePowerModeRecoverMap, Unset
      <3>4. M!ReadPowerModePolicy(savedMode) \in [ Switches -> Values \cup { Unset } ]
        BY ReadIsMap
      <3>5. switchMap' \in M!Maps /\ recoverMap' \in M!Maps
        BY <3>2, <3>3, <3>4 DEF M!Maps, ModesAreGiven, Unset
      <3>6. ASSUME ~disturbed', NEW s \in M!Recoverable
            PROVE  IF recoverMap'[s] = Unset THEN settings'[s] = user'[s]
                   ELSE s \in M!Overrides(savedMode) /\ recoverMap'[s] = user'[s]
        <4>1. Backed(held, s) /\ (s \notin M!Overrides(savedMode) => held[s] = Unset)
          <5>1. ~ready /\ ~disturbed /\ savedRecoverMap # << >> /\ held = savedRecoverMap
            BY <2>1, <2>4, <3>2, <3>6
          <5> HIDE DEF MInv, BeforeStart, MTyped
          <5>2. BeforeStart
            BY DEF MInv
          <5> QED BY <3>6, <5>1, <5>2, SavedIsBackedUp
        <4>2. s \in Switches /\ s \in Readable /\ user' = user
          BY <1>0, <2>1, <3>6
        <4>3. M!ReadPowerModePolicy(savedMode)[s] = IF s \in M!Overrides(savedMode) THEN settings[s]
                ELSE Unset
          BY <3>6, <4>2 DEF M!ReadPowerModePolicy, M!GetSettingSwitchState, M!Recoverable, Unset
        <4> QED BY <3>3, <4>1, <4>2, <4>3 DEF Backed
      <3>7. InMode'
        BY <2>1, <3>6 DEF M!Overrides
      <3> QED BY <2>1, <3>3, <3>5, <3>7
    <2> QED BY <1>8, <2>2, <2>3, <2>4 DEF M!InitPowerMode
  <1>9. CASE M!PowerModeSettingUpdateFunc
    <2>1. CASE UNCHANGED << M!volatile, modeCall, target, settings, M!saved, noticed, user,
                 disturbed >> /\ observed' \in { savedMode, "none" }
      BY <2>1 DEF M!volatile, M!saved, Backed
    <2>2. CASE observed # "none" /\ M!SetModeItem(observed, IF observed = "EXTREME_POWER_SAVE"
                 THEN "EMERGENCY" ELSE "INVALID") /\ observed' = "none"
      BY <2>2, SetModeItemKeeps
    <2> QED BY <1>9, <2>1, <2>2 DEF M!PowerModeSettingUpdateFunc
  <1>10. CASE M!Crash
    <2>1. MTyped'
      BY <1>10 DEF M!Crash, M!Nothing, M!Maps, M!Modes, M!NoTarget, M!saved
    <2>2. ~disturbed' => ~disturbed /\ modeCall = "idle" /\ savedMode = mode /\ noticed = {}
      BY <1>10 DEF M!Crash
    <2>3. BeforeStart'
      <3> SUFFICES ASSUME ~disturbed, modeCall = "idle", savedMode = mode, noticed = {}
                   PROVE  IF savedRecoverMap = << >> THEN \A s \in M!Recoverable : settings[s] = user[s]
                          ELSE \A s \in M!Recoverable :
                                    /\ Backed(savedRecoverMap, s)
                                    /\ s \notin M!Overrides(savedMode) => savedRecoverMap[s] = Unset
        BY <1>10, <2>2 DEF M!Crash, M!saved, Backed, M!Overrides
      <3>1. savedRecoverMap = recoverMap
        BY <1>10 DEF M!Crash
      <3>2. ASSUME NEW s \in M!Recoverable
                     PROVE Backed(recoverMap, s) /\ (s \notin M!Overrides(mode)
                       => recoverMap[s] = Unset) /\ recoverMap # << >>
        BY <1>0, <1>10, MapsAreNotEmpty DEF M!Crash, Backed
      <3> QED BY <3>1, <3>2
    <2> QED BY <1>10, <2>1, <2>3 DEF M!Crash
  <1>11. ASSUME NEW s \in Switches, M!SettingUpdateFunc(s) PROVE MInv'
    <2>1. /\ s \in noticed /\ observerRegisted /\ noticed' = noticed \ {s}
          /\ UNCHANGED << mode, switchMap, observerRegisted, ready, modeCall, target, observed,
               settings, savedMode, user, disturbed >>
      BY <1>11 DEF M!SettingUpdateFunc
    <2>2. CASE settings[s] = switchMap[s] /\ UNCHANGED << recoverMap, savedRecoverMap >>
      <3>1. InMode'
        BY <1>0, <2>1, <2>2 DEF M!Overrides
      <3> QED BY <2>1, <2>2, <3>1 DEF Backed
    <2>3. CASE settings[s] # switchMap[s] /\ M!RemoveBackupMapSettingSwitch(s)
      <3>1. recoverMap' = [ recoverMap EXCEPT ![s] = Unset ] /\ recoverMap' \in M!Maps
        BY <2>3 DEF M!RemoveBackupMapSettingSwitch, Unset, M!Maps
      <3>2. savedRecoverMap = recoverMap => savedRecoverMap' = recoverMap'
        <4>1. recoverMap[s] = Unset => recoverMap' = recoverMap
          BY <3>1 DEF M!Maps
        <4> QED BY <2>3, <4>1 DEF M!RemoveBackupMapSettingSwitch, M!SavePowerModeRecoverMap, Unset
      <3>3. InMode'
        BY <1>0, <2>1, <2>3, <3>1 DEF M!Maps
      <3>4. MTyped'
        BY <2>1, <2>3, <3>1 DEF M!RemoveBackupMapSettingSwitch, M!SavePowerModeRecoverMap
      <3>5. AtPolicy' /\ AtActions' /\ NothingIsNoticed' /\ BeforeStart'
        BY <2>1
      <3> QED BY <2>1, <3>2, <3>3, <3>4, <3>5
    <2> QED BY <1>11, <2>2, <2>3 DEF M!SettingUpdateFunc, M!GetPowerModeValuePolicy
  <1>12. ASSUME NEW s \in Switches, NEW v \in Values, M!UserSets(s, v) PROVE MInv'
    <2>1. /\ settings' = [ settings EXCEPT ![s] = v ]
          /\ user' = IF v = switchMap[s] /\ recoverMap[s] # Unset THEN user
               ELSE [ user EXCEPT ![s] = v ]
          /\ noticed' = IF observerRegisted THEN noticed \cup {s} ELSE noticed
          /\ UNCHANGED << mode, switchMap, recoverMap, observerRegisted, ready, modeCall, target,
               observed, savedMode, savedRecoverMap >>
      BY <1>12 DEF M!UserSets, M!volatile, M!saved, Unset
    <2>2. ~disturbed' => /\ ~disturbed /\ modeCall = "idle" /\ ready /\ s \notin noticed
                         /\ s \in M!Overrides(mode) => observerRegisted
      BY <1>12 DEF M!UserSets
    <2>3. MTyped'
      BY <2>1
    <2>4. InMode'
      <3> SUFFICES ASSUME ready, ~disturbed, modeCall = "idle", s \notin noticed,
                            s \in M!Overrides(mode) => observerRegisted,
                          NEW r \in M!Recoverable
                   PROVE  IF recoverMap[r] = Unset THEN settings'[r] = user'[r]
                          ELSE /\ r \in M!Overrides(mode)
                               /\ \/ recoverMap[r] = user'[r] /\ settings'[r] = switchMap[r]
                                  \/ recoverMap[r] = user'[r] /\ ~observerRegisted /\ modeCall # "save"
                                  \/ settings'[r] = user'[r] /\ settings'[r] # switchMap[r] /\ r \in noticed'
        BY <2>1, <2>2 DEF M!Overrides
      <3>1. r \in Switches
        BY <1>0
      <3>2. CASE r # s
        BY <2>1, <3>1, <3>2
      <3>3. CASE r = s
        BY <2>1, <3>1, <3>3
      <3> QED BY <3>2, <3>3
    <2> QED BY <2>1, <2>2, <2>3, <2>4
  <1>13. CASE UNCHANGED M!vars
    BY <1>13 DEF M!vars, Backed
  <1> QED BY <1>1, <1>2, <1>3, <1>4, <1>5, <1>6, <1>7, <1>8, <1>9, <1>10, <1>11, <1>12, <1>13
      DEF M!Next

\* UserValueIsRestored: a setting that the present mode leaves alone has the user's value, through
\* any sequence of mode changes, changes by the user, crashes and restarts (SetModeItem,
\* UpdatePowerModePolicy, ComparePowerModePolicy, InitPowerMode), unless disturbed says otherwise.
THEOREM ModesRestoreTheUser == ASSUME ModesAreGiven PROVE M!Spec => []M!UserValueIsRestored
  <1>1. MInv => M!UserValueIsRestored
    BY DEF MInv, InMode, M!UserValueIsRestored
  <1> QED BY MInit, MNext, <1>1, PTL DEF M!Spec

-------------------------------------------------------------------------------
(* Settings *)

\* The values of a row, and of what is kept of it; the threads; the rows of the display-off time.
Cells == OffTimes \cup { U!Missing, U!TooShort, DEFAULT_DISPLAY_OFF_TIME_MS }
Updates == [ key : U!Keys, read : { "no", "system", "value", "keep", "before", "set" }, value : Cells,
             seen : Cells ]
TimeKeys == { "ac", "dc", "off" }

\* Types; only the keys of the build's rows are in use.
SettingsTyped ==
    /\ active \in Users /\ currentUserId \in Users
    /\ store \in [ U!Keys -> [ U!Owners -> Cells ] ]
    /\ observer \in [ U!Keys -> SUBSET U!Owners ]
    /\ updates \subseteq Updates
    /\ displayOffTime \in Cells /\ beforeOverride \in Cells
    /\ caller \in [ at : { "idle", "flag", "save", "override", "restore", "unset", "write" }, saved : Cells ]
    /\ wakeupSource \in [ U!Switches -> BOOLEAN ]
    /\ \A t \in updates : t.key \in { "double" } \cup U!OffTimeKeys
    /\ \A t \in updates : t.read \notin { "no", "value" } => t.key \in U!OffTimeKeys
    /\ changes \cap U!Keys \subseteq { "double" } \cup U!OffTimeKeys

\* A thread has still to read a row of ks; the threads that have begun.
WillRead(ks) == \E t \in updates : t.key \in ks /\ t.read \in { "no", "system" }
HaveBegun(ks) == { t \in updates : t.key \in ks /\ t.read # "no" }

\* The display-off time of the settings.
OffTimeRow == U!GetStringValue(U!OffTimeKey)

\* Once the common events are received, the user is the active one or a switch is on its way.
UserIsKnown ==
    ~disturbed /\ handler \in { "keys", "idle", "updated" } => currentUserId = active \/ toHandle

\* When the observers of the display-off time are there: a switch of the user takes away only
\* those that each user has.
OffTimeIsObserved ==
    \/ handler \in { "subscribe", "keys", "idle" }
    \/ ~chargingType /\ handler \in { "unregistered", "updated" }

\* An observer is registered for the current user's row, or not at all.
ObserversFollowUser ==
    /\ handler # "idle" => observer["double"] = {}
    /\ handler = "idle" /\ ~disturbed => observer["double"] = { currentUserId }
    /\ ~OffTimeIsObserved => \A k \in U!OffTimeKeys : observer[k] = {}
    /\ OffTimeIsObserved /\ ~disturbed =>
           \A k \in U!OffTimeKeys : observer[k] = { U!AssembleUri(k) }

\* Of the threads of a switch at most one has read it and not applied it.
SwitchUpdatesAreAlone == ~disturbed => \A x, y \in HaveBegun({ "double" }) : x = y

\* While no update of the display-off time was overtaken, at most one runs, and no call with it: the
\* time in force is the one that it has read, and what it has decided is still right.
TimeUpdatesAreAlone ==
    ~lost => /\ \A x, y \in HaveBegun(TimeKeys) : x = y
             /\ \A t \in HaveBegun(TimeKeys) :
                    /\ caller.at = "idle"
                    /\ t.read \in { "system", "value" } => t.seen = displayOffTime
                    /\ t.read = "keep" => override
                    /\ t.read = "set" => beforeOverride = t.value

\* With no thread to read the switch, the one that has read it has its value, or it is in force.
SwitchIsComing ==
    ~disturbed /\ handler = "idle" /\ ~WillRead({ "double" }) =>
        /\ \A t \in HaveBegun({ "double" }) : t.value = store["double"][currentUserId]
        /\ HaveBegun({ "double" }) = {} =>
               (wakeupSource["double"] <=> store["double"][currentUserId] = 1)

\* Where the setting's time is: in force, or kept by an override, or held by a call that makes one of
\* these of the other.
TimeIsKept ==
    /\ caller.at = "idle" => OffTimeRow = IF override THEN beforeOverride ELSE displayOffTime
    /\ caller.at \in { "flag", "save", "restore" } => OffTimeRow = caller.saved
    /\ caller.at \in { "save", "override" } => override
    /\ caller.at = "override" => OffTimeRow = beforeOverride
    /\ caller.at = "unset" => OffTimeRow = displayOffTime

\* The display-off time that the settings hold is still to be read, or a thread has it, or it is kept.
OffTimeIsComing ==
    ~disturbed /\ ~lost /\ OffTimeIsObserved /\ ~WillRead(TimeKeys) /\ OffTimeRow \notin { U!Missing, U!TooShort } =>
        /\ \A t \in HaveBegun(TimeKeys) : t.value = OffTimeRow
        /\ HaveBegun(TimeKeys) = {} => TimeIsKept

\* The inductive invariant of the settings.
SettingsInv ==
    /\ SettingsTyped
    /\ UserIsKnown
    /\ ObserversFollowUser
    /\ SwitchUpdatesAreAlone
    /\ TimeUpdatesAreAlone
    /\ SwitchIsComing
    /\ OffTimeIsComing

\* The keys.
LEMMA KeysOfSettings ==
  /\ U!Keys = { "double", "ac", "dc", "off" } /\ U!Switches = { "double" }
  /\ U!OffTimeKey \in U!OffTimeKeys /\ U!OffTimeKeys \subseteq TimeKeys
  /\ TimeKeys \subseteq U!Keys /\ "double" \notin TimeKeys
  BY DEF U!Keys, U!Switches, U!OffTimeKey, U!OffTimeKeys, TimeKeys

\* Before the boot there is no thread.
LEMMA SettingsInit == U!Init => SettingsInv
  <1> SUFFICES ASSUME U!Init PROVE SettingsInv
    OBVIOUS
  <1>1. SettingsTyped
    BY DEF U!Init, SettingsTyped, Cells, U!Keys, U!Switches, U!Owners, U!OffTimeKeys, U!Missing,
       U!TooShort, U!NoCall
  <1>2. UserIsKnown /\ SwitchIsComing /\ OffTimeIsComing
    BY DEF U!Init, UserIsKnown, SwitchIsComing, OffTimeIsComing, OffTimeIsObserved
  <1>3. ObserversFollowUser
    BY KeysOfSettings DEF U!Init, ObserversFollowUser, OffTimeIsObserved
  <1>4. SwitchUpdatesAreAlone /\ TimeUpdatesAreAlone
    BY DEF U!Init, SwitchUpdatesAreAlone, TimeUpdatesAreAlone, HaveBegun
  <1> QED BY <1>1, <1>2, <1>3, <1>4 DEF SettingsInv

\* Threads that are started have read nothing yet.
LEMMA ThreadsStart ==
  ASSUME NEW ks, NEW new, \A t \in new : \E k \in U!Keys : t = U!Thread(k), updates' = updates \cup new,
         SettingsTyped
  PROVE  /\ updates' \subseteq Updates
         /\ HaveBegun(ks)' = HaveBegun(ks)
         /\ WillRead(ks) => WillRead(ks)'
         /\ \A k \in ks : U!Thread(k) \in new => WillRead(ks)'
  <1>1. \A k \in U!Keys : U!Thread(k) \in Updates
    BY DEF U!Thread, Cells, Updates
  <1>2. \A k : U!Thread(k).key = k /\ U!Thread(k).read = "no"
    BY DEF U!Thread
  <1> QED BY <1>1, <1>2 DEF SettingsTyped, HaveBegun, WillRead

\* A thread that ends leaves the others,
LEMMA ThreadEnds ==
  ASSUME NEW ks, NEW t \in updates, updates' = updates \ {t}
  PROVE  /\ HaveBegun(ks)' = HaveBegun(ks) \ {t}
         /\ (t.key \notin ks \/ t.read \notin { "no", "system" }) /\ WillRead(ks) => WillRead(ks)'
  BY DEF HaveBegun, WillRead

\* and so does one that goes on.
LEMMA ThreadGoes ==
  ASSUME NEW ks, NEW t \in updates, NEW u \in Updates, u.key = t.key, u.read # "no", SettingsTyped,
         U!Goes(t, u)
  PROVE  /\ updates' \subseteq Updates
         /\ t.key \in ks => HaveBegun(ks)' = (HaveBegun(ks) \ {t}) \cup {u}
         /\ t.key \in ks /\ u.read = "system" => WillRead(ks)'
         /\ t.key \notin ks => HaveBegun(ks)' = HaveBegun(ks)
         /\ t.key \notin ks \/ t.read \notin { "no", "system" } => (WillRead(ks) => WillRead(ks)')
  BY DEF SettingsTyped, HaveBegun, WillRead, U!Goes

\* What a thread becomes.
LEMMA NextThread ==
  ASSUME NEW t \in updates, NEW r \in { "system", "value", "keep", "before", "set" }, NEW v \in Cells,
         NEW x \in Cells, SettingsTyped
  PROVE  /\ t.key \in U!Keys /\ t.value \in Cells /\ t.seen \in Cells
         /\ [ t EXCEPT !.read = r, !.value = v ] \in Updates
         /\ [ t EXCEPT !.read = r, !.seen = x ] \in Updates
         /\ [ t EXCEPT !.read = r ] \in Updates
         /\ [ t EXCEPT !.read = r, !.value = v ] = [ key |-> t.key, read |-> r, value |-> v, seen |-> t.seen ]
         /\ [ t EXCEPT !.read = r, !.seen = x ] = [ key |-> t.key, read |-> r, value |-> t.value, seen |-> x ]
         /\ [ t EXCEPT !.read = r ] = [ key |-> t.key, read |-> r, value |-> t.value, seen |-> t.seen ]
  <1>1. t \in Updates
    BY DEF SettingsTyped
  <1>2. PICK k \in U!Keys, y \in Cells, z \in Cells,
             s \in { "no", "system", "value", "keep", "before", "set" } :
             t = [ key |-> k, read |-> s, value |-> y, seen |-> z ]
    BY <1>1 DEF Updates
  <1>3. /\ [ t EXCEPT !.read = r, !.value = v ] = [ key |-> k, read |-> r, value |-> v, seen |-> z ]
        /\ [ t EXCEPT !.read = r, !.seen = x ] = [ key |-> k, read |-> r, value |-> y, seen |-> x ]
        /\ [ t EXCEPT !.read = r ] = [ key |-> k, read |-> r, value |-> y, seen |-> z ]
    <2>1. [ t EXCEPT !.read = r ] = [ key |-> k, read |-> r, value |-> y, seen |-> z ]
      BY <1>2
    <2>2. [ t EXCEPT !.read = r, !.value = v ] = [ key |-> k, read |-> r, value |-> v, seen |-> z ]
      <3>0. PICK u : u = [ t EXCEPT !.read = r, !.value = v ]
        OBVIOUS
      <3>1. u \in Updates /\ u.key = t.key /\ u.read = r /\ u.value = v /\ u.seen = t.seen
        BY <1>1, <3>0 DEF Updates
      <3>2. u = [ key |-> u.key, read |-> u.read, value |-> u.value, seen |-> u.seen ]
        BY <3>1 DEF Updates
      <3> QED BY <1>2, <3>0, <3>1, <3>2
    <2>3. [ t EXCEPT !.read = r, !.seen = x ] = [ key |-> k, read |-> r, value |-> y, seen |-> x ]
      <3>0. PICK u : u = [ t EXCEPT !.read = r, !.seen = x ]
        OBVIOUS
      <3>1. u \in Updates /\ u.key = t.key /\ u.read = r /\ u.value = t.value /\ u.seen = x
        BY <1>1, <3>0 DEF Updates
      <3>2. u = [ key |-> u.key, read |-> u.read, value |-> u.value, seen |-> u.seen ]
        BY <3>1 DEF Updates
      <3> QED BY <1>2, <3>0, <3>1, <3>2
    <2> QED BY <2>1, <2>2, <2>3
  <1>4. \A v1 \in Cells, x1 \in Cells : [ key |-> k, read |-> r, value |-> v1, seen |-> x1 ] \in Updates
    BY DEF Updates
  <1>5. t.key = k /\ t.value = y /\ t.seen = z
    BY <1>2
  <1> QED BY <1>3, <1>4, <1>5

\* The row that counts is the same.
LEMMA OffTimeRowStays ==
  ASSUME UNCHANGED << chargingType, connectedAc, currentUserId, store >>
  PROVE  OffTimeRow' = OffTimeRow
  BY DEF OffTimeRow, U!GetStringValue, U!OffTimeKey, U!AssembleUri

\* Every update function, change of a row, of the supply and of the user preserves it.
LEMMA SettingsStep == SettingsInv /\ [U!Next]_U!vars => SettingsInv'
  <1> SUFFICES ASSUME SettingsInv, [U!Next]_U!vars PROVE SettingsInv'
    OBVIOUS
  <1>0. /\ SettingsTyped /\ UserIsKnown /\ ObserversFollowUser /\ SwitchUpdatesAreAlone
        /\ TimeUpdatesAreAlone /\ SwitchIsComing /\ OffTimeIsComing
    BY DEF SettingsInv
  <1>a. \A t \in updates : /\ t = [ key |-> t.key, read |-> t.read, value |-> t.value, seen |-> t.seen ]
                           /\ t.value \in Cells /\ t.seen \in Cells /\ t.key \in U!Keys
                           /\ t.read \in { "no", "system", "value", "keep", "before", "set" }
    BY <1>0 DEF SettingsTyped, Updates
  <1>1. ASSUME NEW t \in updates, U!SwitchUpdateReads(t) PROVE SettingsInv'
    <2>1. /\ t.key = "double" /\ t.read = "no"
          /\ UNCHANGED << chargingType, changes, active, currentUserId, store, observer, wakeupSource,
                          displayOffTime, override, beforeOverride, caller, lost, connectedAc, handler, toHandle >>
      BY <1>1, KeysOfSettings DEF U!SwitchUpdateReads, U!given, U!display
    <2>2. PICK u \in Updates : /\ U!Goes(t, u) /\ u.key = t.key /\ u.read = "value"
                               /\ ~disturbed' => /\ ~disturbed /\ u.value = store["double"][currentUserId]
                                                 /\ HaveBegun({ "double" }) = {}
      <3>1. /\ store["double"][currentUserId] \in Cells
            /\ U!GetStringValue(t.key) = store["double"][currentUserId]
        BY <1>0, <2>1, KeysOfSettings DEF U!GetStringValue, U!AssembleUri, U!IsNeedMultiUser,
           SettingsTyped, U!Owners
      <3>0. PICK v \in Cells : v = U!GetStringValue(t.key)
        BY <3>1
      <3>2. CASE /\ U!Goes(t, [ t EXCEPT !.read = "value", !.value = U!GetStringValue(t.key) ])
                 /\ disturbed' = (disturbed \/ U!Overlaps(t))
        <4>1. ~disturbed' => ~disturbed /\ ~U!Overlaps(t)
          BY <3>2, Zenon
        <4>2. ~U!Overlaps(t) => HaveBegun({ "double" }) = {}
          BY <1>0, <1>a, <2>1, KeysOfSettings DEF U!Overlaps, HaveBegun, SettingsTyped
        <4>3. /\ [ t EXCEPT !.read = "value", !.value = v ] \in Updates
              /\ [ t EXCEPT !.read = "value", !.value = v ]
                   = [ key |-> t.key, read |-> "value", value |-> v, seen |-> t.seen ]
          BY <1>0, NextThread
        <4> QED BY <3>0, <3>1, <3>2, <4>1, <4>2, <4>3
      <3>3. CASE U!Goes(t, [ t EXCEPT !.read = "value" ]) /\ disturbed' = TRUE
        <4>1. /\ [ t EXCEPT !.read = "value" ] \in Updates
              /\ [ t EXCEPT !.read = "value" ]
                   = [ key |-> t.key, read |-> "value", value |-> t.value, seen |-> t.seen ]
          BY <1>0, <3>0, NextThread
        <4> QED BY <3>3, <4>1
      <3> QED BY <1>1, <3>2, <3>3 DEF U!SwitchUpdateReads
    <2>3. /\ updates' \subseteq Updates /\ (WillRead(TimeKeys) => WillRead(TimeKeys)')
          /\ HaveBegun(TimeKeys)' = HaveBegun(TimeKeys)
          /\ HaveBegun({ "double" })' = HaveBegun({ "double" }) \cup {u}
      <3>1. /\ updates' \subseteq Updates /\ (WillRead(TimeKeys) => WillRead(TimeKeys)')
            /\ HaveBegun(TimeKeys)' = HaveBegun(TimeKeys)
        BY <1>0, <2>1, <2>2, KeysOfSettings, ThreadGoes
      <3>2. HaveBegun({ "double" })' = (HaveBegun({ "double" }) \ {t}) \cup {u}
        BY <1>0, <2>1, <2>2, ThreadGoes
      <3>3. t \notin HaveBegun({ "double" })
        BY <2>1 DEF HaveBegun
      <3> QED BY <3>1, <3>2, <3>3
    <2>4. SettingsTyped'
      BY <1>0, <2>1, <2>2, <2>3 DEF SettingsTyped, U!OffTimeKeys, U!Goes
    <2>5. UserIsKnown' /\ ObserversFollowUser'
      BY <1>0, <2>1, <2>2 DEF UserIsKnown, ObserversFollowUser, OffTimeIsObserved, U!OffTimeKeys,
         U!AssembleUri
    <2>6. SwitchUpdatesAreAlone' /\ TimeUpdatesAreAlone'
      BY <1>0, <2>1, <2>2, <2>3 DEF SwitchUpdatesAreAlone, TimeUpdatesAreAlone
    <2>7. SwitchIsComing'
      BY <1>0, <2>1, <2>2, <2>3 DEF SwitchIsComing
    <2>8. OffTimeIsComing'
      BY <1>0, <2>1, <2>2, <2>3, OffTimeRowStays DEF OffTimeIsComing, OffTimeIsObserved, TimeIsKept
    <2> QED BY <2>4, <2>5, <2>6, <2>7, <2>8 DEF SettingsInv
  <1>2. ASSUME NEW t \in updates, U!WakeupSettingUpdateFunc(t) PROVE SettingsInv'
    <2>1. /\ t.key = "double" /\ t.read = "value" /\ updates' = updates \ {t}
          /\ wakeupSource' = [ wakeupSource EXCEPT !["double"] = U!GetSettingWakeupSwitch(t.value) ]
          /\ UNCHANGED << chargingType, changes, active, currentUserId, store, observer, displayOffTime,
                          override, beforeOverride, caller, lost, connectedAc, handler, toHandle, disturbed >>
      BY <1>2, KeysOfSettings DEF U!WakeupSettingUpdateFunc, U!given, U!display
    <2>2. /\ HaveBegun(TimeKeys)' = HaveBegun(TimeKeys) \ {t} /\ t \notin HaveBegun(TimeKeys)
          /\ HaveBegun({ "double" })' = HaveBegun({ "double" }) \ {t} /\ t \in HaveBegun({ "double" })
          /\ WillRead(TimeKeys) => WillRead(TimeKeys)'
          /\ WillRead({ "double" }) => WillRead({ "double" })'
      <3>1. t \notin HaveBegun(TimeKeys) /\ t \in HaveBegun({ "double" })
        BY <2>1, KeysOfSettings DEF HaveBegun
      <3> QED BY <2>1, <3>1, ThreadEnds
    <2>3. wakeupSource'["double"] <=> t.value = 1
      BY <1>0, <2>1, KeysOfSettings DEF U!GetSettingWakeupSwitch, SettingsTyped
    <2>4. SettingsTyped'
      BY <1>0, <2>1, KeysOfSettings DEF SettingsTyped, U!OffTimeKeys, U!GetSettingWakeupSwitch
    <2>5. UserIsKnown' /\ ObserversFollowUser'
      BY <1>0, <2>1 DEF UserIsKnown, ObserversFollowUser, OffTimeIsObserved, U!OffTimeKeys,
         U!AssembleUri
    <2>6. SwitchUpdatesAreAlone' /\ TimeUpdatesAreAlone'
      BY <1>0, <2>1, <2>2 DEF SwitchUpdatesAreAlone, TimeUpdatesAreAlone
    <2>7. SwitchIsComing'
      BY <1>0, <2>1, <2>2, <2>3 DEF SwitchIsComing, SwitchUpdatesAreAlone, TimeUpdatesAreAlone
    <2>8. OffTimeIsComing'
      BY <1>0, <2>1, <2>2, OffTimeRowStays DEF OffTimeIsComing, OffTimeIsObserved, TimeIsKept
    <2> QED BY <2>4, <2>5, <2>6, <2>7, <2>8 DEF SettingsInv
  <1>b. OffTimeRow \in Cells /\ \A k \in U!Keys : U!AssembleUri(k) \in U!Owners
    BY <1>0, KeysOfSettings DEF OffTimeRow, U!GetStringValue, SettingsTyped, U!Owners, U!AssembleUri
  <1>c. U!Begun = HaveBegun(TimeKeys)
    BY <1>0, KeysOfSettings DEF U!Begun, HaveBegun, SettingsTyped
  <1>e. ASSUME UNCHANGED << chargingType, changes, active, currentUserId, store, observer, wakeupSource,
                            connectedAc, handler, toHandle, disturbed >>,
               HaveBegun({ "double" })' = HaveBegun({ "double" }),
               WillRead({ "double" }) => WillRead({ "double" })'
        PROVE  UserIsKnown' /\ ObserversFollowUser' /\ SwitchUpdatesAreAlone' /\ SwitchIsComing'
    BY <1>0, <1>e DEF UserIsKnown, ObserversFollowUser, OffTimeIsObserved, U!OffTimeKeys, U!AssembleUri,
       SwitchUpdatesAreAlone, SwitchIsComing
  <1>f. ASSUME NEW t \in updates, NEW u \in Updates, U!Goes(t, u), u.key = t.key, u.read # "no",
               t.key \in U!OffTimeKeys,
               UNCHANGED << chargingType, changes, active, currentUserId, store, observer, wakeupSource,
                            connectedAc, handler, toHandle, disturbed, displayOffTime, override, caller >>,
               beforeOverride' \in Cells
        PROVE  /\ SettingsTyped' /\ UserIsKnown' /\ ObserversFollowUser' /\ SwitchUpdatesAreAlone'
               /\ SwitchIsComing'
               /\ HaveBegun(TimeKeys)' = (HaveBegun(TimeKeys) \ {t}) \cup {u}
               /\ u.read = "system" => WillRead(TimeKeys)'
               /\ t.read \notin { "no", "system" } => (WillRead(TimeKeys) => WillRead(TimeKeys)')
    <2>1. t.key \in TimeKeys /\ t.key \notin { "double" }
      BY <1>f, KeysOfSettings
    <2>2. /\ HaveBegun({ "double" })' = HaveBegun({ "double" })
          /\ WillRead({ "double" }) => WillRead({ "double" })'
          /\ updates' \subseteq Updates
      BY <1>0, <1>f, <2>1, ThreadGoes
    <2>3. /\ HaveBegun(TimeKeys)' = (HaveBegun(TimeKeys) \ {t}) \cup {u}
          /\ u.read = "system" => WillRead(TimeKeys)'
          /\ t.read \notin { "no", "system" } => (WillRead(TimeKeys) => WillRead(TimeKeys)')
      BY <1>0, <1>f, <2>1, ThreadGoes
    <2>4. SettingsTyped'
      <3>1. U!OffTimeKeys' = U!OffTimeKeys
        BY <1>f DEF U!OffTimeKeys
      <3>2. \A x \in updates' : x \in updates \/ x = u
        BY <1>f DEF U!Goes
      <3> QED BY <1>0, <1>f, <2>2, <3>1, <3>2 DEF SettingsTyped
    <2> QED BY <1>e, <1>f, <2>2, <2>3, <2>4
  <1>g. ASSUME NEW t \in updates, updates' = updates \ {t}, t.key \in U!OffTimeKeys,
               UNCHANGED << chargingType, changes, active, currentUserId, store, observer, wakeupSource,
                            connectedAc, handler, toHandle, disturbed, override, caller >>,
               beforeOverride' \in Cells, displayOffTime' \in Cells, t.read \notin { "no", "system" }
        PROVE  /\ SettingsTyped' /\ UserIsKnown' /\ ObserversFollowUser' /\ SwitchUpdatesAreAlone'
               /\ SwitchIsComing'
               /\ HaveBegun(TimeKeys)' = HaveBegun(TimeKeys) \ {t} /\ t \in HaveBegun(TimeKeys)
               /\ WillRead(TimeKeys) => WillRead(TimeKeys)'
    <2>1. t.key \in TimeKeys /\ t.key \notin { "double" } /\ t \notin HaveBegun({ "double" })
      BY <1>g, KeysOfSettings DEF HaveBegun
    <2>2. /\ HaveBegun({ "double" })' = HaveBegun({ "double" })
          /\ WillRead({ "double" }) => WillRead({ "double" })'
          /\ HaveBegun(TimeKeys)' = HaveBegun(TimeKeys) \ {t}
          /\ WillRead(TimeKeys) => WillRead(TimeKeys)'
      BY <1>g, <2>1, ThreadEnds
    <2>3. t \in HaveBegun(TimeKeys)
      BY <1>g, <2>1 DEF HaveBegun
    <2>4. SettingsTyped'
      BY <1>0, <1>g DEF SettingsTyped, U!OffTimeKeys
    <2> QED BY <1>e, <1>g, <2>2, <2>3, <2>4
  <1>3. ASSUME NEW t \in updates, U!DisplayOffTimeUpdateFunc(t) PROVE SettingsInv'
    <2>1. /\ t.key \in U!OffTimeKeys /\ t.read = "no"
          /\ UNCHANGED << chargingType, changes, active, currentUserId, store, observer, wakeupSource,
                          displayOffTime, override, beforeOverride, connectedAc, handler, toHandle, caller,
                          disturbed >>
      BY <1>3 DEF U!DisplayOffTimeUpdateFunc, U!given
    <2>2. ~lost' => HaveBegun(TimeKeys) = {} /\ caller.at = "idle"
      BY <1>3, <1>c, Zenon DEF U!DisplayOffTimeUpdateFunc
    <2>3. PICK u \in Updates : U!Goes(t, u) /\ u.key = t.key /\ u.read = "system" /\ u.seen = displayOffTime
      <3>0. PICK x \in Cells : x = displayOffTime
        BY <1>0 DEF SettingsTyped
      <3>1. /\ [ t EXCEPT !.read = "system", !.seen = x ] \in Updates
            /\ [ t EXCEPT !.read = "system", !.seen = x ]
                 = [ key |-> t.key, read |-> "system", value |-> t.value, seen |-> x ]
        BY <1>0, NextThread
      <3> QED BY <1>3, <3>0, <3>1 DEF U!DisplayOffTimeUpdateFunc
    <2>4. beforeOverride' \in Cells
      BY <1>0, <2>1 DEF SettingsTyped
    <2>5. /\ SettingsTyped' /\ UserIsKnown' /\ ObserversFollowUser' /\ SwitchUpdatesAreAlone'
          /\ SwitchIsComing' /\ WillRead(TimeKeys)'
          /\ HaveBegun(TimeKeys)' = (HaveBegun(TimeKeys) \ {t}) \cup {u}
      BY <1>f, <2>1, <2>3, <2>4
    <2>6. TimeUpdatesAreAlone'
      BY <2>1, <2>2, <2>3, <2>5 DEF TimeUpdatesAreAlone
    <2>7. OffTimeIsComing'
      BY <2>5 DEF OffTimeIsComing
    <2> QED BY <2>5, <2>6, <2>7 DEF SettingsInv
  <1>4. ASSUME NEW t \in updates, U!GetSettingTime(t) PROVE SettingsInv'
    <2>1. /\ t.key \in U!OffTimeKeys /\ t.read = "system" /\ t.key \in TimeKeys
          /\ UNCHANGED << chargingType, changes, active, currentUserId, store, observer, wakeupSource,
                          displayOffTime, override, beforeOverride, connectedAc, handler, toHandle, caller,
                          disturbed >>
      BY <1>0, <1>4, KeysOfSettings DEF U!GetSettingTime, U!given, SettingsTyped
    <2>2. t \in HaveBegun(TimeKeys)
      BY <2>1 DEF HaveBegun
    <2>3. PICK u \in Updates : /\ U!Goes(t, u) /\ u.key = t.key /\ u.read = "value" /\ u.seen = t.seen
                               /\ ~lost' => /\ ~lost
                                            /\ OffTimeRow \notin { U!Missing, U!TooShort } => u.value = OffTimeRow
      <3>0. t.seen \in Cells
        BY <1>a
      <3>1. PICK v \in Cells : v = U!GetSettingDisplayOffTime(OffTimeRow, t.seen)
        BY <1>b, <3>0 DEF U!GetSettingDisplayOffTime
      <3>2. PICK w \in Cells : w = t.seen
        BY <3>0
      <3>3. \A c \in Cells : /\ [ t EXCEPT !.read = "value", !.value = c ] \in Updates
                             /\ [ t EXCEPT !.read = "value", !.value = c ]
                                  = [ key |-> t.key, read |-> "value", value |-> c, seen |-> t.seen ]
        BY <1>0, <3>0, NextThread
      <3>4. CASE U!Goes(t, [ t EXCEPT !.read = "value", !.value = v ]) /\ lost' = lost
        <4>1. OffTimeRow \notin { U!Missing, U!TooShort } => v = OffTimeRow
          BY <3>1 DEF U!GetSettingDisplayOffTime
        <4>2. PICK u : u = [ t EXCEPT !.read = "value", !.value = v ]
          OBVIOUS
        <4>3. u \in Updates /\ u.key = t.key /\ u.read = "value" /\ u.seen = t.seen /\ u.value = v
          BY <3>3, <4>2
        <4> QED BY <3>4, <4>1, <4>2, <4>3
      <3>5. CASE U!Goes(t, [ t EXCEPT !.read = "value", !.value = w ]) /\ lost' = TRUE
        <4>2. PICK u : u = [ t EXCEPT !.read = "value", !.value = w ]
          OBVIOUS
        <4>3. u \in Updates /\ u.key = t.key /\ u.read = "value" /\ u.seen = t.seen
          BY <3>3, <4>2
        <4> QED BY <3>5, <4>2, <4>3
      <3> QED BY <1>4, <3>1, <3>2, <3>4, <3>5 DEF U!GetSettingTime, OffTimeRow
    <2>4. beforeOverride' \in Cells
      BY <1>0, <2>1 DEF SettingsTyped
    <2>5. /\ SettingsTyped' /\ UserIsKnown' /\ ObserversFollowUser' /\ SwitchUpdatesAreAlone'
          /\ SwitchIsComing'
          /\ HaveBegun(TimeKeys)' = (HaveBegun(TimeKeys) \ {t}) \cup {u}
      BY <1>f, <2>1, <2>3, <2>4
    <2>6. ~lost => HaveBegun(TimeKeys) = {t}
      BY <1>0, <2>2 DEF TimeUpdatesAreAlone
    <2>7. TimeUpdatesAreAlone'
      BY <1>0, <2>1, <2>2, <2>3, <2>5, <2>6 DEF TimeUpdatesAreAlone
    <2>8. OffTimeIsComing'
      BY <2>1, <2>3, <2>5, <2>6, OffTimeRowStays DEF OffTimeIsComing
    <2> QED BY <2>5, <2>7, <2>8 DEF SettingsInv
  <1>5. ASSUME NEW t \in updates, U!CheckOverride(t) PROVE SettingsInv'
    <2>1. /\ t.key \in U!OffTimeKeys /\ t.read = "value" /\ t.key \in TimeKeys
          /\ UNCHANGED << chargingType, changes, active, currentUserId, store, observer, wakeupSource,
                          displayOffTime, override, beforeOverride, connectedAc, handler, toHandle, caller,
                          disturbed >>
      BY <1>5, KeysOfSettings DEF U!CheckOverride, U!given
    <2>2. t \in HaveBegun(TimeKeys) /\ (~lost => HaveBegun(TimeKeys) = {t})
      BY <1>0, <2>1 DEF HaveBegun, TimeUpdatesAreAlone
    <2>3. beforeOverride' \in Cells /\ displayOffTime' \in Cells
      BY <1>0, <2>1 DEF SettingsTyped
    <2>4. ASSUME NEW u \in Updates, U!Goes(t, u), u.key = t.key, u.read \in { "keep", "before" },
                 u.value = t.value, lost' = lost, u.read = "keep" => override
          PROVE  SettingsInv'
      <3>1. /\ SettingsTyped' /\ UserIsKnown' /\ ObserversFollowUser' /\ SwitchUpdatesAreAlone'
            /\ SwitchIsComing'
            /\ HaveBegun(TimeKeys)' = (HaveBegun(TimeKeys) \ {t}) \cup {u}
            /\ WillRead(TimeKeys) => WillRead(TimeKeys)'
        BY <1>f, <2>1, <2>3, <2>4
      <3>2. TimeUpdatesAreAlone'
        BY <1>0, <2>1, <2>2, <2>4, <3>1 DEF TimeUpdatesAreAlone
      <3>3. OffTimeIsComing'
        BY <1>0, <2>1, <2>2, <2>4, <3>1, OffTimeRowStays DEF OffTimeIsComing, OffTimeIsObserved
      <3> QED BY <3>1, <3>2, <3>3 DEF SettingsInv
    <2>5. \A r \in { "keep", "before" } :
             /\ [ t EXCEPT !.read = r, !.seen = U!Missing ] \in Updates
             /\ [ t EXCEPT !.read = r, !.seen = U!Missing ]
                  = [ key |-> t.key, read |-> r, value |-> t.value, seen |-> U!Missing ]
      <3>0. PICK x \in Cells : x = U!Missing
        BY DEF Cells
      <3>1. /\ [ t EXCEPT !.read = "keep", !.seen = x ] \in Updates
            /\ [ t EXCEPT !.read = "keep", !.seen = x ]
                 = [ key |-> t.key, read |-> "keep", value |-> t.value, seen |-> x ]
        BY <1>0, NextThread
      <3>2. /\ [ t EXCEPT !.read = "before", !.seen = x ] \in Updates
            /\ [ t EXCEPT !.read = "before", !.seen = x ]
                 = [ key |-> t.key, read |-> "before", value |-> t.value, seen |-> x ]
        BY <1>0, NextThread
      <3> QED BY <3>0, <3>1, <3>2
    <2>6. CASE chargingType /\ override
      BY <1>5, <2>4, <2>5, <2>6 DEF U!CheckOverride
    <2>7. CASE ~(chargingType /\ override) /\ t.value # t.seen
      BY <1>5, <2>4, <2>5, <2>7 DEF U!CheckOverride
    <2>8. CASE ~(chargingType /\ override) /\ t.value = t.seen
      <3>1. updates' = updates \ {t}
        BY <1>5, <2>8 DEF U!CheckOverride
      <3>2. ~lost' => ~lost /\ ~override
        BY <1>5, <2>8, Zenon DEF U!CheckOverride
      <3>3. /\ SettingsTyped' /\ UserIsKnown' /\ ObserversFollowUser' /\ SwitchUpdatesAreAlone'
            /\ SwitchIsComing'
            /\ HaveBegun(TimeKeys)' = HaveBegun(TimeKeys) \ {t}
            /\ WillRead(TimeKeys) => WillRead(TimeKeys)'
        BY <1>g, <2>1, <2>3, <3>1
      <3>4. TimeUpdatesAreAlone'
        BY <2>2, <3>2, <3>3 DEF TimeUpdatesAreAlone
      <3>5. ~lost => caller.at = "idle" /\ t.seen = displayOffTime
        BY <1>0, <2>1, <2>2 DEF TimeUpdatesAreAlone
      <3>6. OffTimeIsComing'
        <4> SUFFICES ASSUME OffTimeIsComing!1' PROVE OffTimeIsComing!2'
          BY DEF OffTimeIsComing
        <4>1. t.value = OffTimeRow /\ OffTimeRow' = OffTimeRow /\ ~lost /\ ~override
          BY <1>0, <2>1, <2>2, <3>2, <3>3, OffTimeRowStays DEF OffTimeIsComing, OffTimeIsObserved
        <4> QED BY <2>1, <2>2, <2>8, <3>3, <3>5, <4>1 DEF TimeIsKept
      <3> QED BY <3>3, <3>4, <3>6 DEF SettingsInv
    <2> QED BY <2>6, <2>7, <2>8
  <1>6. ASSUME NEW t \in updates, U!KeepBeforeOverride(t) \/ U!ApplySetting(t) PROVE SettingsInv'
    <2>1. /\ t.read \in { "keep", "set" } /\ t.key \in U!OffTimeKeys /\ t.key \in TimeKeys /\ updates' = updates \ {t}
          /\ t.read = "keep" => beforeOverride' = t.value /\ displayOffTime' = displayOffTime
          /\ t.read = "set" => displayOffTime' = t.value /\ beforeOverride' = beforeOverride
          /\ UNCHANGED << chargingType, changes, active, currentUserId, store, observer, wakeupSource,
                          override, connectedAc, handler, toHandle, caller, disturbed, lost >>
      BY <1>0, <1>6, KeysOfSettings DEF U!KeepBeforeOverride, U!ApplySetting, U!given, SettingsTyped
    <2>2. t \in HaveBegun(TimeKeys) /\ (~lost => HaveBegun(TimeKeys) = {t})
      BY <1>0, <2>1 DEF HaveBegun, TimeUpdatesAreAlone
    <2>3. beforeOverride' \in Cells /\ displayOffTime' \in Cells
      BY <1>0, <1>a, <2>1 DEF SettingsTyped
    <2>4. /\ SettingsTyped' /\ UserIsKnown' /\ ObserversFollowUser' /\ SwitchUpdatesAreAlone'
          /\ SwitchIsComing'
          /\ HaveBegun(TimeKeys)' = HaveBegun(TimeKeys) \ {t}
          /\ WillRead(TimeKeys) => WillRead(TimeKeys)'
      BY <1>g, <2>1, <2>3
    <2>5. TimeUpdatesAreAlone'
      BY <2>1, <2>2, <2>4 DEF TimeUpdatesAreAlone
    <2>6. ~lost => /\ caller.at = "idle" /\ (t.read = "keep" => override)
                   /\ t.read = "set" => beforeOverride = t.value
      BY <1>0, <2>1, <2>2 DEF TimeUpdatesAreAlone
    <2>7. OffTimeIsComing'
      <3> SUFFICES ASSUME OffTimeIsComing!1' PROVE OffTimeIsComing!2'
        BY DEF OffTimeIsComing
      <3>1. t.value = OffTimeRow /\ OffTimeRow' = OffTimeRow /\ ~lost
        BY <1>0, <2>1, <2>2, <2>4, OffTimeRowStays DEF OffTimeIsComing, OffTimeIsObserved
      <3> QED BY <2>1, <2>2, <2>4, <2>6, <3>1 DEF TimeIsKept
    <2> QED BY <2>4, <2>5, <2>7 DEF SettingsInv
  <1>7. ASSUME NEW t \in updates, U!SetBeforeOverride(t) PROVE SettingsInv'
    <2>1. /\ t.key \in U!OffTimeKeys /\ t.read = "before" /\ t.key \in TimeKeys /\ beforeOverride' = t.value
          /\ UNCHANGED << chargingType, changes, active, currentUserId, store, observer, wakeupSource,
                          displayOffTime, override, connectedAc, handler, toHandle, caller, disturbed, lost >>
      BY <1>0, <1>7, KeysOfSettings DEF U!SetBeforeOverride, U!given, SettingsTyped
    <2>2. t \in HaveBegun(TimeKeys) /\ (~lost => HaveBegun(TimeKeys) = {t})
      BY <1>0, <2>1 DEF HaveBegun, TimeUpdatesAreAlone
    <2>3. PICK u \in Updates : U!Goes(t, u) /\ u.key = t.key /\ u.read = "set" /\ u.value = t.value
      <3>1. t.value \in Cells
        BY <1>a
      <3>2. /\ [ t EXCEPT !.read = "set" ] \in Updates
            /\ [ t EXCEPT !.read = "set" ]
                 = [ key |-> t.key, read |-> "set", value |-> t.value, seen |-> t.seen ]
        BY <1>0, <3>1, NextThread
      <3> QED BY <1>7, <3>2 DEF U!SetBeforeOverride
    <2>4. beforeOverride' \in Cells
      BY <1>a, <2>1
    <2>5. /\ SettingsTyped' /\ UserIsKnown' /\ ObserversFollowUser' /\ SwitchUpdatesAreAlone'
          /\ SwitchIsComing'
          /\ HaveBegun(TimeKeys)' = (HaveBegun(TimeKeys) \ {t}) \cup {u}
          /\ WillRead(TimeKeys) => WillRead(TimeKeys)'
      BY <1>f, <2>1, <2>3, <2>4
    <2>6. TimeUpdatesAreAlone'
      BY <1>0, <2>1, <2>2, <2>3, <2>5 DEF TimeUpdatesAreAlone
    <2>7. OffTimeIsComing'
      BY <1>0, <2>1, <2>2, <2>3, <2>5, OffTimeRowStays DEF OffTimeIsComing, OffTimeIsObserved
    <2> QED BY <2>5, <2>6, <2>7 DEF SettingsInv
  <1>d. ASSUME UNCHANGED << chargingType, changes, updates, currentUserId, store, observer, wakeupSource,
                            connectedAc, handler >>,
               caller' = caller, active' \in Users, displayOffTime' \in Cells, beforeOverride' \in Cells,
               ~disturbed' => ~disturbed
        PROVE  SettingsTyped' /\ ObserversFollowUser' /\ SwitchIsComing'
    BY <1>0, <1>d DEF SettingsTyped, ObserversFollowUser, SwitchIsComing, OffTimeIsObserved,
                      U!OffTimeKeys, U!AssembleUri, WillRead, HaveBegun
  <1>h. ASSUME UNCHANGED << chargingType, changes, updates, active, currentUserId, store, observer, wakeupSource,
                            connectedAc, handler, toHandle, disturbed >>,
               displayOffTime' \in Cells, beforeOverride' \in Cells,
               caller' \in [ at : { "idle", "flag", "save", "override", "restore", "unset", "write" }, saved : Cells ],
               ~lost' => ~lost /\ HaveBegun(TimeKeys) = {},
               \/ ~(~disturbed /\ ~lost /\ OffTimeIsObserved /\ ~WillRead(TimeKeys)
                    /\ OffTimeRow \notin { U!Missing, U!TooShort })
               \/ lost' \/ ~TimeIsKept \/ TimeIsKept'
        PROVE  SettingsInv'
    <2>1. /\ \A ks : HaveBegun(ks)' = HaveBegun(ks) /\ WillRead(ks)' = WillRead(ks)
          /\ OffTimeRow' = OffTimeRow
      BY <1>h, OffTimeRowStays DEF HaveBegun, WillRead
    <2>2. UserIsKnown' /\ ObserversFollowUser' /\ SwitchUpdatesAreAlone' /\ SwitchIsComing'
      BY <1>e, <1>h, <2>1
    <2>3. SettingsTyped'
      BY <1>0, <1>h DEF SettingsTyped, U!OffTimeKeys
    <2>4. TimeUpdatesAreAlone'
      BY <1>h, <2>1 DEF TimeUpdatesAreAlone
    <2>5. OffTimeIsComing'
      BY <1>0, <1>h, <2>1 DEF OffTimeIsComing, OffTimeIsObserved
    <2> QED BY <2>2, <2>3, <2>4, <2>5 DEF SettingsInv
  <1>i. ~lost /\ caller.at # "idle" => HaveBegun(TimeKeys) = {}
    BY <1>0 DEF TimeUpdatesAreAlone
  <1>j. U!Missing \in Cells /\ displayOffTime \in Cells /\ beforeOverride \in Cells /\ caller.saved \in Cells
    BY <1>0 DEF SettingsTyped, Cells
  <1>19. ASSUME NEW a \in { "flag", "override", "restore", "write" }, NEW saved \in Cells, U!Calls(a, saved),
                displayOffTime' \in Cells, a # "write" => displayOffTime' = displayOffTime,
                a \in { "flag" } => ~override /\ saved = displayOffTime,
                a \in { "override", "restore" } => override,
                a = "restore" => saved = beforeOverride
         PROVE  SettingsInv'
    <2>1. /\ UNCHANGED << chargingType, changes, updates, active, currentUserId, store, observer, wakeupSource,
                          connectedAc, handler, toHandle, disturbed, override, beforeOverride >>
          /\ caller.at = "idle" /\ caller' = [ at |-> a, saved |-> saved ]
      BY <1>19 DEF U!Calls, U!given
    <2>2. ~lost' => ~lost /\ HaveBegun(TimeKeys) = {}
      BY <1>19, <1>c, Zenon DEF U!Calls
    <2>3. beforeOverride' \in Cells
         /\ caller' \in [ at : { "idle", "flag", "save", "override", "restore", "unset", "write" }, saved : Cells ]
      BY <1>j, <2>1
    <2>4. OffTimeRow' = OffTimeRow /\ caller'.at = a /\ caller'.saved = saved
      BY <2>1, OffTimeRowStays
    <2>5. TimeIsKept => TimeIsKept'
      BY <1>19, <2>1, <2>4 DEF TimeIsKept
    <2> QED BY <1>19, <1>h, <2>1, <2>2, <2>3, <2>5
  <1>20. ASSUME U!OverrideScreenOffTime \/ U!RestoreScreenOffTime \/ \E time \in OffTimes : U!SetDisplayOffTime(time)
         PROVE  SettingsInv'
    <2>1. CASE U!OverrideScreenOffTime /\ override
      BY <1>19, <1>j, <2>1 DEF U!OverrideScreenOffTime
    <2>2. CASE U!OverrideScreenOffTime /\ ~override
      BY <1>19, <1>j, <2>2 DEF U!OverrideScreenOffTime
    <2>3. CASE U!RestoreScreenOffTime
      BY <1>19, <1>j, <2>3 DEF U!RestoreScreenOffTime
    <2>4. ASSUME NEW time \in OffTimes, U!SetDisplayOffTime(time) PROVE SettingsInv'
      <3>1. displayOffTime' \in Cells
        BY <2>4 DEF U!SetDisplayOffTime, Cells
      <3> QED BY <1>19, <1>j, <2>4, <3>1 DEF U!SetDisplayOffTime
    <2> QED BY <1>20, <2>1, <2>2, <2>3, <2>4
  <1>21. ASSUME U!OverrideScreenOffTimeInner \/ U!RestoreScreenOffTimeInner PROVE SettingsInv'
    <2>1. /\ UNCHANGED << chargingType, changes, updates, active, currentUserId, store, observer, wakeupSource,
                          connectedAc, handler, toHandle, disturbed, lost >>
          /\ caller.at \in { "flag", "save", "override", "restore", "unset" }
      BY <1>21 DEF U!OverrideScreenOffTimeInner, U!RestoreScreenOffTimeInner, U!given
    <2>2. ~lost' => ~lost /\ HaveBegun(TimeKeys) = {}
      BY <1>i, <2>1
    <2>3. OffTimeRow' = OffTimeRow
      BY <2>1, OffTimeRowStays
    <2>4. /\ displayOffTime' \in Cells /\ beforeOverride' \in Cells
          /\ caller' \in [ at : { "idle", "flag", "save", "override", "restore", "unset", "write" }, saved : Cells ]
          /\ TimeIsKept => TimeIsKept'
      <3>1. CASE /\ caller.at = "flag" /\ caller' = [ caller EXCEPT !.at = "save" ]
                 /\ override' = TRUE /\ UNCHANGED << beforeOverride, displayOffTime >>
        <4>1. caller' = [ at |-> "save", saved |-> caller.saved ]
          BY <1>0, <3>1 DEF SettingsTyped
        <4> QED BY <1>j, <2>3, <3>1, <4>1 DEF TimeIsKept
      <3>2. CASE /\ caller.at = "save" /\ caller' = [ at |-> "override", saved |-> U!Missing ]
                 /\ beforeOverride' = caller.saved /\ UNCHANGED << override, displayOffTime >>
        BY <1>j, <2>3, <3>2 DEF TimeIsKept
      <3>3. CASE /\ caller.at = "override" /\ caller' = U!NoCall
                 /\ displayOffTime' \in OffTimes /\ UNCHANGED << override, beforeOverride >>
        <4>1. displayOffTime' \in Cells
          BY <3>3 DEF Cells
        <4> QED BY <1>j, <2>3, <3>3, <4>1 DEF TimeIsKept, U!NoCall
      <3>4. CASE /\ caller.at = "restore" /\ caller' = [ at |-> "unset", saved |-> U!Missing ]
                 /\ displayOffTime' = caller.saved /\ UNCHANGED << override, beforeOverride >>
        BY <1>j, <2>3, <3>4 DEF TimeIsKept
      <3>5. CASE /\ caller.at = "unset" /\ caller' = U!NoCall
                 /\ override' = FALSE /\ UNCHANGED << displayOffTime, beforeOverride >>
        BY <1>j, <2>3, <3>5 DEF TimeIsKept, U!NoCall
      <3> QED BY <1>21, <3>1, <3>2, <3>3, <3>4, <3>5
                 DEF U!OverrideScreenOffTimeInner, U!RestoreScreenOffTimeInner
    <2> QED BY <1>h, <2>1, <2>2, <2>4
  <1>22. ASSUME U!SetSettingDisplayOffTime PROVE SettingsInv'
    <2> DEFINE new == UNION { U!Notified(k, U!AssembleUri(k)) : k \in U!OffTimeKeys }
    <2>1. /\ UNCHANGED << chargingType, changes, active, currentUserId, observer, wakeupSource, displayOffTime,
                          override, beforeOverride, connectedAc, handler, toHandle, disturbed, lost >>
          /\ caller.at = "write" /\ caller' = U!NoCall /\ updates' = updates \cup new
          /\ store' = [ k \in U!Keys |-> IF k \in U!OffTimeKeys
                                         THEN [ store[k] EXCEPT ![U!AssembleUri(k)] = displayOffTime ]
                                         ELSE store[k] ]
      BY <1>22 DEF U!SetSettingDisplayOffTime, U!PutStringValue, U!given
    <2>3. /\ \A t \in new : \E k \in U!OffTimeKeys : t = U!Thread(k)
          /\ U!AssembleUri(U!OffTimeKey) \in observer[U!OffTimeKey] => U!Thread(U!OffTimeKey) \in new
      BY KeysOfSettings DEF U!Notified
    <2> HIDE DEF new
    <2>4. /\ updates' \subseteq Updates /\ HaveBegun({ "double" })' = HaveBegun({ "double" })
          /\ WillRead({ "double" }) => WillRead({ "double" })'
          /\ HaveBegun(TimeKeys)' = HaveBegun(TimeKeys)
          /\ U!Thread(U!OffTimeKey) \in new => WillRead(TimeKeys)'
      <3>1. (\A t \in new : \E k \in U!Keys : t = U!Thread(k)) /\ U!OffTimeKey \in TimeKeys
        BY <2>3, KeysOfSettings
      <3>2. /\ HaveBegun(TimeKeys)' = HaveBegun(TimeKeys)
            /\ U!Thread(U!OffTimeKey) \in new => WillRead(TimeKeys)'
        BY <1>0, <2>1, <3>1, ThreadsStart
      <3>3. /\ updates' \subseteq Updates /\ HaveBegun({ "double" })' = HaveBegun({ "double" })
            /\ WillRead({ "double" }) => WillRead({ "double" })'
        BY <1>0, <2>1, <3>1, ThreadsStart
      <3> QED BY <3>2, <3>3
    <2>5. store'["double"] = store["double"]
      BY <2>1, KeysOfSettings
    <2>6. SettingsTyped'
      <3>1. store' \in [ U!Keys -> [ U!Owners -> Cells ] ]
        BY <1>0, <1>b, <2>1 DEF SettingsTyped
      <3>2. U!OffTimeKeys' = U!OffTimeKeys
        BY <2>1 DEF U!OffTimeKeys
      <3>3. \A t \in updates' : t \in updates \/ (t.key \in U!OffTimeKeys /\ t.read = "no")
        BY <2>1, <2>3 DEF U!Thread
      <3>4. caller' \in [ at : { "idle", "flag", "save", "override", "restore", "unset", "write" }, saved : Cells ]
        BY <1>j, <2>1 DEF U!NoCall
      <3> QED BY <1>0, <2>1, <2>4, <3>1, <3>2, <3>3, <3>4 DEF SettingsTyped
    <2>7. UserIsKnown' /\ ObserversFollowUser' /\ SwitchUpdatesAreAlone' /\ SwitchIsComing'
      BY <1>0, <2>1, <2>4, <2>5 DEF UserIsKnown, ObserversFollowUser, OffTimeIsObserved, U!OffTimeKeys,
         U!AssembleUri, SwitchUpdatesAreAlone, SwitchIsComing
    <2>8. TimeUpdatesAreAlone'
      BY <1>i, <2>1, <2>4 DEF TimeUpdatesAreAlone
    <2>9. ~disturbed /\ OffTimeIsObserved => WillRead(TimeKeys)'
      BY <1>0, <2>3, <2>4, KeysOfSettings DEF ObserversFollowUser
    <2>10. OffTimeIsComing'
      BY <2>1, <2>9 DEF OffTimeIsComing, OffTimeIsObserved
    <2> QED BY <2>6, <2>7, <2>8, <2>10 DEF SettingsInv
  <1>8. ASSUME U!BootCompleted PROVE SettingsInv'
    <2>1. /\ UNCHANGED << chargingType, changes, active, observer, updates, wakeupSource, displayOffTime,
                          override, beforeOverride, caller, lost, connectedAc, toHandle >>
          /\ handler = "boot" /\ handler' = "display" /\ currentUserId' \in Users
          /\ store' = U!UpdateSettingInvalidDisplayOffTime(store, currentUserId')
      BY <1>0, <1>8 DEF U!BootCompleted, U!given, U!display, SettingsTyped
    <2>2. ~disturbed' => ~disturbed
      BY <1>8, Zenon DEF U!BootCompleted
    <2>3. store' \in [ U!Keys -> [ U!Owners -> Cells ] ]
      BY <1>0, <2>1 DEF SettingsTyped, U!UpdateSettingInvalidDisplayOffTime, Cells, U!Owners
    <2>4. SettingsTyped'
      BY <1>0, <2>1, <2>3 DEF SettingsTyped, U!OffTimeKeys
    <2>5. UserIsKnown' /\ ObserversFollowUser' /\ SwitchIsComing' /\ OffTimeIsComing'
      BY <1>0, <2>1 DEF UserIsKnown, ObserversFollowUser, OffTimeIsObserved, U!OffTimeKeys,
         SwitchIsComing,
                        OffTimeIsComing
    <2>6. SwitchUpdatesAreAlone' /\ TimeUpdatesAreAlone'
      BY <1>0, <2>1, <2>2 DEF SwitchUpdatesAreAlone, TimeUpdatesAreAlone, HaveBegun
    <2> QED BY <2>4, <2>5, <2>6 DEF SettingsInv
  <1>9. ASSUME U!RegisterDisplayOffTimeObserver PROVE SettingsInv'
    <2>1. /\ UNCHANGED << chargingType, changes, active, currentUserId, store, wakeupSource, displayOffTime,
                          override, beforeOverride, caller, lost, connectedAc, toHandle >>
          /\ handler = "display" /\ handler' = "subscribe" /\ U!RegisterSettingKeyObserver(U!OffTimeKeys)
      BY <1>9 DEF U!RegisterDisplayOffTimeObserver, U!given, U!display
    <2>2. \A k \in U!OffTimeKeys : observer[k] = {}
      BY <1>0, <2>1 DEF ObserversFollowUser, OffTimeIsObserved
    <2>3. CASE /\ disturbed' = disturbed
               /\ U!RegisterObserver({ k \in U!OffTimeKeys : observer[k] = {} })
      <3> DEFINE new == { U!Thread(k) : k \in U!OffTimeKeys }
      <3>1. /\ observer' = [ k \in U!Keys |-> IF k \in U!OffTimeKeys THEN { U!AssembleUri(k) } ELSE observer[k] ]
            /\ updates' = updates \cup new
        <4>1. { k \in U!OffTimeKeys : observer[k] = {} } = U!OffTimeKeys
          BY <2>2
        <4> QED BY <2>3, <4>1 DEF U!RegisterObserver
      <3>2. (\A t \in new : \E k \in U!OffTimeKeys : t = U!Thread(k)) /\ U!Thread(U!OffTimeKey) \in new
        BY KeysOfSettings
      <3> HIDE DEF new
      <3>3. /\ updates' \subseteq Updates
            /\ HaveBegun(TimeKeys)' = HaveBegun(TimeKeys) /\ HaveBegun({ "double" })' = HaveBegun({ "double" })
            /\ WillRead(TimeKeys)'
        <4>1. (\A t \in new : \E k \in U!Keys : t = U!Thread(k)) /\ U!OffTimeKey \in TimeKeys
          BY <3>2, KeysOfSettings
        <4>2. updates' \subseteq Updates /\ HaveBegun({ "double" })' = HaveBegun({ "double" })
          BY <1>0, <3>1, <4>1, ThreadsStart
        <4>3. HaveBegun(TimeKeys)' = HaveBegun(TimeKeys) /\ WillRead(TimeKeys)'
          BY <1>0, <3>1, <3>2, <4>1, ThreadsStart
        <4> QED BY <4>2, <4>3
      <3>4. SettingsTyped'
        <4>1. observer' \in [ U!Keys -> SUBSET U!Owners ]
          BY <1>0, <1>b, <3>1 DEF SettingsTyped
        <4>2. \A t \in updates' : t \in updates \/ (t.read = "no" /\ t.key \in { "double" } \cup U!OffTimeKeys)
          BY <1>0, <3>1, <3>2 DEF SettingsTyped, U!Thread
        <4> QED BY <1>0, <2>1, <3>3, <4>1, <4>2 DEF SettingsTyped, U!OffTimeKeys
      <3>5. ObserversFollowUser'
        <4>1. observer'["double"] = {} /\ \A k \in U!OffTimeKeys : observer'[k] = { U!AssembleUri(k) }
          BY <1>0, <2>1, <3>1, KeysOfSettings DEF ObserversFollowUser
        <4> QED BY <2>1, <4>1 DEF ObserversFollowUser, OffTimeIsObserved, U!OffTimeKeys,
                   U!AssembleUri
      <3>6. UserIsKnown' /\ SwitchUpdatesAreAlone' /\ TimeUpdatesAreAlone' /\ SwitchIsComing' /\ OffTimeIsComing'
        BY <1>0, <2>1, <2>3, <3>3 DEF UserIsKnown, SwitchUpdatesAreAlone, TimeUpdatesAreAlone, SwitchIsComing, OffTimeIsComing
      <3> QED BY <3>4, <3>5, <3>6 DEF SettingsInv
    <2>4. CASE disturbed' = TRUE /\ UNCHANGED << observer, updates >>
      <3>1. SettingsTyped'
        BY <1>0, <2>1, <2>4 DEF SettingsTyped, U!OffTimeKeys
      <3>2. ObserversFollowUser' /\ UserIsKnown' /\ SwitchUpdatesAreAlone' /\ TimeUpdatesAreAlone' /\ SwitchIsComing' /\ OffTimeIsComing'
        BY <1>0, <2>1, <2>4 DEF ObserversFollowUser, OffTimeIsObserved, UserIsKnown, HaveBegun,
           SwitchUpdatesAreAlone, TimeUpdatesAreAlone, SwitchIsComing,
                                OffTimeIsComing
      <3> QED BY <3>1, <3>2 DEF SettingsInv
    <2> QED BY <2>1, <2>3, <2>4 DEF U!RegisterSettingKeyObserver
  <1>10. ASSUME U!SubscribeCommonEvent PROVE SettingsInv'
    <2>1. /\ UNCHANGED << chargingType, changes, active, currentUserId, store, observer, updates, wakeupSource,
                          displayOffTime, override, beforeOverride, caller, lost, connectedAc, toHandle >>
          /\ handler = "subscribe" /\ handler' = "keys"
      BY <1>10 DEF U!SubscribeCommonEvent, U!given, U!display
    <2>2. ~disturbed' => ~disturbed /\ currentUserId = active
      BY <1>10, Zenon DEF U!SubscribeCommonEvent
    <2>3. SettingsTyped'
      BY <1>0, <2>1 DEF SettingsTyped, U!OffTimeKeys
    <2>4. UserIsKnown' /\ ObserversFollowUser' /\ SwitchIsComing' /\ SwitchUpdatesAreAlone' /\ TimeUpdatesAreAlone'
      BY <1>0, <2>1, <2>2 DEF UserIsKnown, ObserversFollowUser, OffTimeIsObserved, U!OffTimeKeys,
         U!AssembleUri,
                              SwitchIsComing, SwitchUpdatesAreAlone, TimeUpdatesAreAlone, HaveBegun
    <2>5. OffTimeIsComing'
      BY <1>0, <2>1, <2>2, OffTimeRowStays DEF OffTimeIsComing, OffTimeIsObserved, TimeIsKept, HaveBegun,
         WillRead
    <2> QED BY <2>3, <2>4, <2>5 DEF SettingsInv
  <1>11. ASSUME U!PowerExternalAbilityInit PROVE SettingsInv'
    <2>1. /\ UNCHANGED << chargingType, changes, active, currentUserId, store, wakeupSource, displayOffTime,
                          override, beforeOverride, caller, lost, connectedAc, toHandle >>
          /\ handler = "keys" /\ handler' = "idle" /\ U!RegisterSettingKeyObserver({ "double" })
      BY <1>11, KeysOfSettings DEF U!PowerExternalAbilityInit, U!given, U!display
    <2>2. observer["double"] = {} /\ U!AssembleUri("double") = currentUserId
      BY <1>0, <2>1 DEF ObserversFollowUser, U!AssembleUri, U!IsNeedMultiUser
    <2>3. CASE /\ disturbed' = disturbed
               /\ U!RegisterObserver({ k \in { "double" } : observer[k] = {} })
      <3>1. /\ observer' = [ k \in U!Keys |-> IF k \in { "double" } THEN { U!AssembleUri(k) } ELSE observer[k] ]
            /\ updates' = updates \cup { U!Thread("double") }
        <4>1. { k \in { "double" } : observer[k] = {} } = { "double" }
          BY <2>2
        <4>2. { U!Thread(k) : k \in { "double" } } = { U!Thread("double") }
          OBVIOUS
        <4> QED BY <2>3, <4>1, <4>2 DEF U!RegisterObserver
      <3>2. /\ updates' \subseteq Updates
            /\ HaveBegun(TimeKeys)' = HaveBegun(TimeKeys) /\ HaveBegun({ "double" })' = HaveBegun({ "double" })
            /\ WillRead({ "double" })' /\ (WillRead(TimeKeys) => WillRead(TimeKeys)')
        <4>0. PICK new : new = { U!Thread("double") }
          OBVIOUS
        <4>1. U!Thread("double") \in new /\ \A t \in new : \E k \in U!Keys : t = U!Thread(k)
          BY <4>0, KeysOfSettings
        <4>2. /\ updates' \subseteq Updates /\ HaveBegun(TimeKeys)' = HaveBegun(TimeKeys)
              /\ WillRead(TimeKeys) => WillRead(TimeKeys)'
          BY <1>0, <3>1, <4>0, <4>1, ThreadsStart
        <4>3. HaveBegun({ "double" })' = HaveBegun({ "double" }) /\ WillRead({ "double" })'
          BY <1>0, <3>1, <4>0, <4>1, ThreadsStart
        <4> QED BY <4>2, <4>3
      <3>3. SettingsTyped'
        <4>1. observer' \in [ U!Keys -> SUBSET U!Owners ]
          BY <1>0, <1>b, <3>1 DEF SettingsTyped
        <4>2. \A t \in updates' : t \in updates \/ (t.read = "no" /\ t.key \in { "double" } \cup U!OffTimeKeys)
          BY <1>0, <3>1 DEF SettingsTyped, U!Thread
        <4> QED BY <1>0, <2>1, <3>2, <4>1, <4>2 DEF SettingsTyped, U!OffTimeKeys
      <3>4. ObserversFollowUser'
        <4>1. observer'["double"] = { currentUserId } /\ \A k \in U!OffTimeKeys : observer'[k] = observer[k]
          BY <2>2, <3>1, KeysOfSettings
        <4> QED BY <1>0, <2>1, <2>3, <4>1 DEF ObserversFollowUser, OffTimeIsObserved, U!OffTimeKeys,
                   U!AssembleUri
      <3>5. UserIsKnown' /\ SwitchUpdatesAreAlone' /\ TimeUpdatesAreAlone' /\ SwitchIsComing'
        BY <1>0, <2>1, <2>3, <3>2 DEF UserIsKnown, SwitchUpdatesAreAlone, TimeUpdatesAreAlone, SwitchIsComing
      <3>6. OffTimeIsComing'
        BY <1>0, <2>1, <2>3, <3>2, OffTimeRowStays DEF OffTimeIsComing, OffTimeIsObserved, TimeIsKept
      <3> QED BY <3>3, <3>4, <3>5, <3>6 DEF SettingsInv
    <2>4. CASE disturbed' = TRUE /\ UNCHANGED << observer, updates >> /\ { k \in { "double" } : observer[k] = {} } # {}
      <3>1. SettingsTyped'
        BY <1>0, <2>1, <2>4 DEF SettingsTyped, U!OffTimeKeys
      <3>2. ObserversFollowUser' /\ UserIsKnown' /\ SwitchUpdatesAreAlone' /\ TimeUpdatesAreAlone' /\ SwitchIsComing' /\ OffTimeIsComing'
        BY <1>0, <2>1, <2>4 DEF ObserversFollowUser, OffTimeIsObserved, UserIsKnown, HaveBegun,
           SwitchUpdatesAreAlone, TimeUpdatesAreAlone, SwitchIsComing,
                                OffTimeIsComing
      <3> QED BY <3>1, <3>2 DEF SettingsInv
    <2> QED BY <2>1, <2>3, <2>4 DEF U!RegisterSettingKeyObserver
  <1>12. ASSUME U!UserSwitched PROVE SettingsInv'
    <2>1. /\ UNCHANGED << chargingType, changes, active, currentUserId, store, updates, wakeupSource,
                          displayOffTime, override, beforeOverride, caller, lost, connectedAc, disturbed >>
          /\ handler = "idle" /\ handler' = "unregistered"
          /\ observer' = [ k \in U!Keys |-> IF k \in U!MultiUserKeys THEN {} ELSE observer[k] ]
      BY <1>12 DEF U!UserSwitched, U!given, U!display, U!UnregisterAllSettingObserver,
         U!UnregisterSettingObserver
    <2>2. SettingsTyped'
      BY <1>0, <2>1 DEF SettingsTyped, U!OffTimeKeys
    <2>3. ObserversFollowUser'
      <3>1. observer'["double"] = {} /\ (chargingType => \A k \in U!OffTimeKeys : observer'[k] = {})
        BY <2>1, KeysOfSettings DEF U!MultiUserKeys, U!OffTimeKeys
      <3>2. ~chargingType => \A k \in U!OffTimeKeys : observer'[k] = observer[k]
        BY <2>1, KeysOfSettings DEF U!MultiUserKeys, U!OffTimeKeys
      <3> QED BY <1>0, <2>1, <3>1, <3>2 DEF ObserversFollowUser, OffTimeIsObserved, U!OffTimeKeys,
                 U!AssembleUri
    <2>4. UserIsKnown' /\ SwitchUpdatesAreAlone' /\ TimeUpdatesAreAlone' /\ SwitchIsComing'
      BY <1>0, <2>1 DEF UserIsKnown, SwitchUpdatesAreAlone, TimeUpdatesAreAlone, SwitchIsComing, HaveBegun
    <2>5. OffTimeIsComing'
      BY <1>0, <2>1, OffTimeRowStays DEF OffTimeIsComing, OffTimeIsObserved, TimeIsKept, HaveBegun, WillRead
    <2> QED BY <2>2, <2>3, <2>4, <2>5 DEF SettingsInv
  <1>13. ASSUME U!UpdateCurrentUserId PROVE SettingsInv'
    <2>1. /\ UNCHANGED << chargingType, changes, active, store, observer, updates, wakeupSource,
                          displayOffTime, override, beforeOverride, caller, lost, connectedAc, toHandle >>
          /\ handler = "unregistered" /\ handler' = "updated"
          /\ currentUserId' \in { active, currentUserId }
          /\ ~disturbed' => ~disturbed /\ currentUserId' = active
      BY <1>13 DEF U!UpdateCurrentUserId, U!given, U!display
    <2>2. SettingsTyped'
      BY <1>0, <2>1 DEF SettingsTyped, U!OffTimeKeys
    <2>3. ObserversFollowUser'
      BY <1>0, <2>1 DEF ObserversFollowUser, OffTimeIsObserved, U!OffTimeKeys, U!AssembleUri,
         U!IsNeedMultiUser
    <2>4. UserIsKnown' /\ SwitchUpdatesAreAlone' /\ TimeUpdatesAreAlone' /\ SwitchIsComing'
      BY <1>0, <2>1 DEF UserIsKnown, SwitchUpdatesAreAlone, TimeUpdatesAreAlone, SwitchIsComing, HaveBegun
    <2>5. ~chargingType => OffTimeRow' = OffTimeRow
      BY <2>1 DEF OffTimeRow, U!GetStringValue, U!OffTimeKey, U!AssembleUri, U!IsNeedMultiUser
    <2>6. OffTimeIsComing'
      BY <1>0, <2>1, <2>5 DEF OffTimeIsComing, OffTimeIsObserved, TimeIsKept, HaveBegun, WillRead
    <2> QED BY <2>2, <2>3, <2>4, <2>6 DEF SettingsInv
  <1>14. ASSUME U!RegisterAllSettingObserver PROVE SettingsInv'
    <2>1. /\ UNCHANGED << chargingType, changes, active, currentUserId, wakeupSource, displayOffTime,
                          override, beforeOverride, caller, lost, connectedAc, toHandle >>
          /\ handler = "updated" /\ handler' = "idle" /\ U!RegisterSettingKeyObserver(U!MultiUserKeys)
          /\ store' = U!UpdateSettingInvalidDisplayOffTime(store, currentUserId)
      BY <1>14 DEF U!RegisterAllSettingObserver, U!given, U!display
    <2>2. /\ U!MultiUserKeys \subseteq { "double" } \cup U!OffTimeKeys /\ "double" \in U!MultiUserKeys
          /\ chargingType => U!OffTimeKeys \subseteq U!MultiUserKeys
          /\ ~chargingType => U!MultiUserKeys = { "double" }
      BY KeysOfSettings DEF U!MultiUserKeys, U!OffTimeKeys
    <2>3. \A k \in U!MultiUserKeys : observer[k] = {}
      BY <1>0, <2>1, <2>2, KeysOfSettings DEF ObserversFollowUser, OffTimeIsObserved
    <2>4. /\ store' \in [ U!Keys -> [ U!Owners -> Cells ] ]
          /\ ~chargingType => OffTimeRow' = OffTimeRow
      <3>1. store' \in [ U!Keys -> [ U!Owners -> Cells ] ]
        BY <1>0, <2>1 DEF SettingsTyped, U!UpdateSettingInvalidDisplayOffTime, Cells, U!Owners
      <3>2. ASSUME ~chargingType PROVE store'["off"] = store["off"]
        BY <2>1, <3>2, KeysOfSettings DEF U!UpdateSettingInvalidDisplayOffTime
      <3> QED BY <2>1, <3>1, <3>2 DEF OffTimeRow, U!GetStringValue, U!OffTimeKey, U!AssembleUri,
                 U!IsNeedMultiUser
    <2>5. CASE /\ disturbed' = disturbed
               /\ U!RegisterObserver({ k \in U!MultiUserKeys : observer[k] = {} })
      <3> DEFINE new == { U!Thread(k) : k \in U!MultiUserKeys }
      <3>1. /\ observer' = [ k \in U!Keys |-> IF k \in U!MultiUserKeys THEN { U!AssembleUri(k) } ELSE observer[k] ]
            /\ updates' = updates \cup new
        <4>1. { k \in U!MultiUserKeys : observer[k] = {} } = U!MultiUserKeys
          BY <2>3
        <4> QED BY <2>5, <4>1 DEF U!RegisterObserver
      <3>2. /\ \A t \in new : \E k \in { "double" } \cup U!OffTimeKeys : t = U!Thread(k)
            /\ U!Thread("double") \in new
            /\ chargingType => U!Thread(U!OffTimeKey) \in new
        BY <2>2, KeysOfSettings
      <3> HIDE DEF new
      <3>3. /\ updates' \subseteq Updates
            /\ HaveBegun(TimeKeys)' = HaveBegun(TimeKeys) /\ HaveBegun({ "double" })' = HaveBegun({ "double" })
            /\ WillRead({ "double" })' /\ (chargingType => WillRead(TimeKeys)')
            /\ WillRead(TimeKeys) => WillRead(TimeKeys)'
        <4>1. (\A t \in new : \E k \in U!Keys : t = U!Thread(k)) /\ U!OffTimeKey \in TimeKeys
          BY <3>2, KeysOfSettings
        <4>2. /\ updates' \subseteq Updates /\ HaveBegun({ "double" })' = HaveBegun({ "double" })
              /\ WillRead({ "double" })'
          BY <1>0, <3>1, <3>2, <4>1, ThreadsStart
        <4>3. /\ HaveBegun(TimeKeys)' = HaveBegun(TimeKeys) /\ (chargingType => WillRead(TimeKeys)')
              /\ WillRead(TimeKeys) => WillRead(TimeKeys)'
          BY <1>0, <3>1, <3>2, <4>1, ThreadsStart
        <4> QED BY <4>2, <4>3
      <3>4. SettingsTyped'
        <4>1. observer' \in [ U!Keys -> SUBSET U!Owners ]
          BY <1>0, <1>b, <3>1 DEF SettingsTyped
        <4>2. \A t \in updates' : t \in updates \/ (t.read = "no" /\ t.key \in { "double" } \cup U!OffTimeKeys)
          BY <1>0, <3>1, <3>2 DEF SettingsTyped, U!Thread
        <4> QED BY <1>0, <2>1, <2>4, <3>3, <4>1, <4>2 DEF SettingsTyped, U!OffTimeKeys
      <3>5. ObserversFollowUser'
        <4>1. observer'["double"] = { currentUserId }
          BY <2>2, <3>1, KeysOfSettings DEF U!AssembleUri, U!IsNeedMultiUser
        <4>2. /\ chargingType => \A k \in U!OffTimeKeys : observer'[k] = { U!AssembleUri(k) }
              /\ ~chargingType => \A k \in U!OffTimeKeys : observer'[k] = observer[k]
          BY <2>2, <3>1, KeysOfSettings
        <4> QED BY <1>0, <2>1, <2>5, <4>1, <4>2 DEF ObserversFollowUser, OffTimeIsObserved,
                   U!OffTimeKeys, U!AssembleUri
      <3>6. UserIsKnown' /\ SwitchUpdatesAreAlone' /\ TimeUpdatesAreAlone' /\ SwitchIsComing'
        BY <1>0, <2>1, <2>5, <3>3 DEF UserIsKnown, SwitchUpdatesAreAlone, TimeUpdatesAreAlone, SwitchIsComing
      <3>7. OffTimeIsComing'
        BY <1>0, <2>1, <2>4, <2>5, <3>3 DEF OffTimeIsComing, OffTimeIsObserved, TimeIsKept
      <3> QED BY <3>4, <3>5, <3>6, <3>7 DEF SettingsInv
    <2>6. CASE disturbed' = TRUE /\ UNCHANGED << observer, updates >>
      <3>1. SettingsTyped'
        BY <1>0, <2>1, <2>4, <2>6 DEF SettingsTyped, U!OffTimeKeys
      <3>2. ObserversFollowUser' /\ UserIsKnown' /\ SwitchUpdatesAreAlone' /\ TimeUpdatesAreAlone' /\ SwitchIsComing' /\ OffTimeIsComing'
        BY <1>0, <2>1, <2>6 DEF ObserversFollowUser, OffTimeIsObserved, UserIsKnown, HaveBegun,
           SwitchUpdatesAreAlone, TimeUpdatesAreAlone, SwitchIsComing,
                                OffTimeIsComing
      <3> QED BY <3>1, <3>2 DEF SettingsInv
    <2> QED BY <2>1, <2>5, <2>6 DEF U!RegisterSettingKeyObserver
  <1>15. ASSUME U!OnPowerConnectStatusChanged PROVE SettingsInv'
    <2>1. PICK k \in { "ac", "dc" } :
          /\ UNCHANGED << chargingType, changes, active, currentUserId, store, observer, wakeupSource,
                          displayOffTime, override, beforeOverride, caller, lost, handler, toHandle, disturbed >>
          /\ chargingType /\ updates' = updates \cup { U!Thread(k) }
      BY <1>15 DEF U!OnPowerConnectStatusChanged, U!given, U!display
    <2>0. PICK new : new = { U!Thread(k) }
      OBVIOUS
    <2>2. updates' = updates \cup new /\ U!Thread(k) \in new /\ \A t \in new : \E j \in U!Keys : t = U!Thread(j)
      BY <2>0, <2>1, KeysOfSettings
    <2>3. k \in TimeKeys /\ k \in U!OffTimeKeys
      BY <2>1 DEF TimeKeys, U!OffTimeKeys
    <2>4. /\ updates' \subseteq Updates /\ HaveBegun({ "double" })' = HaveBegun({ "double" })
          /\ WillRead({ "double" }) => WillRead({ "double" })'
      BY <1>0, <2>1, <2>2, ThreadsStart
    <2>5. HaveBegun(TimeKeys)' = HaveBegun(TimeKeys) /\ WillRead(TimeKeys)'
      BY <1>0, <2>1, <2>2, <2>3, ThreadsStart
    <2>6. SettingsTyped'
      <3>1. \A t \in updates' : t \in updates \/ (t.read = "no" /\ t.key \in { "double" } \cup U!OffTimeKeys)
        BY <1>0, <2>1, <2>3 DEF SettingsTyped, U!Thread
      <3> QED BY <1>0, <2>1, <2>4, <3>1 DEF SettingsTyped, U!OffTimeKeys
    <2>7. UserIsKnown' /\ ObserversFollowUser'
      BY <1>0, <2>1 DEF UserIsKnown, ObserversFollowUser, OffTimeIsObserved, U!OffTimeKeys,
         U!AssembleUri
    <2>8. SwitchUpdatesAreAlone' /\ TimeUpdatesAreAlone' /\ SwitchIsComing' /\ OffTimeIsComing'
      BY <1>0, <2>1, <2>4, <2>5 DEF SwitchUpdatesAreAlone, TimeUpdatesAreAlone, SwitchIsComing, OffTimeIsComing
    <2> QED BY <2>6, <2>7, <2>8 DEF SettingsInv
  <1>16. ASSUME U!UserChangesSetting PROVE SettingsInv'
    <2>1. PICK k \in changes \cap U!Keys : \E v \in (IF k \in U!Switches THEN { 0, 1 } ELSE OffTimes \cup { U!TooShort }) :
             LET owner == IF U!IsNeedMultiUser(k) THEN active ELSE "all" IN
             /\ store' = [ store EXCEPT ![k][owner] = v ]
             /\ updates' = updates \cup U!Notified(k, owner)
             /\ UNCHANGED << chargingType, changes, active, currentUserId, observer, wakeupSource, displayOffTime,
                             override, beforeOverride, caller, lost, connectedAc, handler, toHandle, disturbed >>
      BY <1>16 DEF U!UserChangesSetting, U!given, U!display
    <2>2. PICK v \in Cells, owner \in U!Owners :
             /\ owner = IF U!IsNeedMultiUser(k) THEN active ELSE "all"
             /\ store' = [ store EXCEPT ![k][owner] = v ]
             /\ updates' = updates \cup U!Notified(k, owner)
             /\ UNCHANGED << chargingType, changes, active, currentUserId, observer, wakeupSource, displayOffTime,
                             override, beforeOverride, caller, lost, connectedAc, handler, toHandle, disturbed >>
      BY <1>0, <2>1 DEF SettingsTyped, U!Owners, Cells, U!TooShort, U!Missing
    <2>3. k \in U!Keys /\ k \in { "double" } \cup U!OffTimeKeys /\ owner \in U!Owners
      BY <1>0, <2>2, KeysOfSettings DEF SettingsTyped, U!Owners
    <2>0. PICK new : new = U!Notified(k, owner)
      OBVIOUS
    <2>4. /\ updates' = updates \cup new /\ (\A t \in new : t = U!Thread(k))
          /\ owner \in observer[k] => U!Thread(k) \in new
      BY <2>0, <2>2 DEF U!Notified
    <2>5. /\ updates' \subseteq Updates
          /\ HaveBegun({ "double" })' = HaveBegun({ "double" }) /\ HaveBegun(TimeKeys)' = HaveBegun(TimeKeys)
          /\ WillRead({ "double" }) => WillRead({ "double" })'
          /\ WillRead(TimeKeys) => WillRead(TimeKeys)'
          /\ k = "double" /\ owner \in observer[k] => WillRead({ "double" })'
          /\ k \in TimeKeys /\ owner \in observer[k] => WillRead(TimeKeys)'
      <3>1. (\A t \in new : \E j \in U!Keys : t = U!Thread(j)) /\ updates' = updates \cup new
        BY <2>2, <2>3, <2>4
      <3>2. /\ updates' \subseteq Updates
            /\ HaveBegun({ "double" })' = HaveBegun({ "double" }) /\ (WillRead({ "double" }) => WillRead({ "double" })')
            /\ k \in { "double" } /\ owner \in observer[k] => WillRead({ "double" })'
        BY <1>0, <2>4, <3>1, ThreadsStart
      <3>3. /\ HaveBegun(TimeKeys)' = HaveBegun(TimeKeys) /\ (WillRead(TimeKeys) => WillRead(TimeKeys)')
            /\ k \in TimeKeys /\ owner \in observer[k] => WillRead(TimeKeys)'
        BY <1>0, <2>4, <3>1, ThreadsStart
      <3> QED BY <3>2, <3>3
    <2>6. \A j \in U!Keys : /\ j # k => store'[j] = store[j]
                            /\ \A o \in U!Owners : j # k \/ o # owner => store'[j][o] = store[j][o]
      BY <1>0, <2>2, <2>3 DEF SettingsTyped
    <2>7. SettingsTyped'
      <3>1. store' \in [ U!Keys -> [ U!Owners -> Cells ] ]
        BY <1>0, <2>2, <2>3 DEF SettingsTyped
      <3>2. \A t \in updates' : t \in updates \/ (t.read = "no" /\ t.key \in { "double" } \cup U!OffTimeKeys)
        BY <1>0, <2>2, <2>3, <2>4 DEF SettingsTyped, U!Thread
      <3> QED BY <1>0, <2>2, <2>5, <3>1, <3>2 DEF SettingsTyped, U!OffTimeKeys
    <2>8. UserIsKnown' /\ ObserversFollowUser' /\ SwitchUpdatesAreAlone' /\ TimeUpdatesAreAlone'
      BY <1>0, <2>2, <2>5 DEF UserIsKnown, ObserversFollowUser, OffTimeIsObserved, U!OffTimeKeys,
         U!AssembleUri,
                              SwitchUpdatesAreAlone, TimeUpdatesAreAlone
    <2>9. SwitchIsComing'
      <3>1. ~disturbed /\ handler = "idle" /\ k = "double" /\ owner = currentUserId => WillRead({ "double" })'
        BY <1>0, <2>5 DEF ObserversFollowUser
      <3>2. k # "double" \/ owner # currentUserId =>
                store'["double"][currentUserId] = store["double"][currentUserId]
        BY <1>0, <2>6, KeysOfSettings DEF SettingsTyped, U!Owners
      <3> QED BY <1>0, <2>2, <2>5, <3>1, <3>2 DEF SwitchIsComing
    <2>10. OffTimeIsComing'
      <3>1. ~disturbed /\ OffTimeIsObserved /\ k = U!OffTimeKey /\ owner = U!AssembleUri(k) => WillRead(TimeKeys)'
        BY <1>0, <2>5, KeysOfSettings DEF ObserversFollowUser
      <3>2. k # U!OffTimeKey \/ owner # U!AssembleUri(k) => OffTimeRow' = OffTimeRow
        <4>1. U!OffTimeKey' = U!OffTimeKey /\ U!AssembleUri(U!OffTimeKey)' = U!AssembleUri(U!OffTimeKey)
          BY <2>2 DEF U!OffTimeKey, U!AssembleUri
        <4>2. U!OffTimeKey \in U!Keys /\ U!AssembleUri(U!OffTimeKey) \in U!Owners
          BY <1>b, KeysOfSettings
        <4> QED BY <2>6, <4>1, <4>2 DEF OffTimeRow, U!GetStringValue
      <3> QED BY <1>0, <2>2, <2>5, <3>1, <3>2 DEF OffTimeIsComing, OffTimeIsObserved, TimeIsKept
    <2> QED BY <2>7, <2>8, <2>9, <2>10 DEF SettingsInv
  <1>17. ASSUME U!SwitchUser PROVE SettingsInv'
    <2>1. /\ UNCHANGED << chargingType, changes, updates, currentUserId, store, observer, wakeupSource, displayOffTime,
                          override, beforeOverride, caller, lost, connectedAc, handler >>
          /\ active' \in Users
      BY <1>17 DEF U!SwitchUser, U!given, U!display
    <2>2. /\ ~disturbed' => ~disturbed
          /\ handler \in { "keys", "idle", "updated" } => toHandle'
      BY <1>17 DEF U!SwitchUser
    <2>3. SettingsTyped' /\ ObserversFollowUser' /\ SwitchIsComing'
      BY <1>0, <1>d, <2>1, <2>2 DEF SettingsTyped
    <2>4. UserIsKnown' /\ SwitchUpdatesAreAlone' /\ TimeUpdatesAreAlone'
      BY <1>0, <2>1, <2>2 DEF UserIsKnown, SwitchUpdatesAreAlone, TimeUpdatesAreAlone, HaveBegun
    <2>5. OffTimeIsComing'
      BY <1>0, <2>1, <2>2, OffTimeRowStays DEF OffTimeIsComing, OffTimeIsObserved, TimeIsKept, HaveBegun,
         WillRead
    <2> QED BY <2>3, <2>4, <2>5 DEF SettingsInv
  <1>18. ASSUME UNCHANGED U!vars PROVE SettingsInv'
    <2>1. /\ UNCHANGED << chargingType, changes, updates, active, currentUserId, store, observer, wakeupSource,
                          displayOffTime, override, beforeOverride, caller, lost, connectedAc, handler, toHandle, disturbed >>
      BY <1>18 DEF U!vars
    <2>2. SettingsTyped' /\ ObserversFollowUser' /\ SwitchIsComing'
      BY <1>0, <1>d, <2>1 DEF SettingsTyped
    <2>3. UserIsKnown' /\ SwitchUpdatesAreAlone' /\ TimeUpdatesAreAlone'
      BY <1>0, <2>1 DEF UserIsKnown, SwitchUpdatesAreAlone, TimeUpdatesAreAlone, HaveBegun
    <2>4. OffTimeIsComing'
      BY <1>0, <2>1, OffTimeRowStays DEF OffTimeIsComing, OffTimeIsObserved, TimeIsKept, HaveBegun, WillRead
    <2> QED BY <2>2, <2>3, <2>4 DEF SettingsInv
  <1> QED BY <1>1, <1>2, <1>3, <1>4, <1>5, <1>6, <1>7, <1>8, <1>9, <1>10, <1>11, <1>12, <1>13,
             <1>14, <1>15, <1>16, <1>17, <1>18, <1>19, <1>20, <1>21, <1>22 DEF U!Next

\* Once the observers' threads have run, the wake-up switches are those of the active user, for any
\* users (SettingHelper, PowerMgrService's observers and its handler of COMMON_EVENT_USER_SWITCHED).
THEOREM SwitchesFollow == U!Spec => []U!SwitchesFollowUser
  <1>1. SettingsInv => U!SwitchesFollowUser
    <2> SUFFICES ASSUME SettingsInv, U!Quiet, NEW k \in U!Switches
                 PROVE  wakeupSource[k] = U!GetSettingWakeupSwitch(store[k][active])
      BY DEF U!SwitchesFollowUser
    <2>1. k = "double" /\ currentUserId = active /\ updates = {} /\ handler = "idle" /\ ~disturbed
      BY KeysOfSettings DEF U!Quiet, SettingsInv, UserIsKnown
    <2>2. wakeupSource["double"] <=> store["double"][active] = 1
      BY <2>1 DEF SettingsInv, SwitchIsComing, WillRead, HaveBegun
    <2>3. wakeupSource["double"] \in BOOLEAN
      BY KeysOfSettings DEF SettingsInv, SettingsTyped
    <2> QED BY <2>1, <2>2, <2>3 DEF U!GetSettingWakeupSwitch
  <1> QED BY <1>1, SettingsInit, SettingsStep, PTL DEF U!Spec

\* Then the display-off time is that of the row of the supply and the user, unless it is overridden
\* (PowerStateMachine::DisplayOffTimeUpdateFunc, RestoreScreenOffTimeInner).
THEOREM OffTimeFollows == U!Spec => []U!OffTimeFollowsSetting
  <1>1. SettingsInv => U!OffTimeFollowsSetting
    <2> SUFFICES ASSUME SettingsInv, U!Quiet, ~override, caller.at = "idle", ~lost
                 PROVE  displayOffTime = U!GetSettingDisplayOffTime(OffTimeRow, displayOffTime)
      BY DEF U!OffTimeFollowsSetting, OffTimeRow
    <2> QED
      BY DEF U!Quiet, SettingsInv, OffTimeIsComing, OffTimeIsObserved, WillRead, HaveBegun, TimeIsKept,
         U!GetSettingDisplayOffTime
  <1> QED BY <1>1, SettingsInit, SettingsStep, PTL DEF U!Spec

===============================================================================
