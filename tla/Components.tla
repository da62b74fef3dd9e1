------------------------------ MODULE Components ------------------------------
(***************************************************************************)
(* The components around the state machine, gathered for one run and for   *)
(* the theorems.  What ties them to one another is part of each module, as *)
(* the steps of its environment, and they share no variable that a         *)
(* property speaks of; so a behaviour is one of a component's behaviours,  *)
(* and part says whose.  The parts take turns in v1, v2, ...: a part names *)
(* as many of them as it has variables, and those it does not need are 0.  *)
(***************************************************************************)
EXTENDS MultiInvoker, Integers

CONSTANTS
    CheckedParts,   \* the components whose behaviours are checked
    ForceCallers, Interrupters, MaxForceCalls,                               \* ForceSuspend
    Tellers,                                                                 \* Ulsr
    HibernateThreads,                                                        \* Hibernate
    INIT_LONG_PRESS_RETRY, MaxDialogTasks,                                   \* ShutdownDialog
    ModeSwitches, Readable, Values, Policy,                                  \* PowerMode
    Users, OffTimes, DEFAULT_DISPLAY_OFF_TIME_MS, SettingChanges, MaxSettingUpdates,     \* Settings
    ConfigOn, Click, MaxWakeupSubscriptions, MaxWakeupUpdates,               \* WakeupMonitors
    BlockTypes,                                                              \* ClientTokens
    Locks, CONNECT_RETRY_COUNT, MaxServiceStarts,                            \* PowerClient
    LidTasks, MaxScreens, MaxCoverEvents,                                    \* Cover
    Builds, Texts, SourceConfig, MaxSourceSubscriptions, MaxSourceUpdates,   \* SuspendSources
    LockClients, LockDisplays, MaxLocks, MaxListenerCalls,                   \* LockListeners
    MaxSensorTasks,                                                          \* Proximity
    MaxCover, MaxLives,                                                      \* ServiceLife
    MaxHdiStarts, MaxManagers, MaxRetries,                                   \* HdiLink
    AuthCallers,                                                             \* PreBright
    NoticeClients, NoticeTimes, RemainTimes,                                 \* ScreenOffPre
    SaverTimes, SaverOffTime, MIN_DISPLAY_OFF_TIME_MS, MaxSaverEvents, MaxSaverUpdates,  \* ScreenSaver
    ScriptPromises,                                                          \* ScriptCalls
    MaxRefs, MaxScriptEvents,                                                \* ScriptCalls
    Inputs, MaxInputTasks                                                    \* InputWakeup

VARIABLES
    part,
    v1, v2, v3, v4, v5, v6, v7, v8, v9, v10, v11, v12, v13, v14, v15, v16, v17, v18, v19, v20,
    v21, v22, v23, v24

Forced == INSTANCE ForceSuspend WITH
    state <- v1, pc <- v2, suspended <- v3, suspendMutex <- v4, pending <- v5, finished <- v6,
    skipHdi <- v7, forceSleeping <- v8, call <- v9, interrupted <- v10, tasks <- v11,
    Callers <- ForceCallers, MaxCalls <- MaxForceCalls
Tag == INSTANCE Ulsr WITH
    priority <- v1, stage <- v2, awaited <- v3, told <- v4, ulsrMutex <- v5, toTell <- v6,
    telling <- v7, timedOut <- v8, tag <- v9, timer <- v10, asleep <- v11, waitTaskStart <- v12,
    resultTask <- v13, setter <- v14
Disk == INSTANCE Hibernate WITH
    state <- v1, pc <- v2, awaited <- v3, told <- v4, registered <- v5, prepared <- v6,
    hibernating <- v7, args <- v8, prepare <- v9, prepareResult <- v10, stopService <- v11,
    sleepTimer <- v12, shutDown <- v13, late <- v14, Threads <- HibernateThreads
Dialog == INSTANCE ShutdownDialog WITH
    tasks <- v1, retryCount <- v2, subscribed <- v3, overtaken <- v4, retryTask <- v5,
    forbid <- v6, remote <- v7, connecting <- v8, isDialogShow <- v9, longPressShow <- v10,
    MaxTasks <- MaxDialogTasks
Mode == INSTANCE PowerMode WITH
    mode <- v1, subMode <- v2, observed <- v3, ready <- v4, switchMap <- v5, recoverMap <- v6,
    observerRegisted <- v7, modeCall <- v8, target <- v9, settings <- v10, savedMode <- v11,
    savedSubMode <- v12, savedRecoverMap <- v13, noticed <- v14, disturbed <- v15, user <- v16,
    Switches <- ModeSwitches
User == INSTANCE Settings WITH
    chargingType <- v1, active <- v2, currentUserId <- v3, store <- v4, observer <- v5,
    updates <- v6, wakeupSource <- v7, displayOffTime <- v8, override <- v9,
    beforeOverride <- v10, connectedAc <- v11, handler <- v12, changes <- v13, toHandle <- v14,
    disturbed <- v15, caller <- v16, lost <- v17, Times <- OffTimes, MaxUpdates <- MaxSettingUpdates
Wakeup == INSTANCE WakeupMonitors WITH
    json <- v1, sourceUpdateMutex <- v2, keysObserver <- v3, row <- v4, switchObserver <- v5,
    updates <- v6, handler <- v7, parsed <- v8, monitorMap <- v9, shortPressId <- v10,
    shortPressCache <- v11, live <- v12, lastId <- v13, disturbed <- v14,
    MaxSubscriptions <- MaxWakeupSubscriptions, MaxUpdates <- MaxWakeupUpdates
Tokens == INSTANCE ClientTokens WITH
    obituaries <- v1, alive <- v2, call <- v3, screenOffBlockMap <- v4, proximityFiltered <- v5,
    forceTimingOut <- v6, clientDeathRecipientMap <- v7, thisInterfaceInvoker <- v8,
    buried <- v9, watched <- v10, late <- v11, overlap <- v12
Library == INSTANCE PowerClient WITH
    obituaries <- v1, up <- v2, call <- v3, start <- v4, created <- v5, proxy <- v6,
    recovery <- v7, locksMutex <- v8, list <- v9, lock <- v10, kind <- v11, disturbed <- v12,
    MaxStarts <- MaxServiceStarts
Lid == INSTANCE Cover WITH
    lid <- v1, config <- v2, cover <- v3, overtaken <- v4, on <- v5, internal <- v6, pc <- v7,
    switchAction <- v8, timer <- v9, reason <- v10, seen <- v11, wakeupMutex <- v12,
    monitorMutex <- v13, events <- v14, screens <- v15, MaxEvents <- MaxCoverEvents
Sources == INSTANCE SuspendSources WITH
    build <- v1, plugged <- v2, connectStatus <- v3, row <- v4, observer <- v5, updates <- v6,
    handler <- v7, inside <- v8, monitorMap <- v9, releaseId <- v10, releaseCache <- v11,
    live <- v12, lastId <- v13, disturbed <- v14, MaxSubscriptions <- MaxSourceSubscriptions,
    MaxUpdates <- MaxSourceUpdates, ConfigFile <- SourceConfig
Locked == INSTANCE LockListeners WITH
    obituaries <- v1, alive <- v2, calls <- v3, held <- v4, screenLockCount <- v5,
    callbacks <- v6, notifications <- v7, callbacksCopy <- v8, told <- v9, watched <- v10,
    late <- v11, overlap <- v12, Clients <- LockClients, Displays <- LockDisplays,
    MaxCalls <- MaxListenerCalls
Registry == INSTANCE Callbacks WITH
    obituaries <- v1, alive <- v2, registry <- v3, table <- v4, recipients <- v5, tasks <- v6,
    levels <- v7, toTell <- v8, round <- v9, takers <- v10, result <- v11, lateCall <- v12
Sensor == INSTANCE Proximity WITH
    tasks <- v1, display <- v2, subscribed <- v3, overtaken <- v4, on <- v5, callEnable <- v6,
    duringCall <- v7, filtered <- v8, held <- v9, supported <- v10, enabled <- v11, close <- v12,
    near <- v13, reported <- v14, sensor <- v15, client <- v16, screenOffTimer <- v17,
    timerStarted <- v18, fired <- v19, switchTimer <- v20, hook <- v21, offBy <- v22,
    MaxTasks <- MaxSensorTasks
Life == INSTANCE ServiceLife WITH
    events <- v1, timer <- v2, listening <- v3, ready <- v4, notices <- v5, up <- v6,
    lives <- v7, bootDone <- v8, needReInit <- v9, crashed <- v10, loops <- v11,
    initMutex <- v12, init <- v13, sa <- v14, saw <- v15, live <- v16, subscribed <- v17,
    cover <- v18, moves <- v19, switchOpen <- v20, on <- v21, task <- v22, told <- v23,
    overtaken <- v24
Link == INSTANCE HdiLink WITH
    started <- v1, manager <- v2, listening <- v3, managers <- v4, hdi <- v5, starts <- v6,
    listener <- v7, status <- v8, saNotices <- v9, hdiRemove <- v10, retries <- v11,
    tasks <- v12, interface <- v13, callback <- v14, unheard <- v15, MaxStarts <- MaxHdiStarts
Auth == INSTANCE PreBright WITH
    doze <- v1, display <- v2, state <- v3, sleepTimer <- v4, preBrightState <- v5,
    authTimer <- v6, pc <- v7, type <- v8, inactiveTimer <- v9, Callers <- AuthCallers
Notice == INSTANCE ScreenOffPre WITH
    awake <- v1, task <- v2, offTime <- v3, settingTime <- v4, sinceOn <- v5, dimIn <- v6,
    remainTime <- v7, callbackSet <- v8, isRegistered <- v9, orphans <- v10, machine <- v11,
    register <- v12, told <- v13, disturbed <- v14, Clients <- NoticeClients,
    Times <- NoticeTimes
Saver == INSTANCE ScreenSaver WITH
    events <- v1, timer <- v2, observed <- v3, plugged <- v4, row <- v5, updates <- v6,
    plugStatus <- v7, at <- v8, switching <- v9, inside <- v10, spent <- v11, stale <- v12,
    mistaken <- v13, Times <- SaverTimes, OffTime <- SaverOffTime, MaxEvents <- MaxSaverEvents,
    MaxUpdates <- MaxSaverUpdates
Script == INSTANCE ScriptCalls WITH
    reachable <- v1, error <- v2, calls <- v3, ref <- v4, refs <- v5, deleted <- v6,
    registered <- v7, stub <- v8, events <- v9, called <- v10, Calls <- ScriptPromises,
    MaxRefs <- 0, MaxEvents <- 0
Event == INSTANCE ScriptCalls WITH
    reachable <- v1, error <- v2, calls <- v3, ref <- v4, refs <- v5, deleted <- v6,
    registered <- v7, stub <- v8, events <- v9, called <- v10, Calls <- {},
    MaxEvents <- MaxScriptEvents
Input == INSTANCE InputWakeup WITH
    tasks <- v1, task <- v2, state <- v3, sleepTimer <- v4, holder <- v5, target <- v6,
    force <- v7, curState <- v8, subscription <- v9, event <- v10, at <- v11, recent <- v12,
    justSuspended <- v13, key <- v14, guards <- v15, failed <- v16, MaxTasks <- MaxInputTasks

\* The operations that block the screen-off are none of those of the other death recipients.
ASSUME BlockTypesAssumption == BlockTypes \cap { Tokens!Prox, "forceTimingOut", "none" } = {}

\* Times are whole numbers.
ASSUME TimesAssumption == NoticeTimes \subseteq Int /\ RemainTimes \subseteq Int

\* INIT_VALUE_FALSE is no value of a setting; power_mode_config.xml gives values of settings, and
\* only settings can be read back.
ASSUME PolicyAssumption ==
    /\ Mode!INIT_VALUE_FALSE \notin Values /\ 0 \in Values /\ Readable \subseteq ModeSwitches
    /\ \A m \in Mode!Modes, s \in ModeSwitches :
           Policy[m][s].value \in Values \cup { Mode!INIT_VALUE_FALSE }

\* The service is started at least once.
ASSUME StartsAssumption == MaxServiceStarts \in Nat \ {0}

\* RUNNINGLOCK_DISPLAY_ID_ALL is the number of no display.
ASSUME DisplaysAssumption == Locked!All \notin LockDisplays

\* The worker threads of the lid and the switch are none of the other threads that Cover names.
ASSUME WorkersAssumption == LidTasks \cap { "queue", "key", "client", "screen" } = {}

\* The variables that a part leaves unused, by the number of those it uses.
after0 == << v1, v2, v3, v4, v5, v6, v7, v8, v9, v10, v11, v12, v13, v14, v15, v16, v17, v18,
             v19, v20, v21, v22, v23, v24 >>
after9 == << v10, v11, v12, v13, v14, v15, v16, v17, v18, v19, v20, v21, v22, v23, v24 >>
after10 == << v11, v12, v13, v14, v15, v16, v17, v18, v19, v20, v21, v22, v23, v24 >>
after11 == << v12, v13, v14, v15, v16, v17, v18, v19, v20, v21, v22, v23, v24 >>
after12 == << v13, v14, v15, v16, v17, v18, v19, v20, v21, v22, v23, v24 >>
after13 == << v14, v15, v16, v17, v18, v19, v20, v21, v22, v23, v24 >>
after14 == << v15, v16, v17, v18, v19, v20, v21, v22, v23, v24 >>
after15 == << v16, v17, v18, v19, v20, v21, v22, v23, v24 >>
after16 == << v17, v18, v19, v20, v21, v22, v23, v24 >>
after17 == << v18, v19, v20, v21, v22, v23, v24 >>
after22 == << v23, v24 >>

Idle22 == v23 = 0 /\ v24 = 0
Idle17 == v18 = 0 /\ v19 = 0 /\ v20 = 0 /\ v21 = 0 /\ v22 = 0 /\ Idle22
Idle16 == v17 = 0 /\ Idle17
Idle15 == v16 = 0 /\ Idle16
Idle14 == v15 = 0 /\ Idle15
Idle13 == v14 = 0 /\ Idle14
Idle12 == v13 = 0 /\ Idle13
Idle11 == v12 = 0 /\ Idle12
Idle10 == v11 = 0 /\ Idle11
Idle9 == v10 = 0 /\ Idle10
Idle0 == v1 = 0 /\ v2 = 0 /\ v3 = 0 /\ v4 = 0 /\ v5 = 0 /\ v6 = 0 /\ v7 = 0 /\ v8 = 0 /\ v9 = 0
      /\ Idle9

GroupInit ==
    /\ part \in CheckedParts
    /\ Init
    /\ \/ part = "invoker" /\ Idle0
       \/ part = "forced" /\ Forced!Init /\ Idle11
       \/ part = "ulsr" /\ Tag!Init /\ Idle14
       \/ part = "hibernate" /\ Disk!Init /\ Idle14
       \/ part = "dialog" /\ Dialog!Init /\ Idle10
       \/ part = "mode" /\ Mode!Init /\ Idle16
       \/ part = "settings" /\ User!Init /\ Idle17
       \/ part = "wakeup" /\ Wakeup!Init /\ Idle14
       \/ part = "tokens" /\ Tokens!Init /\ Idle12
       \/ part = "library" /\ Library!Init /\ Idle12
       \/ part = "cover" /\ Lid!Init /\ Idle15
       \/ part = "sources" /\ Sources!Init /\ Idle14
       \/ part = "listeners" /\ Locked!Init /\ Idle12
       \/ part = "callbacks" /\ Registry!Init /\ Idle12
       \/ part = "proximity" /\ Sensor!Init /\ Idle22
       \/ part = "life" /\ Life!Init
       \/ part = "hdi" /\ Link!Init /\ Idle15
       \/ part = "auth" /\ Auth!Init /\ Idle9
       \/ part = "notice" /\ Notice!Init /\ Idle14
       \/ part = "saver" /\ Saver!Init /\ Idle13
       \/ part = "script" /\ Script!Init /\ Idle10
       \/ part = "scriptEvent" /\ Event!Init /\ Idle10
       \/ part = "input" /\ Input!Init /\ Idle16

\* The properties of some components say nothing of states in which a history variable of theirs
\* is set, which then stays so: such states are left out.
InvokerStep == part = "invoker" /\ Next /\ UNCHANGED << part, after0 >>
ForcedStep == part = "forced" /\ Forced!Next /\ UNCHANGED << part, vars, after11 >>
TagStep == part = "ulsr" /\ Tag!Next /\ UNCHANGED << part, vars, after14 >>
DiskStep == part = "hibernate" /\ Disk!Next /\ UNCHANGED << part, vars, after14 >>
DialogStep == part = "dialog" /\ Dialog!Next /\ UNCHANGED << part, vars, after10 >>
ModeStep == part = "mode" /\ Mode!Next /\ ~v15' /\ UNCHANGED << part, vars, after16 >>
UserStep == part = "settings" /\ User!Next /\ ~v15' /\ UNCHANGED << part, vars, after17 >>
WakeupStep == part = "wakeup" /\ Wakeup!Next /\ ~v14' /\ UNCHANGED << part, vars, after14 >>
TokensStep ==
    part = "tokens" /\ Tokens!Next /\ v11' = {} /\ ~v12' /\ UNCHANGED << part, vars, after12 >>
LibraryStep == part = "library" /\ Library!Next /\ UNCHANGED << part, vars, after12 >>
LidStep == part = "cover" /\ Lid!Next /\ ~v4' /\ UNCHANGED << part, vars, after15 >>
SourcesStep == part = "sources" /\ Sources!Next /\ ~v14' /\ UNCHANGED << part, vars, after14 >>
LockedStep == part = "listeners" /\ Locked!Next /\ UNCHANGED << part, vars, after12 >>
RegistryStep == part = "callbacks" /\ Registry!Next /\ UNCHANGED << part, vars, after12 >>
SensorStep == part = "proximity" /\ Sensor!Next /\ UNCHANGED << part, vars, after22 >>
LifeStep == part = "life" /\ Life!Next /\ ~v24' /\ UNCHANGED << part, vars >>
LinkStep == part = "hdi" /\ Link!Next /\ UNCHANGED << part, vars, after15 >>
AuthStep == part = "auth" /\ Auth!Next /\ UNCHANGED << part, vars, after9 >>
NoticeStep == part = "notice" /\ Notice!Next /\ UNCHANGED << part, vars, after14 >>
SaverStep == part = "saver" /\ Saver!Next /\ UNCHANGED << part, vars, after13 >>
ScriptStep == part = "script" /\ Script!Next /\ UNCHANGED << part, vars, after10 >>
EventStep == part = "scriptEvent" /\ Event!Next /\ UNCHANGED << part, vars, after10 >>
InputStep == part = "input" /\ Input!Next /\ UNCHANGED << part, vars, after16 >>

GroupNext ==
    \/ InvokerStep \/ ForcedStep \/ TagStep \/ DiskStep \/ DialogStep
    \/ ModeStep \/ UserStep \/ WakeupStep \/ TokensStep \/ LibraryStep
    \/ LidStep \/ SourcesStep \/ LockedStep \/ RegistryStep \/ SensorStep
    \/ LifeStep \/ LinkStep \/ AuthStep \/ NoticeStep \/ SaverStep
    \/ ScriptStep \/ EventStep \/ InputStep

groupVars == << part, vars, after0 >>

GroupSpec == GroupInit /\ [][GroupNext]_groupVars

-------------------------------------------------------------------------------
(* The components' properties; the modules say more about each. *)

\* Every component keeps the type of its variables.
TypesOK ==
    /\ part = "invoker" => TypeOK
    /\ part = "forced" => Forced!TypeOK
    /\ part = "ulsr" => Tag!TypeOK
    /\ part = "hibernate" => Disk!TypeOK
    /\ part = "dialog" => Dialog!TypeOK
    /\ part = "mode" => Mode!TypeOK
    /\ part = "settings" => User!TypeOK
    /\ part = "wakeup" => Wakeup!TypeOK
    /\ part = "tokens" => Tokens!TypeOK
    /\ part = "library" => Library!TypeOK
    /\ part = "cover" => Lid!TypeOK
    /\ part = "sources" => Sources!TypeOK
    /\ part = "listeners" => Locked!TypeOK
    /\ part = "callbacks" => Registry!TypeOK
    /\ part = "proximity" => Sensor!TypeOK
    /\ part = "life" => Life!TypeOK
    /\ part = "hdi" => Link!TypeOK
    /\ part = "auth" => Auth!TypeOK
    /\ part = "notice" => Notice!TypeOK
    /\ part = "saver" => Saver!TypeOK
    /\ part = "script" => Script!TypeOK
    /\ part = "scriptEvent" => Event!TypeOK
    /\ part = "input" => Input!TypeOK

\* A forced suspend whose interrupter was told ERR_OK does not reach ForceSuspendEx.
InterruptedIsNotSuspended == part = "forced" => Forced!InterruptedIsNotSuspended

\* Nobody hears of the ulsr before a client of a higher priority.
HigherPriorityFirst == part = "ulsr" => Tag!HigherPriorityFirst

\* Whoever was told of a hibernation is told of its end.
HibernateIsAnswered == part = "hibernate" => Disk!HibernateIsAnswered

\* A long press can always bring the shutdown dialog up.
DialogCanBeShown == part = "dialog" => Dialog!DialogCanBeShown

\* A setting has the user's value again in every mode that leaves it alone.
UserValueIsRestored == part = "mode" => Mode!UserValueIsRestored

\* The wake-up switches are the active user's once the observers' threads have run.
SwitchesFollowUser == part = "settings" => User!SwitchesFollowUser

\* The display-off time is the setting's when nobody overrides it.
OffTimeFollowsSetting == part = "settings" => User!OffTimeFollowsSetting

\* The wake-up monitors are those of the enabled sources, and these follow their switches.
MonitorsFollowSettings == part = "wakeup" => Wakeup!MonitorsFollowSettings

\* What a client set through a death recipient goes with it.
DeadClientsHoldNothing == part = "tokens" => Tokens!DeadClientsHoldNothing

\* The client library's running locks are those of the service, after any restart of it.
LocksAreRecovered == part = "library" => Library!LocksAreRecovered

\* Once it was told of every death of the service, the client library calls the one that runs.
ClientReconnects == part = "library" => Library!ClientReconnects

\* The internal screen is on when the device is on and its cover open.
InternalScreenFollowsCover == part = "cover" => Lid!InternalScreenFollowsCover

\* The suspend monitors act as the object of the current user and supply says.
MonitorsFollowSources == part = "sources" => Sources!MonitorsFollowSources

\* A listener of the screen locks knows whether its display is locked.
ListenersAreCurrent == part = "listeners" => Locked!ListenersAreCurrent

\* A power-state or power-mode listener, or a script's function, is called only while it is
\* registered.
ToldWhileRegistered ==
    /\ part = "callbacks" => Registry!ToldWhileRegistered
    /\ part = "scriptEvent" => Event!CalledWhileHeld

\* A screen that the proximity sensor turned off belongs to a held lock, and comes back with the
\* away event or the unlock.
ScreenOffOnlyWhileClose == part = "proximity" => Sensor!ScreenOffOnlyWhileClose

\* The display service knows whether the cover is open.
DisplayKnowsCover == part = "life" => Life!DisplayKnowsCover

\* The power service that runs has our callback.
CallbackFollowsHdi == part = "hdi" => Link!CallbackFollowsHdi

\* A pre-bright that waits for its result has a timer or a result on its way.
PreBrightIsTimed == part = "auth" => Auth!PreBrightIsTimed

\* The notice of the screen-off-pre controller precedes the dimming by the time asked for.
NoticePrecedesDim == part = "notice" => Notice!NoticePrecedesDim

\* The screen saver's timer is that of the current user and supply.
SaverFollowsSettings == part = "saver" => Saver!SaverFollowsSettings

\* A device whose screen is off gets every input event.
InputIsHeard == part = "input" => Input!InputIsHeard

===============================================================================
