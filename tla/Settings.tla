------------------------------ MODULE Settings -------------------------------
(***************************************************************************)
(* The settings that the service observes: SettingHelper on SettingProvider*)
(* (a table of the settings application, of each user or of all), their    *)
(* observers, and what the service keeps of them: the wake-up switches and *)
(* the display-off time, which a client may override for a while.  An      *)
(* observer's update function runs on a thread of its own and reads the    *)
(* setting before it applies it.                                           *)
(***************************************************************************)
EXTENDS Naturals, FiniteSets

CONSTANTS
    Users,      \* the operating system's accounts
    Times,      \* the display-off times that a setting may hold
    DEFAULT_DISPLAY_OFF_TIME_MS, \* DEFAULT_AC_/DEFAULT_DC_DISPLAY_OFF_TIME_MS, one of Times
    SettingChanges, \* bound: what happens in a behaviour: rows that change, "account", "supply",
                    \* "call", and "overlap" if updates of the display-off time run together
    MaxUpdates      \* bound: so many of them

VARIABLES
    chargingType,   \* the build has POWER_MANAGER_ENABLE_CHARGING_TYPE_SETTING
    active,         \* external: the active account
    currentUserId,  \* currentUserId_
    store,          \* external: the settings, [ key -> [ owner -> value ] ]
    observer,       \* the owners of the URI that a key's observer is registered for, {} for nullptr
    updates,        \* the threads that run an update function, and what they have read
    wakeupSource,   \* the switches in the wake-up configuration
    displayOffTime, \* displayOffTime_
    override,       \* isScreenOffTimeOverride_
    beforeOverride, \* g_beforeOverrideTime
    connectedAc,    \* powerConnectStatus_ is POWER_CONNECT_AC
    handler,        \* where the boot callback or the common-event handler is
    changes,        \* bound: what happens in this behaviour
    toHandle,       \* external: COMMON_EVENT_USER_SWITCHED is on its way
    caller,         \* the call that sets the display-off time: where it is, and the time it has read
    disturbed,      \* history: a registration or a switch's read failed, or two of a switch's updates overlapped
    lost            \* history: since an update began alone, one of the display-off time was overtaken

vars == << chargingType, active, currentUserId, store, observer, updates, wakeupSource,
           displayOffTime, override, beforeOverride, connectedAc, handler, changes, toHandle, caller,
           disturbed, lost >>
given == << chargingType, changes >>
display == << displayOffTime, override, beforeOverride, caller, lost >>

\* The double-click switch stands for the pick-up switch too: same functions, other keys.
Switches == { "double" }
OffTimeKeys == IF chargingType THEN { "ac", "dc" } ELSE { "off" }
Keys == Switches \cup { "ac", "dc", "off" }
Missing == 0     \* the row is not there
TooShort == 1    \* a value of at most MIN_DISPLAY_OFF_TIME_MS

\* needMultiUserStrMap: the keys of which each user has a row.
IsNeedMultiUser(k) == k # "off"
AssembleUri(k) == IF IsNeedMultiUser(k) THEN currentUserId ELSE "all"
Owners == Users \cup { "all" }

NoCall == [ at |-> "idle", saved |-> Missing ]

TypeOK ==
    /\ chargingType \in BOOLEAN /\ connectedAc \in BOOLEAN /\ override \in BOOLEAN
    /\ toHandle \in BOOLEAN /\ disturbed \in BOOLEAN
    /\ active \in Users /\ currentUserId \in Users
    /\ store \in [ Keys -> [ Owners -> Times \cup { Missing, TooShort } ] ]
    /\ observer \in [ Keys -> SUBSET Owners ]
    /\ updates \subseteq [ key : Keys, read : { "no", "system", "value", "keep", "before", "set" },
                           value : Times \cup { Missing, TooShort }, seen : Times \cup { Missing } ]
    /\ caller \in [ at : { "idle", "flag", "save", "override", "restore", "unset", "write" },
                    saved : Times \cup { Missing } ]
    /\ lost \in BOOLEAN
    /\ wakeupSource \in [ Switches -> BOOLEAN ]
    /\ displayOffTime \in Times /\ beforeOverride \in Times
    /\ changes \in SettingChanges
    /\ handler \in { "boot", "display", "subscribe", "keys", "idle", "unregistered", "updated" }

\* Every row has its first value; the account that is active may not be the default one.  Where the
\* supply stays as it is, its row is the one that changes; where the account does, one will do.
Init ==
    /\ chargingType \in BOOLEAN /\ active \in Users /\ currentUserId \in Users
    /\ store = [ k \in Keys |-> [ o \in Owners |-> IF k \in Switches THEN 1 ELSE Missing ] ]
    /\ observer = [ k \in Keys |-> {} ] /\ updates = {}
    /\ wakeupSource = [ k \in Switches |-> TRUE ]
    /\ displayOffTime = DEFAULT_DISPLAY_OFF_TIME_MS /\ override = FALSE
    /\ beforeOverride = DEFAULT_DISPLAY_OFF_TIME_MS
    /\ connectedAc \in IF chargingType THEN BOOLEAN ELSE { FALSE }
    /\ handler = "boot" /\ toHandle = FALSE /\ disturbed = FALSE
    /\ caller = NoCall /\ lost = FALSE
    /\ changes \in SettingChanges /\ changes \cap Keys \subseteq Switches \cup OffTimeKeys
    /\ "supply" \notin changes => connectedAc = ("ac" \in changes)
    /\ "account" \notin changes => active = (CHOOSE u \in Users : TRUE)

-------------------------------------------------------------------------------
(* SettingProvider and SettingHelper *)

Thread(k) == [ key |-> k, read |-> "no", value |-> Missing, seen |-> Missing ]

\* The observer of k, if it is registered for the owner's row, is told of the change.
Notified(k, owner) == IF owner \in observer[k] THEN { Thread(k) } ELSE {}

GetStringValue(k) == store[k][AssembleUri(k)]

PutStringValue(ks, v) ==
    /\ store' = [ k \in Keys |-> IF k \in ks THEN [ store[k] EXCEPT ![AssembleUri(k)] = v ]
                                 ELSE store[k] ]
    /\ updates' = updates \cup UNION { Notified(k, AssembleUri(k)) : k \in ks }

IsSettingKeyValid(v) == v # Missing

\* The switch is open if the row holds WAKEUP_SOURCE_OPEN.
GetSettingWakeupSwitch(v) == v = 1

\* A time too short, or none, leaves the default value the caller gave.
GetSettingDisplayOffTime(v, defaultVal) == IF v \in { Missing, TooShort } THEN defaultVal ELSE v

\* The observer's update function is run once by a thread of its own.
RegisterObserver(ks) ==
    /\ observer' = [ k \in Keys |-> IF k \in ks THEN { AssembleUri(k) } ELSE observer[k] ]
    /\ updates' = updates \cup { Thread(k) : k \in ks }

\* An observer that is registered stays.  Registering fails if no helper can be made: the
\* observer stays nullptr, and nobody tries again.
RegisterSettingKeyObserver(ks) ==
    LET missing == { k \in ks : observer[k] = {} }
    IN  \/ RegisterObserver(missing) /\ UNCHANGED disturbed
        \/ /\ missing # {}
           /\ disturbed' = TRUE /\ UNCHANGED << observer, updates >>

UnregisterSettingObserver(ks) ==
    observer' = [ k \in Keys |-> IF k \in ks THEN {} ELSE observer[k] ]

\* The current user's rows that are invalid get the default.
UpdateSettingInvalidDisplayOffTime(s, u) ==
    [ k \in Keys |-> IF chargingType /\ k \in { "ac", "dc" } /\ ~IsSettingKeyValid(s[k][u])
                     THEN [ s[k] EXCEPT ![u] = DEFAULT_DISPLAY_OFF_TIME_MS ] ELSE s[k] ]

-------------------------------------------------------------------------------
(* The update functions *)

\* The row for the charging state, or the only one.
OffTimeKey == IF ~chargingType THEN "off" ELSE IF connectedAc THEN "ac" ELSE "dc"

Overlaps(t) == \E x \in updates \ {t} : x.key = t.key /\ x.read = "value"

\* Thread t goes on as u.
Goes(t, u) == updates' = (updates \ {t}) \cup {u}

\* The switches' functions read the row, then change the configuration.
SwitchUpdateReads(t) ==
    /\ t \in updates /\ t.key \in Switches /\ t.read = "no"
    /\ \/ /\ Goes(t, [ t EXCEPT !.read = "value", !.value = GetStringValue(t.key) ])
          /\ disturbed' = (disturbed \/ Overlaps(t))
       \/ \* the read fails, and the value is 0
          /\ Goes(t, [ t EXCEPT !.read = "value" ]) /\ disturbed' = TRUE
    /\ UNCHANGED << given, active, currentUserId, store, observer, wakeupSource, display,
                    connectedAc, handler, toHandle >>

WakeupSettingUpdateFunc(t) ==
    /\ t \in updates /\ t.key \in Switches /\ t.read = "value"
    /\ wakeupSource' = [ wakeupSource EXCEPT ![t.key] = GetSettingWakeupSwitch(t.value) ]
    /\ updates' = updates \ {t}
    /\ UNCHANGED << given, active, currentUserId, store, observer, display, connectedAc,
                    handler, toHandle, disturbed >>

\* DisplayOffTimeUpdateFunc reads the time in force, reads the setting, looks whether a client
\* overrides, and assigns, with no lock; other updates and calls come in between.  The history
\* forgets what was lost before when an update begins that nothing else is in the middle of.
Begun == { t \in updates : t.key \in OffTimeKeys /\ t.read # "no" }

DisplayOffTimeUpdateFunc(t) ==
    /\ t \in updates /\ t.key \in OffTimeKeys /\ t.read = "no"
    /\ Cardinality(Begun) < IF "overlap" \in changes THEN MaxUpdates ELSE 1
    /\ Goes(t, [ t EXCEPT !.read = "system", !.seen = displayOffTime ])
    /\ lost' = (Begun # {} \/ caller.at # "idle")
    /\ UNCHANGED << given, active, currentUserId, store, observer, wakeupSource, displayOffTime,
                    override, beforeOverride, connectedAc, handler, toHandle, caller, disturbed >>

\* The supply and its row; the time in force if the row holds none or cannot be read.
GetSettingTime(t) ==
    /\ t \in updates /\ t.read = "system"
    /\ \/ /\ Goes(t, [ t EXCEPT !.read = "value",
                               !.value = GetSettingDisplayOffTime(GetStringValue(OffTimeKey), t.seen) ])
          /\ UNCHANGED lost
       \/ Goes(t, [ t EXCEPT !.read = "value", !.value = t.seen ]) /\ lost' = TRUE
    /\ UNCHANGED << given, active, currentUserId, store, observer, wakeupSource, displayOffTime,
                    override, beforeOverride, connectedAc, handler, toHandle, caller, disturbed >>

\* A build with charging types keeps the setting for the end of an override.  Otherwise there is
\* nothing to do if the setting is in force; if a client overrides with that very time, the
\* setting is forgotten at the end of the override.
CheckOverride(t) ==
    /\ t \in updates /\ t.key \in OffTimeKeys /\ t.read = "value"
    /\ IF chargingType /\ override THEN Goes(t, [ t EXCEPT !.read = "keep", !.seen = Missing ]) /\ UNCHANGED lost
       ELSE IF t.value = t.seen THEN updates' = updates \ {t} /\ lost' = (lost \/ override)
       ELSE Goes(t, [ t EXCEPT !.read = "before", !.seen = Missing ]) /\ UNCHANGED lost
    /\ UNCHANGED << given, active, currentUserId, store, observer, wakeupSource, displayOffTime,
                    override, beforeOverride, connectedAc, handler, toHandle, caller, disturbed >>

\* A mutant of KeepBeforeOverride: what was read while a client overrides is dropped.
KeepBeforeOverride_Dropped(t) ==
    /\ t \in updates /\ t.read = "keep" /\ updates' = updates \ {t}
    /\ UNCHANGED << given, active, currentUserId, store, observer, wakeupSource, display,
                    connectedAc, handler, toHandle, disturbed >>

KeepBeforeOverride(t) ==
    /\ t \in updates /\ t.read = "keep" /\ updates' = updates \ {t}
    /\ beforeOverride' = t.value
    /\ UNCHANGED << given, active, currentUserId, store, observer, wakeupSource, displayOffTime,
                    override, connectedAc, handler, toHandle, caller, disturbed, lost >>

SetBeforeOverride(t) ==
    /\ t \in updates /\ t.read = "before" /\ Goes(t, [ t EXCEPT !.read = "set" ])
    /\ beforeOverride' = t.value
    /\ UNCHANGED << given, active, currentUserId, store, observer, wakeupSource, displayOffTime,
                    override, connectedAc, handler, toHandle, caller, disturbed, lost >>

ApplySetting(t) ==
    /\ t \in updates /\ t.read = "set" /\ updates' = updates \ {t}
    /\ displayOffTime' = t.value
    /\ UNCHANGED << given, active, currentUserId, store, observer, wakeupSource, override,
                    beforeOverride, connectedAc, handler, toHandle, caller, disturbed, lost >>

-------------------------------------------------------------------------------
(* The display-off time.  screenMutex_ orders the clients' calls among        *)
(* themselves, not against the updates; a power mode's call is not made in    *)
(* the middle of one.                                                         *)

Calls(at, saved) ==
    /\ caller.at = "idle" /\ handler # "boot" /\ "call" \in changes
    /\ caller' = [ at |-> at, saved |-> saved ]
    /\ lost' = (lost \/ Begun # {})
    /\ UNCHANGED << given, active, currentUserId, store, observer, updates, wakeupSource, override,
                    beforeOverride, connectedAc, handler, toHandle, disturbed >>

OverrideScreenOffTime ==
    /\ IF override THEN Calls("override", Missing) ELSE Calls("flag", displayOffTime)
    /\ UNCHANGED displayOffTime

RestoreScreenOffTime == override /\ Calls("restore", beforeOverride) /\ UNCHANGED displayOffTime

\* A power mode's time (needUpdateSetting); it does not look at an override.
SetDisplayOffTime(time) == handler = "idle" /\ Calls("write", Missing) /\ displayOffTime' = time

\* The steps that follow.
OverrideScreenOffTimeInner ==
    /\ \/ /\ caller.at = "flag" /\ caller' = [ caller EXCEPT !.at = "save" ]
          /\ override' = TRUE /\ UNCHANGED << beforeOverride, displayOffTime >>
       \/ /\ caller.at = "save" /\ caller' = [ at |-> "override", saved |-> Missing ]
          /\ beforeOverride' = caller.saved /\ UNCHANGED << override, displayOffTime >>
       \/ /\ caller.at = "override" /\ caller' = NoCall
          /\ \E time \in Times : displayOffTime' = time
          /\ UNCHANGED << override, beforeOverride >>
    /\ UNCHANGED << given, active, currentUserId, store, observer, updates, wakeupSource, connectedAc,
                    handler, toHandle, disturbed, lost >>

RestoreScreenOffTimeInner ==
    /\ \/ /\ caller.at = "restore" /\ caller' = [ at |-> "unset", saved |-> Missing ]
          /\ displayOffTime' = caller.saved /\ UNCHANGED override
       \/ /\ caller.at = "unset" /\ caller' = NoCall
          /\ override' = FALSE /\ UNCHANGED displayOffTime
    /\ UNCHANGED << given, active, currentUserId, store, observer, updates, wakeupSource,
                    beforeOverride, connectedAc, handler, toHandle, disturbed, lost >>

\* The time that is in force by then is written to the settings, to both rows with charging types.
SetSettingDisplayOffTime ==
    /\ caller.at = "write" /\ caller' = NoCall
    /\ PutStringValue(OffTimeKeys, displayOffTime)
    /\ UNCHANGED << given, active, currentUserId, observer, wakeupSource, displayOffTime, override,
                    beforeOverride, connectedAc, handler, toHandle, disturbed, lost >>

-------------------------------------------------------------------------------
(* The boot callback and the common events *)

\* CopyDataForUpdateScene finds nothing to copy: the old global rows are not modelled.
\* QueryActiveOsAccountIds may fail, and the user stays the one it was.
BootCompleted ==
    /\ handler = "boot" /\ handler' = "display"
    /\ \/ currentUserId' = active /\ UNCHANGED disturbed
       \/ UNCHANGED currentUserId /\ disturbed' = (disturbed \/ currentUserId # active)
    /\ store' = UpdateSettingInvalidDisplayOffTime(store, currentUserId')
    /\ UNCHANGED << given, active, observer, updates, wakeupSource, display, connectedAc,
                    toHandle >>

RegisterDisplayOffTimeObserver ==
    /\ handler = "display" /\ handler' = "subscribe"
    /\ RegisterSettingKeyObserver(OffTimeKeys)
    /\ UNCHANGED << given, active, currentUserId, store, wakeupSource, display, connectedAc,
                    toHandle >>

\* A switch of the user that was published before this is not received.
SubscribeCommonEvent ==
    /\ handler = "subscribe" /\ handler' = "keys"
    /\ disturbed' = (disturbed \/ currentUserId # active)
    /\ UNCHANGED << given, active, currentUserId, store, observer, updates, wakeupSource,
                    display, connectedAc, toHandle >>

PowerExternalAbilityInit ==
    /\ handler = "keys" /\ handler' = "idle"
    /\ RegisterSettingKeyObserver(Switches)
    /\ UNCHANGED << given, active, currentUserId, store, wakeupSource, display, connectedAc,
                    toHandle >>

MultiUserKeys == Switches \cup IF chargingType THEN { "ac", "dc" } ELSE {}

\* A mutant of UnregisterAllSettingObserver: the old user's observers of the switches stay.
UnregisterAllSettingObserver_NotSwitches ==
    UnregisterSettingObserver(MultiUserKeys \ Switches)

UnregisterAllSettingObserver == UnregisterSettingObserver(MultiUserKeys)

\* COMMON_EVENT_USER_SWITCHED, in three steps.
UserSwitched ==
    /\ handler = "idle" /\ toHandle
    /\ handler' = "unregistered" /\ toHandle' = FALSE
    /\ UnregisterAllSettingObserver
    /\ UNCHANGED << given, active, currentUserId, store, updates, wakeupSource, display,
                    connectedAc, disturbed >>

UpdateCurrentUserId ==
    /\ handler = "unregistered" /\ handler' = "updated"
    /\ \/ currentUserId' = active /\ UNCHANGED disturbed
       \/ UNCHANGED currentUserId /\ disturbed' = TRUE
    /\ UNCHANGED << given, active, store, observer, updates, wakeupSource, display,
                    connectedAc, toHandle >>

RegisterAllSettingObserver ==
    /\ handler = "updated" /\ handler' = "idle"
    /\ store' = UpdateSettingInvalidDisplayOffTime(store, currentUserId)
    /\ RegisterSettingKeyObserver(MultiUserKeys)
    /\ UNCHANGED << given, active, currentUserId, wakeupSource, display, connectedAc,
                    toHandle >>

\* COMMON_EVENT_POWER_CONNECTED and _DISCONNECTED.
OnPowerConnectStatusChanged ==
    /\ chargingType /\ handler = "idle" /\ "supply" \in changes
    /\ connectedAc' = ~connectedAc
    /\ updates' = updates \cup { Thread(IF connectedAc' THEN "ac" ELSE "dc") }
    /\ UNCHANGED << given, active, currentUserId, store, observer, wakeupSource, display,
                    handler, toHandle, disturbed >>

-------------------------------------------------------------------------------
(* External: the settings application and the accounts *)

UserChangesSetting ==
    \E k \in changes \cap Keys :
    \E v \in (IF k \in Switches THEN { 0, 1 } ELSE Times \cup { TooShort }) :
    LET owner == IF IsNeedMultiUser(k) THEN active ELSE "all" IN
        /\ v # store[k][owner]
        /\ store' = [ store EXCEPT ![k][owner] = v ]
        /\ updates' = updates \cup Notified(k, owner)
        /\ UNCHANGED << given, active, currentUserId, observer, wakeupSource, display,
                        connectedAc, handler, toHandle, disturbed >>

\* The next switch of the user is published when the last one has been received.
SwitchUser ==
    /\ "account" \in changes /\ ~toHandle
    /\ \E u \in Users \ {active} : active' = u
    /\ toHandle' = (handler \notin { "boot", "display", "subscribe" })
    /\ disturbed' = (disturbed \/ handler = "unregistered")
    /\ UNCHANGED << given, currentUserId, store, observer, updates, wakeupSource, display,
                    connectedAc, handler >>

Next ==
    \/ \E t \in updates : \/ SwitchUpdateReads(t) \/ WakeupSettingUpdateFunc(t)
                          \/ DisplayOffTimeUpdateFunc(t) \/ GetSettingTime(t) \/ CheckOverride(t)
                          \/ KeepBeforeOverride(t) \/ SetBeforeOverride(t) \/ ApplySetting(t)
    \/ OverrideScreenOffTime \/ RestoreScreenOffTime
    \/ \E time \in Times : SetDisplayOffTime(time)
    \/ OverrideScreenOffTimeInner \/ RestoreScreenOffTimeInner \/ SetSettingDisplayOffTime
    \/ BootCompleted \/ RegisterDisplayOffTimeObserver \/ SubscribeCommonEvent
    \/ PowerExternalAbilityInit
    \/ UserSwitched \/ UpdateCurrentUserId \/ RegisterAllSettingObserver
    \/ OnPowerConnectStatusChanged
    \/ UserChangesSetting \/ SwitchUser

Spec == Init /\ [][Next]_vars

-------------------------------------------------------------------------------
\* When the service has caught up with everything it was told.
Quiet == handler = "idle" /\ updates = {} /\ ~toHandle /\ ~disturbed

(* No change of a wake-up switch is lost, and none of another user's counts:  *)
(* once all threads have run, the configuration has the active user's values, *)
(* whatever changes and user switches came in between                         *)
(* (WakeupDoubleClickSettingUpdateFunc, OnReceiveEvent).                      *)
SwitchesFollowUser ==
    Quiet => \A k \in Switches : wakeupSource[k] = GetSettingWakeupSwitch(store[k][active])

(* The same of the display-off time when no client overrides it: an override  *)
(* that ends gives the time that the settings hold by then                    *)
(* (RestoreScreenOffTimeInner, DisplayOffTimeUpdateFunc).  An update that     *)
(* another one or a client's call overtakes may lose a change; the next one   *)
(* that runs alone makes up for it.  A row that holds no usable time says     *)
(* nothing.                                                                   *)
OffTimeFollowsSetting ==
    Quiet /\ ~override /\ caller.at = "idle" /\ ~lost =>
        displayOffTime = GetSettingDisplayOffTime(GetStringValue(OffTimeKey), displayOffTime)

=============================================================================
