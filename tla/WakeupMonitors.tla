--------------------------- MODULE WakeupMonitors ----------------------------
(***************************************************************************)
(* The wake-up sources of WakeupController: a JSON object in the settings  *)
(* says which of them are enabled; a switch of the settings (double click, *)
(* lid) is written through to that object, and every change of the object  *)
(* makes the monitors anew, of which the power key's subscribes the key.   *)
(***************************************************************************)
EXTENDS Naturals, FiniteSets

CONSTANTS
    ConfigOn,  \* the sources that the configuration file enables, of JsonKeys
    Click,     \* "click" of the touch screen in the configuration file
    MaxSubscriptions, \* bound: subscriptions of the power key
    MaxUpdates        \* bound: changes wait while so many update threads run

VARIABLES
    json,        \* external: SETTING_POWER_WAKEUP_SOURCES_KEY of the current user
    row,         \* external: the rows of the double-click and the lid switch
    updates,     \* threads that run an update function of an observer
    sourceUpdateMutex, \* sourceUpdateMutex_: the thread that holds it
    keysObserver,   \* g_wakeupSourcesKeyObserver is registered
    switchObserver, \* the observers of the switches are registered
    handler,     \* where the boot or the common-event thread is
    parsed,      \* what its WakeupSourceParser::ParseSources has read
    monitorMap,  \* monitorMap_
    shortPressId,    \* powerkeyShortPressId_ of the monitor in monitorMap_, 0 for -1
    shortPressCache, \* g_powerkeyShortPressIdCache
    live,        \* external: the power key's subscriptions at the input service
    lastId,      \* external: the last id it gave
    disturbed    \* history: the object was written by two at once, a subscription failed, or
                 \* Init found no source to monitor

vars == << json, row, updates, sourceUpdateMutex, keysObserver, switchObserver, handler, parsed,
           monitorMap, shortPressId, shortPressCache, live, lastId, disturbed >>
settings == << json, row, updates, sourceUpdateMutex, keysObserver, switchObserver >>
monitors == << monitorMap, shortPressId, shortPressCache, live, lastId >>

JsonKeys == { "powerkey", "keyboard", "mouse", "touchscreen", "lid" }
Rows == { "touchscreen", "lid" }
Missing == 2

\* WakeupSources::mapWakeupDeviceType: the reason that a key of the object stands for.
mapWakeupDeviceType(k, click) ==
    CASE k = "powerkey" -> "POWER_BUTTON"
      [] k = "keyboard" -> "KEYBOARD"
      [] k = "mouse" -> "MOUSE"
      [] k = "lid" -> "LID"
      [] k = "touchscreen" /\ click = 1 -> "SINGLE_CLICK"
      [] k = "touchscreen" /\ click # 1 -> "DOUBLE_CLICK"

Reasons == { "POWER_BUTTON", "KEYBOARD", "MOUSE", "LID", "SINGLE_CLICK", "DOUBLE_CLICK" }
Objects == [ state : { "none", "bad", "ok" }, on : SUBSET JsonKeys ]
ConfigFile == [ state |-> "ok", on |-> ConfigOn ]

TypeOK ==
    /\ json \in Objects /\ parsed \in Objects
    /\ row \in [ Rows -> { 0, 1, Missing } ]
    /\ updates \subseteq [ func : { "sources" } \cup Rows, pc : { "start", "enable", "object" },
                           enable : BOOLEAN, object : Objects ]
    /\ sourceUpdateMutex \in SUBSET Rows /\ Cardinality(sourceUpdateMutex) <= 1
    /\ { keysObserver, switchObserver, disturbed } \subseteq BOOLEAN
    /\ handler \in { "init", "parsed", "register", "idle", "reinit", "reparsed" }
    /\ monitorMap \subseteq Reasons
    /\ shortPressId \in 0..MaxSubscriptions /\ shortPressCache \in 0..MaxSubscriptions
    /\ live \subseteq 1..MaxSubscriptions /\ lastId \in 0..MaxSubscriptions

\* The settings hold nothing yet, a text that does not parse, or an earlier object.
Init ==
    /\ json \in { [ state |-> "none", on |-> {} ], [ state |-> "bad", on |-> {} ], ConfigFile }
    /\ row = [ k \in Rows |-> IF json.state = "ok" THEN (IF k \in json.on THEN 1 ELSE 0) ELSE Missing ]
    /\ updates = {} /\ sourceUpdateMutex = {} /\ keysObserver = FALSE /\ switchObserver = FALSE
    /\ handler = "init" /\ parsed = json
    /\ monitorMap = {} /\ shortPressId = 0 /\ shortPressCache = 0 /\ live = {} /\ lastId = 0
    /\ disturbed = FALSE

-------------------------------------------------------------------------------
(* WakeupSourceParser *)

Thread(f) == [ func |-> f, pc |-> "start", enable |-> FALSE, object |-> [ state |-> "none", on |-> {} ] ]

\* What SetSettingWakeupSources and the setters of the switches start.
SourcesThread == IF keysObserver THEN { Thread("sources") } ELSE {}
RowThreads(ks) == IF switchObserver THEN { Thread(k) : k \in ks } ELSE {}

\* A text that is missing or does not parse is replaced by the configuration file.
ParseSources(object) == IF object.state = "ok" THEN object ELSE ConfigFile

\* The sources of the list are those that are enabled.
SourceList(object) == { mapWakeupDeviceType(k, Click) : k \in object.on }

\* ParseSourcesProc and SetOriginSettingValue: a switch that has no row yet gets one.
SetOriginSettingValue(object) ==
    [ k \in Rows |-> IF row[k] # Missing THEN row[k] ELSE IF k \in object.on THEN 1 ELSE 0 ]

-------------------------------------------------------------------------------
(* The monitors *)

SubscribePowerkey(kept) ==
    /\ live' = (live \ (kept \cup { shortPressCache })) \cup { lastId + 1 }
    /\ lastId' = lastId + 1 /\ shortPressCache' = lastId + 1

SubscribePowerkeyFails(kept) ==
    /\ live' = live \ (kept \cup { shortPressCache })
    /\ lastId' = lastId /\ shortPressCache' = 0

\* CreateMonitor and Init for every source of the list; monitorMap_ keeps a monitor that
\* it has (emplace), and with it the id of the old one.  first is what monitorMap_ holds
\* before, gone are the subscriptions that Cancel gave up.
CreateMonitors(list, first, gone) ==
    IF "POWER_BUTTON" \in list
    THEN \/ /\ SubscribePowerkey(gone)
            /\ monitorMap' = first \cup list
            /\ shortPressId' = IF "POWER_BUTTON" \in first THEN shortPressId ELSE lastId + 1
         \/ /\ SubscribePowerkeyFails(gone)
            /\ monitorMap' = first \cup (list \ { "POWER_BUTTON" })
            /\ shortPressId' = IF "POWER_BUTTON" \in first THEN shortPressId ELSE 0
    ELSE /\ monitorMap' = first \cup list
         /\ live' = live \ gone /\ shortPressId' = IF first = {} THEN 0 ELSE shortPressId
         /\ UNCHANGED << lastId, shortPressCache >>

\* The subscription failed.
Failed(list) == "POWER_BUTTON" \in list /\ lastId' = lastId

\* The update function of g_wakeupSourcesKeyObserver, under monitorMutex_.  An empty list
\* changes nothing.
SourcesUpdateFunc(t) ==
    LET list == SourceList(ParseSources(json)) IN
    /\ t \in updates /\ t.func = "sources" /\ handler \notin { "parsed", "reparsed" }
    /\ lastId < MaxSubscriptions
    /\ updates' = updates \ {t}
    /\ IF list = {} THEN UNCHANGED << monitors, disturbed >>
       ELSE /\ CreateMonitors(list, {}, { shortPressId })
            /\ disturbed' = (disturbed \/ Failed(list))
    /\ UNCHANGED << json, row, sourceUpdateMutex, keysObserver, switchObserver, handler, parsed >>

\* WakeupController::Init, under monitorMutex_: ParseSources reads the object ...
InitParses ==
    /\ handler \in { "init", "reinit" }
    /\ handler' = IF handler = "init" THEN "parsed" ELSE "reparsed"
    /\ parsed' = ParseSources(json)
    /\ UNCHANGED << settings, monitors, disturbed >>

\* ... and writes it back, without sourceUpdateMutex_; then the monitors are made, in
\* addition to those of an earlier user, and the observer is registered.  Init returns before
\* when no source is enabled: then nobody sees the source that the user turns on later.
InitMonitors ==
    LET list == SourceList(parsed) IN
    /\ handler \in { "parsed", "reparsed" } /\ lastId < MaxSubscriptions
    /\ handler' = IF handler = "parsed" THEN "register" ELSE "idle"
    /\ json' = parsed
    /\ row' = SetOriginSettingValue(parsed)
    /\ IF list = {} THEN UNCHANGED << monitors, keysObserver >>
       ELSE CreateMonitors(list, monitorMap, {}) /\ keysObserver' = TRUE
    /\ updates' = updates \cup (IF list = {} THEN {} ELSE { Thread("sources") })
                          \cup RowThreads({ k \in Rows : row'[k] # row[k] })
    /\ disturbed' = (disturbed \/ list = {} \/ Failed(list) \/ parsed # ParseSources(json)
                               \/ sourceUpdateMutex # {})
    /\ UNCHANGED << sourceUpdateMutex, switchObserver, parsed >>

\* PowerExternalAbilityInit registers the observers of the switches.
RegisterSwitchObservers ==
    /\ handler = "register" /\ handler' = "idle"
    /\ switchObserver' = TRUE
    /\ updates' = updates \cup { Thread(k) : k \in Rows }
    /\ UNCHANGED << json, row, sourceUpdateMutex, keysObserver, parsed, monitors, disturbed >>

-------------------------------------------------------------------------------
(* WakeupDoubleClickSettingUpdateFunc and WakeupLidSettingUpdateFunc *)

ReadSwitch(t) ==
    /\ t \in updates /\ t.func \in Rows /\ t.pc = "start"
    /\ updates' = (updates \ {t}) \cup { [ t EXCEPT !.pc = "enable", !.enable = row[t.func] = 1 ] }
    /\ disturbed' = (disturbed \/ \E x \in updates : x.func = t.func /\ x.pc # "start")
    /\ UNCHANGED << json, row, sourceUpdateMutex, keysObserver, switchObserver, handler, parsed,
                    monitors >>

\* A mutant of ChangeWakeupSourceConfig: sourceUpdateMutex_ is not taken.
ChangeWakeupSourceConfig_Unlocked(t) ==
    /\ t \in updates /\ t.func \in Rows /\ t.pc = "enable"
    /\ UNCHANGED sourceUpdateMutex
    /\ updates' = (updates \ {t}) \cup { [ t EXCEPT !.pc = "object", !.object = json ] }
    /\ UNCHANGED << json, row, keysObserver, switchObserver, handler, parsed, monitors, disturbed >>

\* ChangeWakeupSourceConfig and ChangeLidWakeupSourceConfig read the object under the mutex ...
ChangeWakeupSourceConfig(t) ==
    /\ t \in updates /\ t.func \in Rows /\ t.pc = "enable"
    /\ sourceUpdateMutex = {} /\ sourceUpdateMutex' = { t.func }
    /\ updates' = (updates \ {t}) \cup { [ t EXCEPT !.pc = "object", !.object = json ] }
    /\ UNCHANGED << json, row, keysObserver, switchObserver, handler, parsed, monitors, disturbed >>

\* ... and write it with the source enabled or disabled, if that is a change.  The lid's
\* node may have no "enable", which counts as enabled.
Enabled(object, k, enable) == [ object EXCEPT !.on = IF enable THEN @ \cup {k} ELSE @ \ {k} ]
WakeupParseJsonConfig(object, enable) == Enabled(object, "touchscreen", enable)
LidWakeupParseJsonConfig(object, enable) == Enabled(object, "lid", enable)

SetSettingWakeupSources(t) ==
    LET new == IF t.func = "lid" THEN LidWakeupParseJsonConfig(t.object, t.enable)
               ELSE WakeupParseJsonConfig(t.object, t.enable)
    IN
    /\ t \in updates /\ t.func \in Rows /\ t.pc = "object"
    /\ sourceUpdateMutex' = sourceUpdateMutex \ { t.func }
    /\ IF t.object.state = "ok" /\ new # t.object
       THEN json' = new /\ updates' = (updates \ {t}) \cup SourcesThread
       ELSE updates' = updates \ {t} /\ UNCHANGED json
    \* a switch that meets no object is forgotten
    /\ disturbed' = (disturbed \/ (t.object.state # "ok" /\ t.enable # (t.func \in ConfigOn)))
    /\ UNCHANGED << row, keysObserver, switchObserver, handler, parsed, monitors >>

-------------------------------------------------------------------------------
(* External: the settings application and the switch of the user *)

UserTurnsSwitch(k) ==
    /\ switchObserver /\ row[k] # Missing /\ Cardinality(updates) < MaxUpdates
    /\ row' = [ row EXCEPT ![k] = 1 - @ ]
    /\ updates' = updates \cup RowThreads({k})
    /\ UNCHANGED << json, sourceUpdateMutex, keysObserver, switchObserver, handler, parsed, monitors, disturbed >>

\* Another source of the object is turned on or off.
UserChangesSources(k) ==
    /\ handler = "idle" /\ json.state = "ok" /\ k \notin Rows
    /\ Cardinality(updates) < MaxUpdates
    /\ json' = [ json EXCEPT !.on = IF k \in @ THEN @ \ {k} ELSE @ \cup {k} ]
    /\ updates' = updates \cup SourcesThread
    /\ disturbed' = (disturbed \/ sourceUpdateMutex # {})
    /\ UNCHANGED << row, sourceUpdateMutex, keysObserver, switchObserver, handler, parsed, monitors >>

\* COMMON_EVENT_USER_SWITCHED: the other user has a double-click switch and an object of their
\* own, or none yet; the observers are registered anew, and WakeupControllerInit follows.
UserSwitched ==
    /\ handler = "idle" /\ handler' = "reinit" /\ Cardinality(updates) < MaxUpdates
    /\ \E on \in SUBSET { "mouse" } :
       \E double \in { 0, 1, Missing } :
          /\ row' = [ row EXCEPT !["touchscreen"] = double ]
          /\ json' = IF double = Missing THEN [ state |-> "none", on |-> {} ]
                     ELSE [ state |-> "ok",
                            on |-> { "powerkey" } \cup on
                                   \cup (IF double = 1 THEN { "touchscreen" } ELSE {})
                                   \cup (IF row["lid"] = 1 THEN { "lid" } ELSE {}) ]
    /\ keysObserver' = FALSE
    /\ updates' = updates \cup { Thread("touchscreen") }
    \* the lid's row is the same for all users, and its observer is not run again
    /\ disturbed' = (disturbed \/ (\E t \in updates : t.func \in Rows)
                      \/ (json'.state = "none" /\ (row["lid"] = 1) # ("lid" \in ConfigOn)))
    /\ UNCHANGED << sourceUpdateMutex, switchObserver, parsed, monitors >>

Next ==
    \/ \E t \in updates : \/ SourcesUpdateFunc(t) \/ ReadSwitch(t) \/ ChangeWakeupSourceConfig(t)
                          \/ SetSettingWakeupSources(t)
    \/ InitParses \/ InitMonitors \/ RegisterSwitchObservers
    \/ \E k \in Rows : UserTurnsSwitch(k)
    \/ UserChangesSources("mouse") \/ UserSwitched

Spec == Init /\ [][Next]_vars

-------------------------------------------------------------------------------
(* Once every thread has run, the monitors are those of the enabled sources,  *)
(* and the sources that have a switch of their own are enabled as the switch  *)
(* says: no switch is lost between two observers that write the same object,  *)
(* and no monitor of an earlier user is left                                  *)
(* (ChangeWakeupSourceConfig, RegisterSettingsObserver).                      *)
MonitorsFollowSettings ==
    handler = "idle" /\ updates = {} /\ ~disturbed /\ json.on # {} =>
        /\ monitorMap = SourceList(json)
        /\ \A k \in Rows : k \in ConfigOn \cup json.on => (k \in json.on) = (row[k] = 1)

==============================================================================
