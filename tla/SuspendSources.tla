--------------------------- MODULE SuspendSources ----------------------------
(***************************************************************************)
(* The suspend sources of SuspendController: a JSON object of the settings *)
(* gives each source an action.  A device with charging settings has one   *)
(* object for the mains and one for the battery, of each user.  Every      *)
(* change of an object or of the charger makes the monitors anew; the      *)
(* power key's and the cover's subscribe a key at the input service.       *)
(***************************************************************************)
EXTENDS Naturals, FiniteSets

CONSTANTS
    Builds,      \* of { "charging", "plain", "watch" }: the feature macros that matter
    Texts,       \* the objects that a row of the settings may hold
    ConfigFile,  \* power_suspend.json, one of them
    MaxSubscriptions, \* bound: subscriptions of keys
    MaxUpdates        \* bound: changes wait while so many updates are to run

VARIABLES
    build,       \* of Builds
    plugged,     \* external: the battery service's plugged type is mains, USB or wireless
    connectStatus, \* powerConnectStatus_
    row,         \* external: the current user's rows of the objects
    observer,    \* the observers of the rows are registered
    updates,     \* how many threads are to run UpdateSuspendSources
    handler,     \* where the boot or the common-event thread is
    inside,      \* who holds mutex_, with the monitors still to be made; {} for nobody;
                 \* history: stale, the power key is dropped by a monitor that has an old id
    monitorMap,  \* monitorMap_: the action of each source that has a monitor
    releaseId,   \* the subscriptions that the monitors of monitorMap_ know, 0 for -1
    releaseCache,  \* g_powerkeyReleaseIdCache
    live,        \* external: the subscriptions, each with the action of its monitor
    lastId,      \* external: the last id given
    disturbed    \* history: the battery or the input service failed, or Cancel met a stale id

vars == << build, plugged, connectStatus, row, observer, updates, handler, inside, monitorMap,
           releaseId, releaseCache, live, lastId, disturbed >>
settings == << build, plugged, row, observer >>
monitors == << monitorMap, releaseId, releaseCache, live, lastId >>

Keys == { "powerkey", "timeout", "lid", "switch", "tp_cover" }
Reasons == { "POWER_KEY", "TIMEOUT", "LID", "SWITCH", "TP_COVER" }
Subscribed == { "POWER_KEY", "TP_COVER" }
ACTION_INVALID == 6
Rows == { "ac", "dc", "all" }

\* A row that is missing, a text that does not parse.
None == [ state |-> "none", item |-> << >> ]
Bad == [ state |-> "bad", item |-> << >> ]

\* SuspendSources::mapSuspendDeviceType; any other key is SUSPEND_DEVICE_REASON_MIN.
mapSuspendDeviceType(k) ==
    CASE k = "powerkey" -> "POWER_KEY"
      [] k = "timeout" -> "TIMEOUT"
      [] k = "lid" -> "LID"
      [] k = "switch" -> "SWITCH"
      [] k = "tp_cover" -> "TP_COVER"
      [] OTHER -> "MIN"

\* ParseSourcesProc: an action that is no number or too large counts as ACTION_NONE.
ParseSourcesProc(action) == IF action >= ACTION_INVALID THEN 0 ELSE action

\* ParseSources(jsonStr): the sources of an object that parses; unknown keys are left out.
ParseText(text) ==
    LET known == { k \in DOMAIN text.item : mapSuspendDeviceType(k) # "MIN" } IN
    [ r \in { mapSuspendDeviceType(k) : k \in known } |->
        ParseSourcesProc(text.item[CHOOSE k \in known : mapSuspendDeviceType(k) = r]) ]

GetParseErrorFlag(text) == text.state # "ok"

\* An object that does not parse is replaced by the configuration file.
ParseSources(text) == ParseText(IF GetParseErrorFlag(text) THEN ConfigFile ELSE text)

Lists == { ParseSources(t) : t \in Texts }

TypeOK ==
    /\ build \in Builds /\ plugged \in BOOLEAN /\ observer \in BOOLEAN /\ disturbed \in BOOLEAN
    /\ connectStatus \in { "AC", "DC", "INVALID" }
    /\ row \in [ Rows -> Texts \cup { None } ]
    /\ updates \in 0..(MaxUpdates + 2)
    /\ handler \in { "boot", "idle", "switching", "charger" }
    /\ \A x \in inside : x.list \in Lists /\ { x.init, x.stale } \subseteq BOOLEAN
    /\ Cardinality(inside) <= 1
    /\ DOMAIN monitorMap \subseteq Reasons
    /\ releaseId \in [ Subscribed -> 0..MaxSubscriptions ]
    /\ releaseCache \in 0..MaxSubscriptions /\ lastId \in 0..MaxSubscriptions
    /\ live \subseteq [ reason : Subscribed, id : 1..MaxSubscriptions, action : 0..5 ]

\* The rows may be of an earlier start, or not there.
Init ==
    /\ build \in Builds /\ plugged \in BOOLEAN
    /\ connectStatus = "INVALID"
    /\ row \in [ Rows -> { None, Bad, ConfigFile } ]
    /\ \A k \in Rows : (k = "all") = (build = "charging") => row[k] = None
    /\ observer = FALSE /\ updates = 0 /\ handler = "boot" /\ inside = {}
    /\ monitorMap = << >> /\ releaseId = [ r \in Subscribed |-> 0 ] /\ releaseCache = 0
    /\ live = {} /\ lastId = 0 /\ disturbed = FALSE

-------------------------------------------------------------------------------
(* The charger *)

\* PowerConnectStatusInit: what the battery service says, which may fail.
PowerConnectStatusInit ==
    \/ connectStatus' = (IF plugged THEN "AC" ELSE "DC") /\ UNCHANGED disturbed
    \/ connectStatus' = "INVALID" /\ disturbed' = TRUE

\* IsPowerConnected tries again while the status is invalid.
IsPowerConnected ==
    IF build = "charging" /\ connectStatus = "INVALID" THEN PowerConnectStatusInit
    ELSE UNCHANGED << connectStatus, disturbed >>

\* The row that counts: once connectStatus' is known.
RowOf(status) == IF build # "charging" THEN "all" ELSE IF status = "AC" THEN "ac" ELSE "dc"

-------------------------------------------------------------------------------
(* The monitors *)

\* PowerKeySuspendMonitor::Init gives up the subscription of the cache first, and tries
\* RETRY_COUNT_TIMES times; TPCoverSuspendMonitor::Init subscribes once.
\* A mutant of Subscribe: the cache is forgotten.
Subscribe_NoCache(list, old) ==
    LET rs == Subscribed \cap DOMAIN list
        id == [ r \in rs |-> lastId + IF r = "POWER_KEY" \/ "POWER_KEY" \notin rs THEN 1 ELSE 2 ]
    IN  /\ live' = old \cup { [ reason |-> r, id |-> id[r], action |-> list[r] ] : r \in rs }
        /\ lastId' = lastId + Cardinality(rs)
        /\ releaseCache' = IF "POWER_KEY" \in rs THEN id["POWER_KEY"] ELSE releaseCache
        /\ releaseId' = [ r \in Subscribed |-> IF r \notin DOMAIN monitorMap' THEN 0
                                               ELSE IF r \in DOMAIN monitorMap THEN releaseId[r]
                                               ELSE id[r] ]

\* Every source that has a key subscribes it; old are the subscriptions so far.
Subscribe(list, old) ==
    LET rs == Subscribed \cap DOMAIN list
        id == [ r \in rs |-> lastId + IF r = "POWER_KEY" \/ "POWER_KEY" \notin rs THEN 1 ELSE 2 ]
        kept == { x \in old : ~("POWER_KEY" \in rs /\ x.id = releaseCache) }
    IN  /\ live' = kept \cup { [ reason |-> r, id |-> id[r], action |-> list[r] ] : r \in rs }
        /\ lastId' = lastId + Cardinality(rs)
        /\ releaseCache' = IF "POWER_KEY" \in rs THEN id["POWER_KEY"] ELSE releaseCache
        /\ releaseId' = [ r \in Subscribed |-> IF r \notin DOMAIN monitorMap' THEN 0
                                               ELSE IF r \in DOMAIN monitorMap THEN releaseId[r]
                                               ELSE id[r] ]

\* The input service refuses: the power key has no subscription any more, and no monitor.
SubscribeFails(old) ==
    /\ live' = { x \in old : x.id # releaseCache }
    /\ releaseCache' = 0 /\ lastId' = lastId
    /\ releaseId' = [ r \in Subscribed |-> IF r \in DOMAIN monitorMap THEN releaseId[r] ELSE 0 ]

\* emplace: a source that has a monitor keeps it, with its action.
Emplace(list) ==
    [ r \in DOMAIN list \cup DOMAIN monitorMap |->
        IF r \in DOMAIN monitorMap THEN monitorMap[r] ELSE list[r] ]

\* CreateMonitor and Init of each source of the list.
CreateMonitors(list, stale) ==
    \/ /\ monitorMap' = Emplace(list) /\ Subscribe(list, live)
       /\ disturbed' = (disturbed \/ stale)
    \/ /\ Subscribed \cap DOMAIN list # {} /\ disturbed' = TRUE
       /\ monitorMap' = Emplace([ r \in DOMAIN list \ Subscribed |-> list[r] ])
       /\ SubscribeFails(live)

\* Cancel, under g_monitorMutex: a monitor gives up the subscription it knows.
Cancel ==
    /\ live' = { x \in live : x.id # releaseId[x.reason] }
    /\ monitorMap' = << >> /\ releaseId' = [ r \in Subscribed |-> 0 ]
    /\ UNCHANGED << releaseCache, lastId >>

-------------------------------------------------------------------------------
(* SuspendController, under mutex_ *)

\* ParseSources(): rows that are missing get the configuration file, in a charging build; the
\* others write back what they use.  A watch whose object has no cover uses the file.
ParsedRows(status) ==
    LET used == IF row["all"].state # "ok"
                   \/ (build = "watch" /\ "tp_cover" \notin DOMAIN row["all"].item)
                THEN ConfigFile ELSE row["all"]
    IN  [ k \in Rows |-> IF build = "charging"
                         THEN (IF k # "all" /\ row[k] = None THEN ConfigFile ELSE row[k])
                         ELSE IF k = "all" THEN used ELSE row[k] ]

\* SuspendController::Init reads the sources; no monitor is cancelled.
InitParses ==
    /\ handler \in { "boot", "switching" } /\ inside = {}
    /\ IsPowerConnected
    /\ row' = ParsedRows(connectStatus')
    /\ LET list == ParseSources(row'[RowOf(connectStatus')]) IN
       IF list = << >>
       THEN handler' = "idle" /\ UNCHANGED inside  \* and no observer
       ELSE inside' = { [ init |-> TRUE, list |-> list, stale |-> FALSE ] } /\ UNCHANGED handler
    /\ UNCHANGED << build, plugged, observer, updates, monitors >>

\* Each observer's update function is run once when it is registered.
RegisterSettingsObserver ==
    /\ observer' = TRUE
    /\ updates' = IF observer THEN updates ELSE updates + (IF build = "charging" THEN 2 ELSE 1)

\* It makes the monitors, and registers the observers.
InitMonitors ==
    \E x \in inside :
        /\ x.init /\ lastId + 2 <= MaxSubscriptions
        /\ CreateMonitors(x.list, x.stale)
        /\ RegisterSettingsObserver
        /\ inside' = {} /\ handler' = "idle"
        /\ UNCHANGED << build, plugged, connectStatus, row >>

\* UpdateSuspendSources, of an observer's thread or of the charger's event: an empty list
\* changes nothing; else the monitors are cancelled ...
UpdateSuspendSources ==
    /\ inside = {} /\ (updates > 0 \/ handler = "charger")
    /\ IF handler = "charger" THEN handler' = "idle" /\ UNCHANGED updates
       ELSE updates' = updates - 1 /\ UNCHANGED handler
    /\ IsPowerConnected
    /\ LET list == ParseSources(row[RowOf(connectStatus')]) IN
       IF list = << >> THEN UNCHANGED << inside, monitors >>
       ELSE /\ inside' = { [ init |-> FALSE, list |-> list,
                              stale |-> "POWER_KEY" \notin DOMAIN list
                                        /\ releaseId["POWER_KEY"] \notin { 0, releaseCache } ] }
            /\ Cancel
    /\ UNCHANGED settings

\* ... and made anew.  Until then an event of any source finds no monitor.
UpdateMonitors ==
    \E x \in inside :
        /\ ~x.init /\ lastId + 2 <= MaxSubscriptions
        /\ CreateMonitors(x.list, x.stale)
        /\ inside' = {}
        /\ UNCHANGED << settings, connectStatus, updates, handler >>

-------------------------------------------------------------------------------
(* Events *)

\* External: the settings application writes a row.
UserChangesSources(k, text) ==
    /\ handler = "idle" /\ updates < MaxUpdates /\ text # row[k]
    /\ k \in (IF build = "charging" THEN { "ac", "dc" } ELSE { "all" })
    /\ row' = [ row EXCEPT ![k] = text ]
    /\ updates' = IF observer THEN updates + 1 ELSE updates
    /\ UNCHANGED << build, plugged, connectStatus, observer, handler, inside, monitors, disturbed >>

\* COMMON_EVENT_POWER_CONNECTED and _DISCONNECTED.
OnPowerConnectStatusChanged ==
    /\ build = "charging" /\ handler = "idle" /\ handler' = "charger"
    /\ plugged' = ~plugged
    /\ connectStatus' = IF plugged' THEN "AC" ELSE "DC"
    /\ UNCHANGED << build, row, observer, updates, inside, monitors, disturbed >>

\* COMMON_EVENT_USER_SWITCHED, in a charging build: UnregisterSettingsObserver; the rows are
\* those of the other user, and SuspendControllerInit follows.
UserSwitched ==
    /\ build = "charging" /\ handler = "idle" /\ handler' = "switching"
    /\ updates < MaxUpdates
    /\ observer' = FALSE
    /\ \E ac, dc \in Texts \cup { None } : row' = [ row EXCEPT !["ac"] = ac, !["dc"] = dc ]
    /\ UNCHANGED << build, plugged, connectStatus, updates, inside, monitors, disturbed >>

Next ==
    \/ InitParses \/ InitMonitors \/ UpdateSuspendSources \/ UpdateMonitors
    \/ \E k \in Rows, text \in Texts : UserChangesSources(k, text)
    \/ OnPowerConnectStatusChanged \/ UserSwitched

Spec == Init /\ [][Next]_vars

-------------------------------------------------------------------------------
(* Once every update has run, the monitors act as the current user's object   *)
(* says for the mains or the battery, whichever the device runs on, and the   *)
(* power key is subscribed once, with that action: no monitor of another      *)
(* user, of the other supply or of an older object answers an event           *)
(* (UpdateSuspendSources, Init, PowerKeySuspendMonitor::Init).                *)
MonitorsFollowSources ==
    LET status == IF plugged THEN "AC" ELSE "DC"
        list == ParseSources(row[RowOf(status)])
    IN  handler = "idle" /\ updates = 0 /\ inside = {} /\ observer /\ ~disturbed /\ list # << >> =>
            /\ monitorMap = list
            /\ { x \in live : x.reason = "POWER_KEY" } =
                  IF "POWER_KEY" \notin DOMAIN list THEN {}
                  ELSE { [ reason |-> "POWER_KEY", id |-> releaseCache,
                           action |-> list["POWER_KEY"] ] }

==============================================================================
