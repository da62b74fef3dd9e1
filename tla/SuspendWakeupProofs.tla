-------------------------- MODULE SuspendWakeupProofs -------------------------
(***************************************************************************)
(* Proofs about the three ways into a deeper sleep that call clients       *)
(* first, ForceSuspend (forced suspend that ignores wake locks), Ulsr      *)
(* (suspend with tag) and Hibernate, and about the sources that suspend    *)
(* and wake the device, SuspendSources and WakeupMonitors. Each has an     *)
(* inductive invariant of its own that every action preserves, one step    *)
(* per action, for any number of callers, clients and threads and any      *)
(* configuration. The components share nothing here but the names of their *)
(* variables.                                                              *)
(***************************************************************************)
EXTENDS Integers, FiniteSets, FiniteSetTheorems, TLAPS

CONSTANTS
    Callers, Interrupters, MaxCalls,    \* ForceSuspend
    Clients, Tellers,                   \* Ulsr
    Threads,                            \* Hibernate
    Builds, Texts, ConfigFile, MaxSourceSubscriptions, MaxSourceUpdates,    \* SuspendSources
    ConfigOn, Click, MaxWakeupSubscriptions, MaxWakeupUpdates               \* WakeupMonitors

VARIABLES
    state, suspended, suspendMutex, pending, finished, skipHdi, forceSleeping, pc, call,
    interrupted, tasks,
    priority, stage, ulsrMutex, toTell, telling, awaited, timedOut, told, tag, timer, asleep,
    waitTaskStart, resultTask, setter,
    registered, prepared, hibernating, args, prepare, prepareResult, stopService, sleepTimer,
    shutDown, late,
    build, plugged, connectStatus, row, observer, updates, handler, inside, monitorMap, releaseId,
    releaseCache, live, lastId, disturbed,
    json, sourceUpdateMutex, keysObserver, switchObserver, parsed, shortPressId, shortPressCache

F == INSTANCE ForceSuspend
U == INSTANCE Ulsr
H == INSTANCE Hibernate
S == INSTANCE SuspendSources WITH
    MaxSubscriptions <- MaxSourceSubscriptions, MaxUpdates <- MaxSourceUpdates
W == INSTANCE WakeupMonitors WITH
    MaxSubscriptions <- MaxWakeupSubscriptions, MaxUpdates <- MaxWakeupUpdates

-------------------------------------------------------------------------------
(* ForceSuspend *)

\* The labels of ForceSuspendDeviceIgnoringWakelock between taking suspendMutex_ and its end.
Active == { "inactive", "sleep", "start", "wait", "hdi", "undo" }

\* Only the owner of suspendMutex_ is inside of a call.
OneCall == \A c \in Callers : pc[c] \in Active => suspendMutex = {c} /\ call > 0

\* The pending flag, the only thing that lets InterruptForceSuspendCallback answer ERR_OK, is up
\* only while a caller waits for the callbacks.
PendingIsAwaited == pending => \E c \in Callers : pc[c] = "wait"

\* The history: calls are numbered from one, and an interrupter that rolls back followed a call.
NumberedCalls ==
    /\ interrupted \subseteq 1 .. call
    /\ \A i \in Interrupters : pc[i] = "rollback" => call > 0

\* A call that was interrupted is over, or still waits with the flag that makes it skip the HDI:
\* the flag is set in the same critical section that answers the interrupter, and nobody lowers it
\* before the caller reads it.
InterruptIsSeen ==
    call \in interrupted =>
        \A c \in Callers : /\ pc[c] \notin Active \ { "wait" }
                           /\ pc[c] = "wait" => skipHdi

\* What the labels and the number of the call range over.
FTyped ==
    /\ pc \in [ Callers \cup Interrupters -> F!CallerLabels \cup F!InterrupterLabels ]
    /\ call \in Nat

\* The inductive invariant of the forced suspend.
FInv == FTyped /\ OneCall /\ PendingIsAwaited /\ NumberedCalls /\ InterruptIsSeen

\* The invariant holds before the first call of ForceSuspendDeviceIgnoringWakelock.
LEMMA FInit == F!Init => FInv
  BY DEF F!Init, FInv, FTyped, OneCall, PendingIsAwaited, NumberedCalls, InterruptIsSeen,
     F!CallerLabels, F!InterrupterLabels, Active

\* Every step of a caller, an interrupter, the callbacks task and the wake-up tasks preserves it.
LEMMA FNext == FInv /\ [F!Next]_F!vars => FInv'
  <1> SUFFICES ASSUME FInv, [F!Next]_F!vars PROVE FInv'
    OBVIOUS
  <1> USE DEF FInv, FTyped, OneCall, PendingIsAwaited, NumberedCalls, InterruptIsSeen,
     F!CallerLabels, F!InterrupterLabels, Active, F!GoTo, F!Return, F!waitFlags
  <1>1. ASSUME NEW c \in Callers, F!ForceSuspendDeviceIgnoringWakelock(c) PROVE FInv'
    BY <1>1 DEF F!ForceSuspendDeviceIgnoringWakelock
  <1>2. ASSUME NEW c \in Callers, F!EnterInactive(c) PROVE FInv'
    BY <1>2 DEF F!EnterInactive
  <1>3. ASSUME NEW c \in Callers, F!EnterSleep(c) PROVE FInv'
    BY <1>3 DEF F!EnterSleep
  <1>4. ASSUME NEW c \in Callers, F!StartForceSuspendCallbacks(c) PROVE FInv'
    BY <1>4 DEF F!StartForceSuspendCallbacks
  <1>5. ASSUME NEW c \in Callers, F!WaitForceSuspendCallbacks(c) PROVE FInv'
    BY <1>5 DEF F!WaitForceSuspendCallbacks
  <1>6. ASSUME NEW c \in Callers, F!DoHdiForceSuspendEx(c) PROVE FInv'
    BY <1>6 DEF F!DoHdiForceSuspendEx
  <1>7. ASSUME NEW c \in Callers, F!RollbackForceSuspendAfterCallbacks(c) PROVE FInv'
    BY <1>7 DEF F!RollbackForceSuspendAfterCallbacks
  <1>8. ASSUME NEW i \in Interrupters, F!InterruptForceSuspendCallback(i) PROVE FInv'
    BY <1>8 DEF F!InterruptForceSuspendCallback
  <1>9. ASSUME NEW i \in Interrupters, F!InterruptRollback(i) PROVE FInv'
    BY <1>9 DEF F!InterruptRollback
  <1>10. CASE F!TriggerForceSuspendCallbacks
    BY <1>10 DEF F!TriggerForceSuspendCallbacks
  <1>11. CASE F!ForceSuspendCallbackFinished
    BY <1>11 DEF F!ForceSuspendCallbackFinished
  <1>12. CASE F!WakeupAfterInterrupt
    BY <1>12 DEF F!WakeupAfterInterrupt
  <1>13. CASE F!Wakeup
    BY <1>13 DEF F!Wakeup
  <1>14. CASE UNCHANGED F!vars
    BY <1>14 DEF F!vars
  <1> QED
    BY <1>1, <1>2, <1>3, <1>4, <1>5, <1>6, <1>7, <1>8, <1>9, <1>10, <1>11, <1>12, <1>13, <1>14
       DEF F!Next, F!Call, F!Tasks

\* A call of ForceSuspendDeviceIgnoringWakelock whose interrupter was told ERR_OK never reaches
\* ForceSuspendEx, for any number of callers and of interrupters.
THEOREM InterruptedCallsDoNotSuspend == F!Spec => []F!InterruptedIsNotSuspended
  <1>1. FInv => F!InterruptedIsNotSuspended
    BY DEF FInv, InterruptIsSeen, Active, F!InterruptedIsNotSuspended
  <1> QED BY FInit, FNext, <1>1, PTL DEF F!Spec

-------------------------------------------------------------------------------
(* Ulsr *)

\* The registry's priorities, what each client was told last, and whom each notifying thread has
\* still to tell.
UTyped ==
    /\ priority \in [ Clients -> { "none", "HIGH", "DEFAULT", "LOW" } ]
    /\ told \in [ Clients -> { "none", "ulsr", "wakeup" } ]
    /\ toTell \in [ Tellers -> SUBSET Clients ]

\* At most one notifying thread is awaited, by the holder of ulsrMutex_ at the ENTER stage; without
\* a time-out it is the only one that runs.
OneTeller ==
    /\ awaited # {} => setter = "telling"
    /\ setter = "telling" => ulsrMutex # {} /\ stage = "ENTER"
    /\ \A m, n \in awaited : m = n
    /\ ~timedOut => telling = awaited

\* At the DONE stage, if no wait timed out, nobody is left who was told of the ulsr and not of the
\* wake-up.
DoneIsAnswered == ~timedOut /\ stage = "DONE" => \A c \in U!Registered : told[c] # "ulsr"

\* The inductive invariant of the suspend with tag.
UInv == UTyped /\ OneTeller /\ DoneIsAnswered /\ U!HigherPriorityFirst

\* The invariant holds when the service starts.
LEMMA UInit == U!Init => UInv
  BY DEF U!Init, UInv, UTyped, OneTeller, DoneIsAnswered, U!HigherPriorityFirst, U!Registered

\* Every step of SetSuspendTag, the notifying threads, the wake-up tasks and the timer preserves
\* it.
LEMMA UNext == UInv /\ [U!Next]_U!vars => UInv'
  <1> SUFFICES ASSUME UInv, [U!Next]_U!vars PROVE UInv'
    OBVIOUS
  <1> USE DEF UInv, UTyped, OneTeller, DoneIsAnswered, U!HigherPriorityFirst, U!Registered,
        U!Higher, U!registry, U!sync, U!wakeup
  <1>1. ASSUME NEW c \in Clients, U!AddCallback(c) PROVE UInv'
    BY <1>1 DEF U!AddCallback
  <1>2. ASSUME NEW c \in Clients, U!RemoveCallback(c) PROVE UInv'
    BY <1>2 DEF U!RemoveCallback
  <1>3. CASE U!SetSuspendTag
    BY <1>3 DEF U!SetSuspendTag
  <1>4. CASE U!SyncUlsrNotify
    BY <1>4 DEF U!SyncUlsrNotify, U!StartTelling
  <1>5. CASE U!SyncUlsrNotifyReturns
    BY <1>5 DEF U!SyncUlsrNotifyReturns
  <1>6. CASE U!SetSuspendTagDone
    BY <1>6 DEF U!SetSuspendTagDone
  <1>7. CASE U!SetSuspendTagUndo
    BY <1>7 DEF U!SetSuspendTagUndo, U!WakeupNotify
  <1>8. ASSUME NEW n \in Tellers, U!SyncUlsrNotifyInner(n) PROVE UInv'
    BY <1>8 DEF U!SyncUlsrNotifyInner
  <1>9. ASSUME NEW n \in Tellers, U!SyncUlsrNotifyInnerEnd(n) PROVE UInv'
    BY <1>9 DEF U!SyncUlsrNotifyInnerEnd
  <1>10. CASE U!TriggerUlsrWakeupCallback
    BY <1>10 DEF U!TriggerUlsrWakeupCallback, U!WakeupNotify
  <1>11. CASE U!OnUlsrTimerExpired
    BY <1>11 DEF U!OnUlsrTimerExpired, U!WakeupNotify
  <1>12. CASE U!WaitAndTriggerUlsrWakeup \/ U!WaitTaskEnd \/ U!UlsrTimerFires
           \/ U!OnSuspendWithTag \/ U!TriggerUlsrWakeupCallbackWithResult \/ U!FallAsleep
    BY <1>12 DEF U!WaitAndTriggerUlsrWakeup, U!WaitTaskEnd, U!UlsrTimerFires, U!OnSuspendWithTag,
       U!TriggerUlsrWakeupCallbackWithResult, U!FallAsleep
  <1>13. CASE UNCHANGED U!vars
    BY <1>13 DEF U!vars
  <1> QED
    BY <1>1, <1>2, <1>3, <1>4, <1>5, <1>6, <1>7, <1>8, <1>9, <1>10, <1>11, <1>12, <1>13 DEF U!Next,
       U!Setter, U!Teller, U!ResultTask, U!Timer

\* UlsrCallbackHolder tells no client of the ulsr before a registered client of a higher priority,
\* however registrations, wake-ups and notifying threads interleave, unless a wait timed out.
THEOREM UlsrFollowsPriorities == U!Spec => []U!HigherPriorityFirst
  <1>1. UInv => U!HigherPriorityFirst
    BY DEF UInv
  <1> QED BY UInit, UNext, <1>1, PTL DEF U!Spec

-------------------------------------------------------------------------------
(* Hibernate *)

\* What each client was told last.
HTyped == told \in [ Clients -> { "none", "hibernate", "wakeup" } ]

\* Some prepare task is awaited only while Hibernate waits for it.
AwaitedWhileWaiting == awaited # {} => pc = "waiting"

\* A client that was told OnSyncHibernate is registered, and HibernateController remembers that it
\* has to tell it OnSyncWakeup: prepared_ is set, and the hibernation is past the steps that may
\* tell.
ToldIsPrepared ==
    \A c \in Clients : told[c] = "hibernate" =>
        /\ c \in registered
        /\ ~shutDown /\ ~late => prepared /\ pc \notin { "idle", "prepare", "inactive" }

\* The inductive invariant of the hibernation.
HInv == HTyped /\ AwaitedWhileWaiting /\ ToldIsPrepared

\* The invariant holds before the first hibernation.
LEMMA HInit == H!Init => HInv
  BY DEF H!Init, HInv, HTyped, AwaitedWhileWaiting, ToldIsPrepared

\* Every step of Hibernate, of the prepare threads, of the clients and of other SetState calls
\* preserves it.
LEMMA HNext == HInv /\ [H!Next]_H!vars => HInv'
  <1> SUFFICES ASSUME HInv, [H!Next]_H!vars PROVE HInv'
    OBVIOUS
  <1> USE DEF HInv, HTyped, AwaitedWhileWaiting, ToldIsPrepared, H!callbacks, H!threads, H!outside
  <1>1. ASSUME NEW c \in Clients, H!RegisterSyncHibernateCallback(c) PROVE HInv'
    BY <1>1 DEF H!RegisterSyncHibernateCallback
  <1>2. ASSUME NEW c \in Clients, H!UnregisterSyncHibernateCallback(c) PROVE HInv'
    BY <1>2 DEF H!UnregisterSyncHibernateCallback
  <1>3. ASSUME NEW m \in BOOLEAN, NEW l \in BOOLEAN, H!Hibernate(m, l) PROVE HInv'
    BY <1>3 DEF H!Hibernate
  <1>4. CASE H!PrepareHibernateWithTimeout
    BY <1>4 DEF H!PrepareHibernateWithTimeout
  <1>5. CASE H!PrepareReturns
    BY <1>5 DEF H!PrepareReturns
  <1>6. CASE H!HibernateHdi
    BY <1>6 DEF H!HibernateHdi
  <1>7. CASE H!RestoreHibernate
    BY <1>7 DEF H!RestoreHibernate
  <1>8. CASE H!RestorePost
    BY <1>8 DEF H!RestorePost, H!PostHibernate
  <1>9. CASE H!RollbackHibernate
    BY <1>9 DEF H!RollbackHibernate, H!PostHibernate
  <1>10. CASE H!RollbackInactive
    BY <1>10 DEF H!RollbackInactive
  <1>11. ASSUME NEW t \in Threads, H!PrepareInactive(t) PROVE HInv'
    BY <1>11 DEF H!PrepareInactive
  <1>12. ASSUME NEW t \in Threads, H!PrepareAccount(t) PROVE HInv'
    BY <1>12 DEF H!PrepareAccount, H!PrepareEnds
  <1>13. ASSUME NEW t \in Threads, H!PreHibernate(t) PROVE HInv'
    BY <1>13 DEF H!PreHibernate
  <1>14. ASSUME NEW t \in Threads, H!PrepareHibernateState(t) PROVE HInv'
    BY <1>14 DEF H!PrepareHibernateState, H!PrepareEnds
  <1>15. CASE H!OtherSetState
    BY <1>15 DEF H!OtherSetState
  <1>16. CASE UNCHANGED H!vars
    BY <1>16 DEF H!vars
  <1> QED
    BY <1>1, <1>2, <1>3, <1>4, <1>5, <1>6, <1>7, <1>8, <1>9, <1>10, <1>11, <1>12, <1>13, <1>14,
       <1>15, <1>16 DEF H!Next, H!Inner, H!Prepare

\* Whenever HibernateController is idle, each client that was told OnSyncHibernate was told
\* OnSyncWakeup, on success, on failure and on roll-back, unless the device shuts down or an
\* abandoned thread told the client late.
THEOREM EveryHibernateIsAnswered == H!Spec => []H!HibernateIsAnswered
  <1>1. HInv => H!HibernateIsAnswered
    BY DEF HInv, ToldIsPrepared, H!HibernateIsAnswered
  <1> QED BY HInit, HNext, <1>1, PTL DEF H!Spec

-------------------------------------------------------------------------------
(* SuspendSources *)

\* The counters are numbers, and the thread under mutex_ carries a list.
SourcesTyped ==
    /\ updates \in Nat /\ lastId \in Nat
    /\ releaseId \in [ S!Subscribed -> Nat ]
    /\ \A x \in inside : x.list = [ r \in DOMAIN x.list |-> x.list[r] ]
    /\ \A x, y \in inside : x = y

\* What the device runs on, and the object that counts.
Status == IF plugged THEN "AC" ELSE "DC"
SourcesNow == S!ParseSources(row[S!RowOf(Status)])

\* powerConnectStatus_ is the supply's, once it has been asked for.
StatusIsKnown == ~disturbed /\ build = "charging" => connectStatus \in { "INVALID", Status }

\* Init runs while there are no observers.
InitIsAlone ==
    /\ handler \in { "boot", "switching" } => ~observer
    /\ \A x \in inside : x.init => handler \in { "boot", "switching" }

\* The power key is subscribed at most once, under the id of the cache; a monitor of it knows an
\* id, if perhaps an old one.
KeySubscriptions == { y \in live : y.reason = "POWER_KEY" }
KeyIsCached == \A y \in KeySubscriptions : y.id = releaseCache
KeyMonitorKnowsId == releaseId["POWER_KEY"] = 0 <=> "POWER_KEY" \notin DOMAIN monitorMap

\* Without a monitor nobody holds a subscription of the key.
KeyIsNotLeft ==
    ~disturbed /\ (\A x \in inside : x.init) /\ releaseId["POWER_KEY"] = 0 => KeySubscriptions = {}

\* Between Cancel and the new monitors there are none, and a key that gets no new one is given up.
MonitorsAreCancelled ==
    \A x \in inside : ~disturbed /\ ~x.init =>
        /\ monitorMap = << >>
        /\ ~x.stale /\ "POWER_KEY" \notin DOMAIN x.list => KeySubscriptions = {}

\* The monitors act as the object says.
MonitorsFit(list) ==
    /\ monitorMap = list
    /\ KeySubscriptions = IF "POWER_KEY" \notin DOMAIN list THEN {}
                          ELSE { [ reason |-> "POWER_KEY", id |-> releaseCache,
                                   action |-> list["POWER_KEY"] ] }

\* With no update to come the monitors are those of the object, or about to be.
MonitorsAreComing ==
    handler = "idle" /\ updates = 0 /\ observer /\ ~disturbed /\ SourcesNow # << >> =>
        /\ inside = {} => MonitorsFit(SourcesNow)
        /\ \A x \in inside : x.list = SourcesNow

\* The inductive invariant of the suspend sources.
SourcesInv ==
    /\ SourcesTyped
    /\ StatusIsKnown
    /\ InitIsAlone
    /\ KeyIsCached /\ KeyMonitorKnowsId
    /\ KeyIsNotLeft
    /\ MonitorsAreCancelled
    /\ MonitorsAreComing

\* The invariant holds before the boot.
LEMMA SourcesInit == S!Init => SourcesInv
  BY DEF S!Init, S!Subscribed, SourcesInv, SourcesTyped, StatusIsKnown, InitIsAlone,
     KeySubscriptions,
         KeyIsCached, KeyMonitorKnowsId, KeyIsNotLeft, MonitorsAreCancelled, MonitorsAreComing

\* A parsed list is a function.
LEMMA ListIsFunction ==
  ASSUME NEW text
  PROVE  S!ParseSources(text) = [ r \in DOMAIN S!ParseSources(text) |-> S!ParseSources(text)[r] ]
  BY DEF S!ParseSources, S!ParseText

\* IsPowerConnected tells the row of the supply, or the battery service has failed.
LEMMA RowIsKnown ==
  ASSUME SourcesInv, S!IsPowerConnected, UNCHANGED << plugged, build >>, ~disturbed'
  PROVE  ~disturbed /\ S!RowOf(connectStatus') = S!RowOf(Status) /\ StatusIsKnown'
  BY DEF SourcesInv, StatusIsKnown, S!IsPowerConnected, S!PowerConnectStatusInit, S!RowOf, Status

\* What CreateMonitors does to the power key, and to monitors that were cancelled.
LEMMA MonitorsAreMade ==
  ASSUME SourcesInv, NEW x \in inside, S!CreateMonitors(x.list, x.stale)
  PROVE  /\ lastId' \in Nat /\ releaseId' \in [ S!Subscribed -> Nat ]
         /\ KeyIsCached' /\ KeyMonitorKnowsId'
         /\ ~disturbed' => ~disturbed /\ ~x.stale
         /\ ~disturbed' /\ releaseId'["POWER_KEY"] = 0 => KeySubscriptions' = {}
         /\ ~disturbed' /\ ~x.init => MonitorsFit(x.list)'
  <1> DEFINE rs == S!Subscribed \cap DOMAIN x.list
  <1>1. /\ "POWER_KEY" \in S!Subscribed /\ lastId \in Nat /\ releaseId \in [ S!Subscribed -> Nat ]
        /\ x.list = [ r \in DOMAIN x.list |-> x.list[r] ]
    BY DEF SourcesInv, SourcesTyped, S!Subscribed
  <1>2. S!Cardinality(rs) \in Nat
    <2>1. S!Subscribed = { "POWER_KEY" } \cup { "TP_COVER" } /\ rs \in SUBSET S!Subscribed
      BY DEF S!Subscribed
    <2>2. IsFiniteSet(S!Subscribed)
      BY <2>1, FS_Singleton, FS_Union
    <2>3. Cardinality(rs) \in Nat
      BY <2>1, <2>2, FS_Subset, FS_CardinalityType
    <2> QED BY <2>3, Zenon DEF S!Cardinality, Cardinality
  <1>3. CASE /\ monitorMap' = S!Emplace(x.list) /\ S!Subscribe(x.list, live)
             /\ disturbed' = (disturbed \/ x.stale)
    <2> DEFINE id == [ r \in rs |-> lastId + IF r = "POWER_KEY" \/ "POWER_KEY" \notin rs THEN 1 ELSE 2 ]
               made == { [ reason |-> r, id |-> id[r], action |-> x.list[r] ] : r \in rs }
    <2>1. /\ live' = { y \in live : ~("POWER_KEY" \in rs /\ y.id = releaseCache) } \cup made
          /\ lastId' = lastId + S!Cardinality(rs)
          /\ releaseCache' = IF "POWER_KEY" \in rs THEN id["POWER_KEY"] ELSE releaseCache
          /\ releaseId' = [ r \in S!Subscribed |-> IF r \notin DOMAIN monitorMap' THEN 0
                                               ELSE IF r \in DOMAIN monitorMap THEN releaseId[r]
                                               ELSE id[r] ]
      BY <1>3, Zenon DEF S!Subscribe
    <2>0. ~disturbed' => ~disturbed /\ ~x.stale
      BY <1>3, Zenon
    <2>2. \A r \in rs : id[r] \in Nat /\ id[r] # 0
      BY <1>1
    <2>3. /\ DOMAIN monitorMap' = DOMAIN x.list \cup DOMAIN monitorMap
          /\ monitorMap = << >> => monitorMap' = x.list
      <3>1. DOMAIN monitorMap' = DOMAIN x.list \cup DOMAIN monitorMap
        BY <1>3 DEF S!Emplace
      <3>2. ASSUME monitorMap = << >> PROVE monitorMap' = x.list
        <4>1. DOMAIN monitorMap = {}
          BY <3>2
        <4> QED BY <1>1, <1>3, <4>1 DEF S!Emplace
      <3> QED BY <3>1, <3>2
    <2>4. releaseId' \in [ S!Subscribed -> Nat ]
      BY <1>1, <2>1, <2>2, <2>3
    <2>5. KeyMonitorKnowsId'
      BY <1>1, <2>1, <2>2, <2>3 DEF KeyMonitorKnowsId, SourcesInv
    <2>8. lastId' \in Nat
      BY <1>1, <1>2, <2>1
    <2>6. CASE "POWER_KEY" \in rs
      <3>1. KeySubscriptions' = { [ reason |-> "POWER_KEY", id |-> releaseCache',
                                    action |-> x.list["POWER_KEY"] ] }
        <4>1. \A y \in live' : y.reason = "POWER_KEY" => y \in made
          BY <2>1, <2>6 DEF SourcesInv, KeyIsCached, KeySubscriptions
        <4>2. \A y \in made : y.reason = "POWER_KEY" =>
                  y = [ reason |-> "POWER_KEY", id |-> releaseCache', action |-> x.list["POWER_KEY"] ]
          <5>1. \A r \in rs : r = "POWER_KEY" => id[r] = releaseCache'
            BY <2>1
          <5>2. \A y \in made : \E r \in rs : y = [ reason |-> r, id |-> id[r], action |-> x.list[r] ]
            OBVIOUS
          <5> HIDE DEF made, id, rs
          <5> QED BY <5>1, <5>2
        <4>3. [ reason |-> "POWER_KEY", id |-> releaseCache', action |-> x.list["POWER_KEY"] ] \in live'
          <5>1. [ reason |-> "POWER_KEY", id |-> id["POWER_KEY"], action |-> x.list["POWER_KEY"] ] \in made
            BY <2>6
          <5> QED BY <2>1, <2>6, <5>1
        <4> HIDE DEF made
        <4> QED BY <4>1, <4>2, <4>3 DEF KeySubscriptions
      <3>2. releaseId'["POWER_KEY"] # 0
        BY <1>1, <2>5, <2>6, <2>3 DEF KeyMonitorKnowsId
      <3>3. ~disturbed' /\ ~x.init => monitorMap = << >>
        BY <1>3 DEF SourcesInv, MonitorsAreCancelled
      <3>4. KeyIsCached'
        BY <3>1 DEF KeyIsCached
      <3>5. ~disturbed' /\ ~x.init => MonitorsFit(x.list)'
        BY <3>1, <3>3, <2>3, <2>6 DEF MonitorsFit
      <3> QED BY <2>0, <2>8, <2>4, <2>5, <3>2, <3>4, <3>5
    <2>7. CASE "POWER_KEY" \notin rs
      <3>1. \A y \in made : y.reason # "POWER_KEY"
        BY <2>7
      <3>2. KeySubscriptions' = KeySubscriptions /\ releaseCache' = releaseCache
        BY <2>1, <2>7, <3>1 DEF KeySubscriptions
      <3>3. ~disturbed' /\ ~x.init => monitorMap = << >> /\ KeySubscriptions = {}
        BY <1>1, <1>3, <2>7 DEF SourcesInv, MonitorsAreCancelled
      <3>4. KeyIsCached'
        BY <3>2 DEF KeyIsCached, SourcesInv
      <3>5. ~disturbed' /\ ~x.init => MonitorsFit(x.list)'
        BY <1>1, <3>2, <3>3, <2>3, <2>7 DEF MonitorsFit
      <3>6. ASSUME ~disturbed', releaseId'["POWER_KEY"] = 0 PROVE KeySubscriptions' = {}
        <4>1. CASE x.init
          <5>1. "POWER_KEY" \notin DOMAIN monitorMap
            BY <2>3, <2>5, <3>6 DEF KeyMonitorKnowsId
          <5>2. \A y \in inside : y.init
            BY <4>1 DEF SourcesInv, SourcesTyped
          <5> QED BY <1>3, <3>2, <3>6, <5>1, <5>2 DEF SourcesInv, KeyMonitorKnowsId, KeyIsNotLeft
        <4> QED BY <3>2, <3>3, <3>6, <4>1
      <3> QED BY <2>0, <2>8, <2>4, <2>5, <3>4, <3>5, <3>6
    <2> QED BY <2>6, <2>7
  <1>4. CASE /\ S!Subscribed \cap DOMAIN x.list # {} /\ disturbed' = TRUE
             /\ monitorMap' = S!Emplace([ r \in DOMAIN x.list \ S!Subscribed |-> x.list[r] ])
             /\ S!SubscribeFails(live)
    <2>1. DOMAIN monitorMap' \cap S!Subscribed = DOMAIN monitorMap \cap S!Subscribed
      BY <1>4 DEF S!Emplace
    <2>2. releaseId' = [ r \in S!Subscribed |-> IF r \in DOMAIN monitorMap THEN releaseId[r] ELSE 0 ]
      BY <1>4 DEF S!SubscribeFails
    <2>3. releaseId' \in [ S!Subscribed -> Nat ] /\ KeyMonitorKnowsId'
      BY <1>1, <2>1, <2>2 DEF KeyMonitorKnowsId, SourcesInv
    <2>4. KeyIsCached' /\ lastId' = lastId
      BY <1>4 DEF S!SubscribeFails, KeyIsCached, KeySubscriptions, SourcesInv
    <2> QED BY <1>1, <1>4, <2>3, <2>4
  <1> QED BY <1>3, <1>4 DEF S!CreateMonitors

\* Every update, switch of the user and change of the supply preserves it.
LEMMA SourcesStep == SourcesInv /\ [S!Next]_S!vars => SourcesInv'
  <1> SUFFICES ASSUME SourcesInv, [S!Next]_S!vars PROVE SourcesInv'
    OBVIOUS
  <1> USE DEF SourcesInv
  <1>1. ASSUME S!InitParses PROVE SourcesInv'
    <2>1. UNCHANGED << build, plugged, observer, updates, monitorMap, releaseId, releaseCache, live, lastId >>
      BY <1>1 DEF S!InitParses, S!monitors
    <2>2. ~disturbed' => ~disturbed /\ StatusIsKnown'
      BY <1>1, <2>1, RowIsKnown DEF S!InitParses
    <2>3. /\ inside = {} /\ handler \in { "boot", "switching" }
          /\ \/ handler' = "idle" /\ inside' = {}
             \/ /\ handler' = handler
                /\ inside' = { [ init |-> TRUE, list |-> S!ParseSources(row'[S!RowOf(connectStatus')]),
                                 stale |-> FALSE ] }
      BY <1>1 DEF S!InitParses
    <2>4. SourcesTyped'
      <3> DEFINE list == S!ParseSources(row'[S!RowOf(connectStatus')])
      <3>1. list = [ r \in DOMAIN list |-> list[r] ]
        BY ListIsFunction
      <3> HIDE DEF list
      <3>2. \A x \in inside' : x.list = list /\ inside' = {x}
        <4>1. inside' = {} \/ inside' = { [ init |-> TRUE, list |-> list, stale |-> FALSE ] }
          BY <2>3, Zenon DEF list
        <4>2. [ init |-> TRUE, list |-> list, stale |-> FALSE ].list = list
          OBVIOUS
        <4> QED BY <4>1, <4>2, Zenon
      <3> QED BY <2>1, <3>1, <3>2 DEF SourcesTyped
    <2>5. StatusIsKnown' /\ InitIsAlone'
      BY <2>1, <2>2, <2>3 DEF InitIsAlone, StatusIsKnown
    <2>6. KeyIsCached' /\ KeyMonitorKnowsId' /\ KeyIsNotLeft' /\ MonitorsAreCancelled'
      BY <2>1, <2>2, <2>3 DEF KeyIsCached, KeySubscriptions, KeyMonitorKnowsId, KeyIsNotLeft,
                              MonitorsAreCancelled
    <2>7. MonitorsAreComing'
      BY <2>1, <2>3 DEF MonitorsAreComing, InitIsAlone
    <2> QED BY <2>4, <2>5, <2>6, <2>7
  <1>2. ASSUME S!InitMonitors PROVE SourcesInv'
    <2>1. PICK x \in inside :
             /\ x.init /\ S!CreateMonitors(x.list, x.stale) /\ S!RegisterSettingsObserver
             /\ inside' = {} /\ handler' = "idle" /\ UNCHANGED << build, plugged, connectStatus, row >>
      BY <1>2 DEF S!InitMonitors
    <2>2. ~observer
      BY <2>1 DEF InitIsAlone
    <2>3. updates' \in Nat /\ updates' # 0
      BY <2>1, <2>2 DEF S!RegisterSettingsObserver, SourcesTyped
    <2>4. /\ lastId' \in Nat /\ releaseId' \in [ S!Subscribed -> Nat ]
          /\ KeyIsCached' /\ KeyMonitorKnowsId'
          /\ ~disturbed' => ~disturbed
          /\ ~disturbed' /\ releaseId'["POWER_KEY"] = 0 => KeySubscriptions' = {}
      BY <2>1, MonitorsAreMade
    <2>5. SourcesTyped' /\ StatusIsKnown' /\ InitIsAlone'
      BY <2>1, <2>3, <2>4 DEF SourcesTyped, StatusIsKnown, InitIsAlone, Status
    <2>6. KeyIsNotLeft' /\ MonitorsAreCancelled' /\ MonitorsAreComing'
      BY <2>1, <2>3, <2>4 DEF KeyIsNotLeft, MonitorsAreCancelled, MonitorsAreComing
    <2> QED BY <2>4, <2>5, <2>6
  <1>3. ASSUME S!UpdateSuspendSources PROVE SourcesInv'
    <2>1. /\ inside = {} /\ UNCHANGED << build, plugged, row, observer >>
          /\ updates' \in Nat /\ (handler # "charger" => handler' = handler)
          /\ handler = "charger" => handler' = "idle"
          /\ S!IsPowerConnected
      BY <1>3 DEF S!UpdateSuspendSources, S!settings, SourcesTyped
    <2>2. ~disturbed' => ~disturbed /\ StatusIsKnown' /\ S!RowOf(connectStatus') = S!RowOf(Status)
      BY <2>1, RowIsKnown
    <2>3. StatusIsKnown' /\ InitIsAlone' /\ SourcesNow' = SourcesNow
      <3>1. StatusIsKnown'
        BY <2>2 DEF StatusIsKnown
      <3>2. InitIsAlone'
        BY <1>3, <2>1 DEF InitIsAlone, S!UpdateSuspendSources
      <3> QED BY <2>1, <3>1, <3>2 DEF SourcesNow, Status, S!RowOf
    <2> DEFINE list == S!ParseSources(row[S!RowOf(connectStatus')])
    <2>4. CASE list = << >>
      <3>1. UNCHANGED << inside, monitorMap, releaseId, releaseCache, live, lastId >>
        BY <1>3, <2>4 DEF S!UpdateSuspendSources, S!monitors
      <3>2. SourcesTyped' /\ KeyIsCached' /\ KeyMonitorKnowsId' /\ KeyIsNotLeft' /\ MonitorsAreCancelled'
        BY <2>1, <2>2, <3>1 DEF SourcesTyped, KeyIsCached, KeySubscriptions, KeyMonitorKnowsId,
           KeyIsNotLeft,
                                MonitorsAreCancelled
      <3>3. MonitorsAreComing'
        BY <2>2, <2>3, <2>4 DEF MonitorsAreComing, SourcesNow
      <3> QED BY <2>3, <3>2, <3>3
    <2>5. CASE list # << >>
      <3> DEFINE stale == "POWER_KEY" \notin DOMAIN list /\ releaseId["POWER_KEY"] \notin { 0, releaseCache }
      <3>1. inside' = { [ init |-> FALSE, list |-> list, stale |-> stale ] } /\ S!Cancel
        BY <1>3, <2>5 DEF S!UpdateSuspendSources
      <3>7. \A x \in inside' : x.list = list /\ ~x.init /\ (stale => x.stale) /\ inside' = {x}
        <4>1. PICK x : x = [ init |-> FALSE, list |-> list, stale |-> stale ] /\ inside' = {x}
          BY <3>1
        <4>2. x.list = list /\ x.init = FALSE
          BY <4>1
        <4>3. x.stale = stale
          BY <4>1
        <4> HIDE DEF stale
        <4> QED BY <4>1, <4>2, <4>3, Zenon
      <3>2. /\ live' = { x \in live : x.id # releaseId[x.reason] } /\ monitorMap' = << >>
            /\ releaseId' = [ r \in S!Subscribed |-> 0 ] /\ UNCHANGED << releaseCache, lastId >>
        BY <3>1 DEF S!Cancel
      <3>3. SourcesTyped'
        BY <2>1, <3>1, <3>2, ListIsFunction DEF SourcesTyped
      <3>4. KeyIsCached' /\ KeyMonitorKnowsId' /\ KeyIsNotLeft'
        <4>1. DOMAIN monitorMap' = {}
          BY <3>2
        <4> QED BY <3>1, <3>2, <4>1 DEF KeyIsCached, KeySubscriptions, KeyMonitorKnowsId,
                   KeyIsNotLeft, S!Subscribed
      <3>5. MonitorsAreCancelled'
        <4>1. ~disturbed' /\ releaseId["POWER_KEY"] = 0 => KeySubscriptions = {}
          BY <2>1, <2>2 DEF KeyIsNotLeft
        <4>2. ~disturbed' /\ releaseId["POWER_KEY"] \in { 0, releaseCache } => KeySubscriptions' = {}
          BY <3>2, <4>1 DEF KeyIsCached, KeySubscriptions
        <4> QED BY <3>7, <3>2, <4>2 DEF MonitorsAreCancelled
      <3>6. MonitorsAreComing'
        BY <2>2, <2>3, <3>7, <3>1 DEF MonitorsAreComing, SourcesNow
      <3> QED BY <2>3, <3>3, <3>4, <3>5, <3>6
    <2> QED BY <2>4, <2>5
  <1>4. ASSUME S!UpdateMonitors PROVE SourcesInv'
    <2>1. PICK x \in inside :
             /\ ~x.init /\ S!CreateMonitors(x.list, x.stale) /\ inside' = {}
             /\ UNCHANGED << build, plugged, row, observer, connectStatus, updates, handler >>
      BY <1>4 DEF S!UpdateMonitors, S!settings
    <2>2. /\ lastId' \in Nat /\ releaseId' \in [ S!Subscribed -> Nat ]
          /\ KeyIsCached' /\ KeyMonitorKnowsId'
          /\ ~disturbed' => ~disturbed
          /\ ~disturbed' /\ releaseId'["POWER_KEY"] = 0 => KeySubscriptions' = {}
          /\ ~disturbed' => MonitorsFit(x.list)'
      BY <2>1, MonitorsAreMade
    <2>3. SourcesTyped' /\ StatusIsKnown' /\ InitIsAlone'
      BY <2>1, <2>2 DEF SourcesTyped, StatusIsKnown, InitIsAlone, Status
    <2>4. KeyIsNotLeft' /\ MonitorsAreCancelled'
      BY <2>1, <2>2 DEF KeyIsNotLeft, MonitorsAreCancelled
    <2>5. MonitorsAreComing'
      <3>1. SourcesNow' = SourcesNow
        BY <2>1 DEF SourcesNow, Status, S!RowOf
      <3>2. handler = "idle" /\ updates = 0 /\ observer /\ ~disturbed /\ SourcesNow # << >> =>
                x.list = SourcesNow
        BY <2>1 DEF MonitorsAreComing
      <3>3. MonitorsFit(x.list)' /\ x.list = SourcesNow => MonitorsFit(SourcesNow)'
        BY <3>1 DEF MonitorsFit
      <3> QED BY <2>1, <2>2, <3>1, <3>2, <3>3 DEF MonitorsAreComing
    <2> QED BY <2>2, <2>3, <2>4, <2>5
  <1>5. ASSUME NEW k \in S!Rows, NEW text \in Texts, S!UserChangesSources(k, text) PROVE SourcesInv'
    <2>1. /\ handler = "idle" /\ updates' \in Nat /\ (observer => updates' # 0)
          /\ UNCHANGED << build, plugged, connectStatus, observer, handler, inside, monitorMap, releaseId,
                          releaseCache, live, lastId, disturbed >>
      BY <1>5 DEF S!UserChangesSources, S!monitors, SourcesTyped
    <2> QED
      BY <2>1 DEF SourcesTyped, StatusIsKnown, InitIsAlone, KeyIsCached, KeySubscriptions,
         KeyMonitorKnowsId,
                  KeyIsNotLeft, MonitorsAreCancelled, MonitorsAreComing, Status
  <1>6. ASSUME S!OnPowerConnectStatusChanged PROVE SourcesInv'
    <2>1. /\ handler = "idle" /\ handler' = "charger" /\ connectStatus' = Status'
          /\ UNCHANGED << build, row, observer, updates, inside, monitorMap, releaseId,
                          releaseCache, live, lastId, disturbed >>
      BY <1>6 DEF S!OnPowerConnectStatusChanged, S!monitors, Status
    <2> QED
      BY <2>1 DEF SourcesTyped, StatusIsKnown, InitIsAlone, KeyIsCached, KeySubscriptions,
         KeyMonitorKnowsId,
                  KeyIsNotLeft, MonitorsAreCancelled, MonitorsAreComing
  <1>7. ASSUME S!UserSwitched PROVE SourcesInv'
    <2>1. /\ handler = "idle" /\ handler' = "switching" /\ observer' = FALSE
          /\ UNCHANGED << build, plugged, connectStatus, updates, inside, monitorMap, releaseId,
                          releaseCache, live, lastId, disturbed >>
      BY <1>7 DEF S!UserSwitched, S!monitors
    <2> QED
      BY <2>1 DEF SourcesTyped, StatusIsKnown, InitIsAlone, KeyIsCached, KeySubscriptions,
         KeyMonitorKnowsId,
                  KeyIsNotLeft, MonitorsAreCancelled, MonitorsAreComing, Status
  <1>8. ASSUME UNCHANGED S!vars PROVE SourcesInv'
    BY <1>8 DEF S!vars, SourcesTyped, StatusIsKnown, InitIsAlone, KeyIsCached, KeySubscriptions,
       KeyMonitorKnowsId,
                KeyIsNotLeft, MonitorsAreCancelled, MonitorsAreComing, Status, SourcesNow, MonitorsFit, S!RowOf
  <1> QED BY <1>1, <1>2, <1>3, <1>4, <1>5, <1>6, <1>7, <1>8 DEF S!Next

\* Once every update has run, the suspend monitors are those of the object of the current user and
\* supply, and the power key is subscribed for its action, whatever the texts of the objects
\* (SuspendController::UpdateSuspendSources, PowerConnectStatus), as long as no subscription failed
\* and no update was overtaken.
THEOREM SuspendMonitorsFollow == S!Spec => []S!MonitorsFollowSources
  <1>1. SourcesInv => S!MonitorsFollowSources
    BY DEF SourcesInv, MonitorsAreComing, MonitorsFit, KeySubscriptions, SourcesNow, Status,
           S!MonitorsFollowSources
  <1> QED BY <1>1, SourcesInit, SourcesStep, PTL DEF S!Spec

-------------------------------------------------------------------------------
(* WakeupMonitors *)

\* The objects, and the threads of the observers.
Objects == [ state : { "none", "bad", "ok" }, on : SUBSET (W!JsonKeys \cup ConfigOn) ]
Observers == [ func : { "sources" } \cup W!Rows, pc : { "start", "enable", "object" },
               enable : BOOLEAN, object : Objects ]
WakeupTyped ==
    /\ json \in Objects /\ parsed \in Objects /\ lastId \in Nat
    /\ json.state # "ok" => json.on = {}
    /\ handler \in { "parsed", "reparsed" } => parsed.state = "ok"
    /\ row \in [ W!Rows -> { 0, 1, W!Missing } ]
    /\ updates \subseteq Observers

\* The threads of a switch that are still to read it, and those that have.
Starting(k) == { t \in updates : t.func = k /\ t.pc = "start" }
Changing(k) == { t \in updates : t.func = k /\ t.pc # "start" }

\* Which observers there are; with the sources' there are rows.
ObserversAreThere ==
    /\ ~switchObserver => \A k \in W!Rows : Starting(k) = {} /\ Changing(k) = {}
    /\ handler \in { "idle", "reinit", "reparsed" } => switchObserver
    /\ handler \in { "register", "idle" } =>
           (keysObserver \/ disturbed) /\ \A k \in W!Rows : row[k] # W!Missing

\* One thread at a time changes a source, under the mutex and with the object as it is.
ChangesAreAlone ==
    ~disturbed =>
        /\ \A k \in W!Rows : \A x, y \in Changing(k) : x = y
        /\ \A k \in W!Rows : \A t \in Changing(k) :
               t.pc = "object" => sourceUpdateMutex = {k} /\ t.object = json

\* A switch that has a row says whether its source is enabled.
SwitchAgrees(k) == row[k] = W!Missing \/ (k \in W!ParseSources(json).on <=> row[k] = 1)

\* With no thread to read the switch, the one that has read it knows its value, or it agrees.
AgreementIsComing ==
    ~disturbed => \A k \in W!Rows : Starting(k) = {} =>
        /\ \A t \in Changing(k) : t.enable <=> row[k] = 1
        /\ Changing(k) = {} => SwitchAgrees(k)

\* With no thread to make the monitors they are those of the enabled sources.
WakeupMonitorsAreComing ==
    ~disturbed /\ handler \in { "register", "idle" } /\ Starting("sources") = {} =>
        W!SourceList(W!ParseSources(json)) \in { {}, monitorMap }

\* The inductive invariant of the wake-up sources.
WakeupInv ==
    /\ WakeupTyped
    /\ ObserversAreThere
    /\ ChangesAreAlone
    /\ AgreementIsComing
    /\ WakeupMonitorsAreComing

\* Before the boot there is no thread, and every row that is there is of an object that is.
LEMMA WakeupInit == W!Init => WakeupInv
  <1> SUFFICES ASSUME W!Init PROVE WakeupInv
    OBVIOUS
  <1>1. json \in Objects /\ (json.state # "ok" => json.on = {})
    BY DEF W!Init, Objects, W!ConfigFile
  <1>2. row \in [ W!Rows -> { 0, 1, W!Missing } ]
    BY DEF W!Init, W!Rows
  <1>3. WakeupTyped
    BY <1>1, <1>2 DEF W!Init, WakeupTyped
  <1>4. \A k \in W!Rows : SwitchAgrees(k)
    BY <1>1 DEF W!Init, SwitchAgrees, W!ParseSources, W!Missing
  <1>5. ObserversAreThere /\ ChangesAreAlone /\ AgreementIsComing /\ WakeupMonitorsAreComing
    BY <1>4 DEF W!Init, ObserversAreThere, ChangesAreAlone, AgreementIsComing,
       WakeupMonitorsAreComing,
                Starting, Changing
  <1> QED BY <1>3, <1>5 DEF WakeupInv

\* Threads that are started have read nothing yet.
LEMMA ObserversStart ==
  ASSUME NEW k, NEW new, \A t \in new : \E f \in { "sources" } \cup W!Rows : t = W!Thread(f),
         updates' = updates \cup new, WakeupTyped
  PROVE  /\ updates' \subseteq Observers
         /\ Changing(k)' = Changing(k) /\ Starting(k) \subseteq Starting(k)'
         /\ W!Thread(k) \in new => Starting(k)' # {}
         /\ W!Thread(k) \notin new => Starting(k)' = Starting(k)
  <1>1. \A f \in { "sources" } \cup W!Rows : W!Thread(f) \in Observers
    BY DEF W!Thread, Observers, Objects
  <1>2. \A f : W!Thread(f).func = f /\ W!Thread(f).pc = "start"
    BY DEF W!Thread
  <1> QED BY <1>1, <1>2 DEF WakeupTyped, Changing, Starting

\* A thread that goes on leaves the others.
LEMMA ObserverGoesOn ==
  ASSUME NEW k, NEW t \in updates, NEW u, u.func = t.func, u.pc # "start",
         updates' = (updates \ {t}) \cup {u}
  PROVE  /\ t.func # k => Changing(k)' = Changing(k) /\ Starting(k)' = Starting(k)
         /\ t.func = k => Changing(k)' = (Changing(k) \ {t}) \cup {u} /\ Starting(k)' = Starting(k) \ {t}
  BY DEF Changing, Starting

\* The same of one that ends.
LEMMA ObserverEnds ==
  ASSUME NEW k, NEW t \in updates, updates' = updates \ {t}
  PROVE  /\ t.func # k => Changing(k)' = Changing(k) /\ Starting(k)' = Starting(k)
         /\ t.func = k => Changing(k)' = Changing(k) \ {t} /\ Starting(k)' = Starting(k) \ {t}
  BY DEF Changing, Starting

\* The monitors of a list are made, or the subscription failed.
LEMMA WakeupMonitorsAreMade ==
  ASSUME NEW list, NEW first, NEW gone, W!CreateMonitors(list, first, gone), lastId \in Nat
  PROVE  lastId' \in Nat /\ (~W!Failed(list) => monitorMap' = first \cup list)
  BY DEF W!CreateMonitors, W!Failed, W!SubscribePowerkey, W!SubscribePowerkeyFails

\* Every update function, switch and change of the user preserves it.
LEMMA WakeupStep == WakeupInv /\ [W!Next]_W!vars => WakeupInv'
  <1> SUFFICES ASSUME WakeupInv, [W!Next]_W!vars PROVE WakeupInv'
    OBVIOUS
  <1>0. WakeupTyped /\ ObserversAreThere /\ ChangesAreAlone /\ AgreementIsComing /\ WakeupMonitorsAreComing
    BY DEF WakeupInv
  <1>a. "sources" \notin W!Rows /\ "touchscreen" \in W!Rows /\ "lid" \in W!Rows
    BY DEF W!Rows
  <1>1. ASSUME NEW t \in updates, W!SourcesUpdateFunc(t) PROVE WakeupInv'
    <2> DEFINE list == W!SourceList(W!ParseSources(json))
    <2>1. /\ t.func = "sources" /\ updates' = updates \ {t}
          /\ list = {} => UNCHANGED << monitorMap, lastId, disturbed >>
          /\ list # {} => W!CreateMonitors(list, {}, { shortPressId })
          /\ UNCHANGED << json, row, sourceUpdateMutex, keysObserver, switchObserver, handler, parsed >>
      BY <1>1 DEF W!SourcesUpdateFunc, W!monitors
    <2>2. ~disturbed' => ~disturbed /\ (list # {} => ~W!Failed(list))
      BY <1>1, Zenon DEF W!SourcesUpdateFunc
    <2>3. lastId' \in Nat /\ (~disturbed' => list \in { {}, monitorMap' })
      <3>1. CASE list = {}
        BY <1>0, <2>1, <3>1 DEF WakeupTyped
      <3>2. CASE list # {}
        <4> HIDE DEF list
        <4>1. lastId \in Nat
          BY <1>0 DEF WakeupTyped
        <4>2. lastId' \in Nat /\ (~W!Failed(list) => monitorMap' = {} \cup list)
          BY <2>1, <3>2, <4>1, WakeupMonitorsAreMade
        <4> QED BY <2>2, <3>2, <4>2
      <3> QED BY <3>1, <3>2
    <2>4. WakeupTyped'
      BY <1>0, <2>1, <2>3 DEF WakeupTyped
    <2>5. \A k \in W!Rows : Changing(k)' = Changing(k) /\ Starting(k)' = Starting(k)
      BY <1>a, <2>1, ObserverEnds
    <2>6. ObserversAreThere'
      BY <1>0, <2>1, <2>2, <2>5 DEF ObserversAreThere
    <2>7. ChangesAreAlone'
      BY <1>0, <2>1, <2>2, <2>5 DEF ChangesAreAlone
    <2>8. AgreementIsComing'
      BY <1>0, <2>1, <2>2, <2>5 DEF AgreementIsComing, SwitchAgrees, W!ParseSources
    <2>9. WakeupMonitorsAreComing'
      BY <2>1, <2>3 DEF WakeupMonitorsAreComing, W!SourceList, W!ParseSources
    <2> QED BY <2>4, <2>6, <2>7, <2>8, <2>9 DEF WakeupInv
  <1>2. ASSUME W!InitParses PROVE WakeupInv'
    <2>1. /\ handler \in { "init", "reinit" } /\ handler' = IF handler = "init" THEN "parsed" ELSE "reparsed"
          /\ parsed' = W!ParseSources(json)
          /\ UNCHANGED << json, row, updates, sourceUpdateMutex, keysObserver, switchObserver, monitorMap,
                          lastId, disturbed >>
      BY <1>2 DEF W!InitParses, W!settings, W!monitors
    <2>2. parsed' \in Objects /\ parsed'.state = "ok"
      BY <1>0, <2>1 DEF WakeupTyped, W!ParseSources, W!ConfigFile, Objects
    <2>3. WakeupTyped'
      BY <1>0, <2>1, <2>2 DEF WakeupTyped
    <2>4. \A k \in W!Rows : Changing(k)' = Changing(k) /\ Starting(k)' = Starting(k)
      BY <2>1 DEF Changing, Starting
    <2>5. ObserversAreThere' /\ ChangesAreAlone' /\ WakeupMonitorsAreComing'
      BY <1>0, <2>1, <2>4 DEF ObserversAreThere, ChangesAreAlone, WakeupMonitorsAreComing
    <2>6. AgreementIsComing'
      BY <1>0, <2>1, <2>4 DEF AgreementIsComing, SwitchAgrees, W!ParseSources
    <2> QED BY <2>3, <2>5, <2>6 DEF WakeupInv
  <1>3. ASSUME W!InitMonitors PROVE WakeupInv'
    <2> DEFINE changed == { k \in W!Rows : row'[k] # row[k] }
               list == W!SourceList(parsed)
               more == (IF list = {} THEN {} ELSE { W!Thread("sources") }) \cup W!RowThreads(changed)
    <2>1. /\ handler \in { "parsed", "reparsed" } /\ handler' = IF handler = "parsed" THEN "register" ELSE "idle"
          /\ json' = parsed /\ row' = W!SetOriginSettingValue(parsed)
          /\ IF list = {} THEN lastId' = lastId
             ELSE W!CreateMonitors(list, monitorMap, {}) /\ keysObserver' = TRUE
          /\ updates' = updates \cup more
          /\ UNCHANGED << sourceUpdateMutex, switchObserver, parsed >>
      BY <1>3 DEF W!InitMonitors, W!monitors
    <2>2. ~disturbed' => ~disturbed /\ list # {} /\ parsed = W!ParseSources(json) /\ sourceUpdateMutex = {}
      BY <1>3, Zenon DEF W!InitMonitors
    <2>3. PICK new : new = more
      OBVIOUS
    <2>4. /\ updates' = updates \cup new
          /\ \A t \in new : \E f \in { "sources" } \cup W!Rows : t = W!Thread(f)
          /\ list # {} => W!Thread("sources") \in new
          /\ switchObserver => \A k \in changed : W!Thread(k) \in new
          /\ ~switchObserver => new \subseteq { W!Thread("sources") }
      BY <2>1, <2>3 DEF W!RowThreads
    <2> HIDE DEF more
    <2>5. /\ updates' \subseteq Observers /\ (list # {} => Starting("sources")' # {})
          /\ \A k : Changing(k)' = Changing(k) /\ Starting(k) \subseteq Starting(k)'
      BY <1>0, <2>4, ObserversStart
    <2>6. switchObserver => \A k \in changed : Starting(k)' # {}
      BY <1>0, <2>4, ObserversStart
    <2>7. ~switchObserver => \A k \in W!Rows : Starting(k)' = Starting(k)
      <3>1. \A k \in W!Rows : W!Thread(k) # W!Thread("sources")
        BY <1>a DEF W!Thread
      <3> QED BY <1>0, <2>4, <3>1, ObserversStart
    <2>8. /\ parsed.state = "ok" /\ parsed \in Objects /\ row \in [ W!Rows -> { 0, 1, W!Missing } ]
          /\ row' \in [ W!Rows -> { 0, 1 } ]
          /\ \A k \in W!Rows : IF row[k] = W!Missing THEN row'[k] # row[k] /\ (k \in parsed.on <=> row'[k] = 1)
                               ELSE row'[k] = row[k]
      <3>1. row \in [ W!Rows -> { 0, 1, W!Missing } ] /\ parsed.state = "ok" /\ parsed \in Objects
        BY <1>0, <2>1 DEF WakeupTyped
      <3> QED BY <2>1, <3>1 DEF W!SetOriginSettingValue, W!Missing
    <2>9. WakeupTyped'
      <3>1. lastId' \in Nat
        BY <1>0, <2>1, WakeupMonitorsAreMade DEF WakeupTyped
      <3> QED BY <2>1, <2>5, <2>8, <3>1 DEF WakeupTyped
    <2>10. ObserversAreThere'
      <3>1. keysObserver' \/ disturbed'
        BY <2>1, <2>2
      <3> QED BY <1>0, <2>1, <2>5, <2>7, <2>8, <3>1 DEF ObserversAreThere, W!Missing
    <2>11. ChangesAreAlone'
      BY <1>0, <2>1, <2>2, <2>5 DEF ChangesAreAlone
    <2>12. AgreementIsComing'
      <3> SUFFICES ASSUME ~disturbed', NEW k \in W!Rows, Starting(k)' = {}
                   PROVE  /\ \A t \in Changing(k)' : t.enable <=> row'[k] = 1
                          /\ Changing(k)' = {} => SwitchAgrees(k)'
        BY DEF AgreementIsComing
      <3>1. Starting(k) = {} /\ Changing(k)' = Changing(k)
        BY <2>5
      <3>2. /\ \A t \in Changing(k) : t.enable <=> row[k] = 1
            /\ Changing(k) = {} => SwitchAgrees(k)
        BY <1>0, <2>2, <3>1 DEF AgreementIsComing
      <3>3. W!ParseSources(json)' = parsed
        BY <2>1, <2>8 DEF W!ParseSources
      <3>4. CASE row[k] = W!Missing
        <4>1. ~switchObserver
          BY <2>6, <2>8, <3>4
        <4>2. Changing(k) = {}
          BY <1>0, <4>1 DEF ObserversAreThere
        <4> QED BY <2>8, <3>1, <3>3, <3>4, <4>2 DEF SwitchAgrees
      <3>5. CASE row[k] # W!Missing
        BY <2>2, <2>8, <3>1, <3>2, <3>3, <3>5 DEF SwitchAgrees
      <3> QED BY <3>4, <3>5
    <2>13. WakeupMonitorsAreComing'
      BY <2>2, <2>5 DEF WakeupMonitorsAreComing
    <2> QED BY <2>9, <2>10, <2>11, <2>12, <2>13 DEF WakeupInv
  <1>4. ASSUME W!RegisterSwitchObservers PROVE WakeupInv'
    <2>1. PICK new : new = { W!Thread(k) : k \in W!Rows }
      OBVIOUS
    <2>2. /\ handler = "register" /\ handler' = "idle" /\ switchObserver' = TRUE /\ updates' = updates \cup new
          /\ UNCHANGED << json, row, sourceUpdateMutex, keysObserver, parsed, monitorMap, lastId, disturbed >>
      BY <1>4, <2>1 DEF W!RegisterSwitchObservers, W!monitors
    <2>3. /\ \A t \in new : \E f \in { "sources" } \cup W!Rows : t = W!Thread(f)
          /\ \A k \in W!Rows : W!Thread(k) \in new
          /\ W!Thread("sources") \notin new
      <3>1. \A k \in W!Rows : W!Thread(k) # W!Thread("sources")
        BY <1>a DEF W!Thread
      <3> QED BY <2>1, <3>1
    <2>4. /\ updates' \subseteq Observers
          /\ \A k : Changing(k)' = Changing(k)
          /\ \A k \in W!Rows : Starting(k)' # {}
          /\ Starting("sources")' = Starting("sources")
      BY <1>0, <2>2, <2>3, ObserversStart
    <2>5. WakeupTyped' /\ ObserversAreThere'
      BY <1>0, <2>2, <2>4 DEF WakeupTyped, ObserversAreThere
    <2>6. ChangesAreAlone' /\ AgreementIsComing'
      BY <1>0, <2>2, <2>4 DEF ChangesAreAlone, AgreementIsComing
    <2>7. WakeupMonitorsAreComing'
      BY <1>0, <2>2, <2>4 DEF WakeupMonitorsAreComing, W!SourceList, W!ParseSources
    <2> QED BY <2>5, <2>6, <2>7 DEF WakeupInv
  <1>5. ASSUME NEW t \in updates, W!ReadSwitch(t) PROVE WakeupInv'
    <2>1. t \in Observers /\ t.func \in W!Rows /\ t.pc = "start"
      BY <1>0, <1>5 DEF WakeupTyped, W!ReadSwitch
    <2>2. PICK b \in BOOLEAN : b = (row[t.func] = 1)
      OBVIOUS
    <2>3. PICK u : u = [ t EXCEPT !.pc = "enable", !.enable = b ]
      OBVIOUS
    <2>4. /\ updates' = (updates \ {t}) \cup {u}
          /\ UNCHANGED << json, row, sourceUpdateMutex, keysObserver, switchObserver, handler, parsed,
                          monitorMap, lastId >>
      BY <1>5, <2>2, <2>3 DEF W!ReadSwitch, W!monitors
    <2>5. ~disturbed' => ~disturbed /\ Changing(t.func) = {}
      <3>1. ~disturbed' => ~disturbed /\ ~\E x \in updates : x.func = t.func /\ x.pc # "start"
        BY <1>5, Zenon DEF W!ReadSwitch
      <3> QED BY <3>1 DEF Changing
    <2>6. u \in Observers /\ u.func = t.func /\ u.pc = "enable"
      BY <2>1, <2>2, <2>3 DEF Observers
    <2>7. u.enable = b
      BY <2>1, <2>2, <2>3 DEF Observers
    <2>8. /\ \A k : k # t.func => Changing(k)' = Changing(k) /\ Starting(k)' = Starting(k)
          /\ Changing(t.func)' = (Changing(t.func) \ {t}) \cup {u}
      BY <2>4, <2>6, ObserverGoesOn
    <2>9. WakeupTyped' /\ ObserversAreThere'
      <3>1. WakeupTyped'
        BY <1>0, <2>4, <2>6 DEF WakeupTyped
      <3>2. switchObserver
        <4>1. Starting(t.func) # {}
          BY <2>1 DEF Starting
        <4> QED BY <1>0, <2>1, <4>1 DEF ObserversAreThere
      <3> QED BY <1>0, <2>4, <2>5, <3>1, <3>2 DEF ObserversAreThere
    <2>10. ChangesAreAlone'
      <3> SUFFICES ASSUME ~disturbed', NEW k \in W!Rows
                   PROVE  /\ \A x, y \in Changing(k)' : x = y
                          /\ \A x \in Changing(k)' : x.pc = "object" => sourceUpdateMutex' = {k} /\ x.object = json'
        BY DEF ChangesAreAlone
      <3>1. CASE k = t.func
        <4>1. Changing(k)' = {u}
          BY <2>5, <2>8, <3>1
        <4> QED BY <2>6, <4>1
      <3>2. CASE k # t.func
        BY <1>0, <2>4, <2>5, <2>8, <3>2 DEF ChangesAreAlone
      <3> QED BY <3>1, <3>2
    <2>11. AgreementIsComing'
      <3> SUFFICES ASSUME ~disturbed', NEW k \in W!Rows, Starting(k)' = {}
                   PROVE  /\ \A x \in Changing(k)' : x.enable <=> row'[k] = 1
                          /\ Changing(k)' = {} => SwitchAgrees(k)'
        BY DEF AgreementIsComing
      <3>1. CASE k = t.func
        <4>1. Changing(k)' = {u}
          BY <2>5, <2>8, <3>1
        <4>2. row'[k] = row[t.func]
          BY <2>4, <3>1
        <4>3. u.enable <=> row'[k] = 1
          BY <2>2, <2>7, <4>2, Zenon
        <4> QED BY <4>1, <4>3
      <3>2. CASE k # t.func
        BY <1>0, <2>4, <2>5, <2>8, <3>2 DEF AgreementIsComing, SwitchAgrees, W!ParseSources
      <3> QED BY <3>1, <3>2
    <2>12. WakeupMonitorsAreComing'
      BY <1>0, <1>a, <2>1, <2>4, <2>5, <2>8 DEF WakeupMonitorsAreComing, W!SourceList,
         W!ParseSources
    <2> QED BY <2>9, <2>10, <2>11, <2>12 DEF WakeupInv
  <1>6. ASSUME NEW t \in updates, W!ChangeWakeupSourceConfig(t) PROVE WakeupInv'
    <2>1. t \in Observers /\ t.func \in W!Rows /\ t.pc = "enable" /\ t \in Changing(t.func)
      BY <1>0, <1>6 DEF WakeupTyped, W!ChangeWakeupSourceConfig, Changing
    <2>2. PICK u : u = [ t EXCEPT !.pc = "object", !.object = json ]
      OBVIOUS
    <2>3. /\ updates' = (updates \ {t}) \cup {u} /\ sourceUpdateMutex = {} /\ sourceUpdateMutex' = { t.func }
          /\ UNCHANGED << json, row, keysObserver, switchObserver, handler, parsed,
                          monitorMap, lastId, disturbed >>
      BY <1>6, <2>2 DEF W!ChangeWakeupSourceConfig, W!monitors
    <2>4. json \in Objects
      BY <1>0 DEF WakeupTyped
    <2>5. u \in Observers /\ u.func = t.func /\ u.pc = "object" /\ u.object = json
      BY <2>1, <2>2, <2>4 DEF Observers
    <2>6. u.enable = t.enable
      BY <2>1, <2>2 DEF Observers
    <2>7. /\ \A k : k # t.func => Changing(k)' = Changing(k) /\ Starting(k)' = Starting(k)
          /\ Changing(t.func)' = (Changing(t.func) \ {t}) \cup {u}
          /\ Starting(t.func)' = Starting(t.func) \ {t}
      BY <2>3, <2>5, ObserverGoesOn
    <2>8. Starting(t.func)' = Starting(t.func)
      BY <2>1, <2>7 DEF Starting
    <2>9. ~disturbed => Changing(t.func) = {t} /\ Changing(t.func)' = {u}
      BY <1>0, <2>1, <2>7 DEF ChangesAreAlone
    <2>10. WakeupTyped' /\ ObserversAreThere'
      <3>1. WakeupTyped'
        BY <1>0, <2>3, <2>5 DEF WakeupTyped
      <3>2. switchObserver
        BY <1>0, <2>1 DEF ObserversAreThere
      <3> QED BY <1>0, <2>3, <3>1, <3>2 DEF ObserversAreThere
    <2>11. ChangesAreAlone'
      <3> SUFFICES ASSUME ~disturbed, NEW k \in W!Rows
                   PROVE  /\ \A x, y \in Changing(k)' : x = y
                          /\ \A x \in Changing(k)' : x.pc = "object" => sourceUpdateMutex' = {k} /\ x.object = json'
        BY <2>3 DEF ChangesAreAlone
      <3>1. CASE k = t.func
        BY <2>3, <2>5, <2>9, <3>1
      <3>2. CASE k # t.func
        <4>1. /\ \A x, y \in Changing(k) : x = y
              /\ \A x \in Changing(k) : x.pc = "object" => sourceUpdateMutex = {k}
          BY <1>0 DEF ChangesAreAlone
        <4> QED BY <2>3, <2>7, <3>2, <4>1
      <3> QED BY <3>1, <3>2
    <2>12. AgreementIsComing'
      <3> SUFFICES ASSUME ~disturbed, NEW k \in W!Rows, Starting(k)' = {}
                   PROVE  /\ \A x \in Changing(k)' : x.enable <=> row'[k] = 1
                          /\ Changing(k)' = {} => SwitchAgrees(k)'
        BY <2>3 DEF AgreementIsComing
      <3>1. CASE k = t.func
        <4>1. t.enable <=> row[k] = 1
          BY <1>0, <2>1, <2>8, <3>1 DEF AgreementIsComing
        <4>2. u.enable <=> row'[k] = 1
          BY <2>3, <2>6, <4>1
        <4> QED BY <2>9, <3>1, <4>2
      <3>2. CASE k # t.func
        BY <1>0, <2>3, <2>7, <3>2 DEF AgreementIsComing, SwitchAgrees, W!ParseSources
      <3> QED BY <3>1, <3>2
    <2>13. WakeupMonitorsAreComing'
      BY <1>0, <1>a, <2>1, <2>3, <2>7 DEF WakeupMonitorsAreComing, W!SourceList, W!ParseSources
    <2> QED BY <2>10, <2>11, <2>12, <2>13 DEF WakeupInv
  <1>7. ASSUME NEW t \in updates, W!SetSettingWakeupSources(t) PROVE WakeupInv'
    <2>1. t \in Observers /\ t.func \in W!Rows /\ t.pc = "object" /\ t \in Changing(t.func)
      BY <1>0, <1>7 DEF WakeupTyped, W!SetSettingWakeupSources, Changing
    <2>2. PICK new : new = W!Enabled(t.object, t.func, t.enable)
      OBVIOUS
    <2>3. /\ sourceUpdateMutex' = sourceUpdateMutex \ { t.func }
          /\ t.object.state = "ok" /\ new # t.object =>
                json' = new /\ updates' = (updates \ {t}) \cup W!SourcesThread
          /\ ~(t.object.state = "ok" /\ new # t.object) => json' = json /\ updates' = updates \ {t}
          /\ UNCHANGED << row, keysObserver, switchObserver, handler, parsed, monitorMap, lastId >>
      <3>1. new = IF t.func = "lid" THEN W!LidWakeupParseJsonConfig(t.object, t.enable)
                  ELSE W!WakeupParseJsonConfig(t.object, t.enable)
        BY <2>1, <2>2 DEF W!Rows, W!LidWakeupParseJsonConfig, W!WakeupParseJsonConfig
      <3> QED BY <1>7, <3>1 DEF W!SetSettingWakeupSources, W!monitors
    <2>4. ~disturbed' => ~disturbed /\ (t.object.state = "ok" \/ t.enable = (t.func \in ConfigOn))
      BY <1>7, Zenon DEF W!SetSettingWakeupSources
    <2>5. /\ t.object \in Objects /\ new \in Objects /\ new.state = t.object.state
          /\ \A k : k # t.func => (k \in new.on <=> k \in t.object.on)
          /\ t.enable => t.func \in new.on
          /\ ~t.enable => t.func \notin new.on
      <3>1. t.object \in Objects /\ t.func \in W!JsonKeys
        BY <2>1 DEF Observers, W!Rows, W!JsonKeys
      <3>2. CASE t.enable
        <4>1. new = [ t.object EXCEPT !.on = @ \cup { t.func } ]
          BY <2>2, <3>2 DEF W!Enabled
        <4> QED BY <3>1, <3>2, <4>1 DEF Objects
      <3>3. CASE ~t.enable
        <4>1. new = [ t.object EXCEPT !.on = @ \ { t.func } ]
          BY <2>2, <3>3 DEF W!Enabled
        <4> QED BY <3>1, <3>3, <4>1 DEF Objects
      <3> QED BY <3>2, <3>3
    <2>6. PICK more : /\ updates' = (updates \ {t}) \cup more
                      /\ more \subseteq { W!Thread("sources") }
                      /\ json' # json /\ keysObserver => more = { W!Thread("sources") }
      <3>1. CASE t.object.state = "ok" /\ new # t.object
        <4>1. W!SourcesThread \subseteq { W!Thread("sources") }
          BY DEF W!SourcesThread
        <4>2. keysObserver => W!SourcesThread = { W!Thread("sources") }
          BY DEF W!SourcesThread
        <4> WITNESS W!SourcesThread
        <4> QED BY <2>3, <3>1, <4>1, <4>2
      <3>2. CASE ~(t.object.state = "ok" /\ new # t.object)
        <4> WITNESS {}
        <4> QED BY <2>3, <3>2
      <3> QED BY <3>1, <3>2
    <2>7. W!Thread("sources") \in Observers /\ W!Thread("sources").func = "sources" /\ W!Thread("sources").pc = "start"
      BY DEF W!Thread, Observers, Objects
    <2>8. /\ \A k \in W!Rows : Starting(k)' = Starting(k)
          /\ \A k \in W!Rows : Changing(k)' = Changing(k) \ {t}
          /\ \A k \in W!Rows : k # t.func => Changing(k)' = Changing(k)
          /\ Starting("sources") \subseteq Starting("sources")'
          /\ more # {} => Starting("sources")' # {}
      BY <1>a, <2>1, <2>6, <2>7 DEF Starting, Changing
    <2>9. WakeupTyped'
      <3>1. updates' \subseteq Observers
        BY <1>0, <2>6, <2>7 DEF WakeupTyped
      <3>2. json' \in Objects /\ (json'.state # "ok" => json'.on = {})
        BY <1>0, <2>3, <2>5 DEF WakeupTyped
      <3> QED BY <1>0, <2>3, <3>1, <3>2 DEF WakeupTyped
    <2>10. ObserversAreThere'
      BY <1>0, <2>3, <2>4, <2>8 DEF ObserversAreThere
    <2>11. ~disturbed' => /\ sourceUpdateMutex = { t.func } /\ t.object = json
                          /\ Changing(t.func) = {t} /\ Changing(t.func)' = {}
      BY <1>0, <2>1, <2>4, <2>8 DEF ChangesAreAlone
    <2>12. ChangesAreAlone'
      <3> SUFFICES ASSUME ~disturbed', NEW k \in W!Rows
                   PROVE  /\ \A x, y \in Changing(k)' : x = y
                          /\ \A x \in Changing(k)' : x.pc = "object" => sourceUpdateMutex' = {k} /\ x.object = json'
        BY DEF ChangesAreAlone
      <3>1. CASE k = t.func
        BY <2>11, <3>1
      <3>2. CASE k # t.func
        <4>1. /\ \A x, y \in Changing(k) : x = y
              /\ \A x \in Changing(k) : x.pc = "object" => sourceUpdateMutex = {k}
          BY <1>0, <2>4 DEF ChangesAreAlone
        <4> QED BY <2>8, <2>11, <3>2, <4>1
      <3> QED BY <3>1, <3>2
    <2>13. AgreementIsComing'
      <3> SUFFICES ASSUME ~disturbed', NEW k \in W!Rows, Starting(k)' = {}
                   PROVE  /\ \A x \in Changing(k)' : x.enable <=> row'[k] = 1
                          /\ Changing(k)' = {} => SwitchAgrees(k)'
        BY DEF AgreementIsComing
      <3>1. /\ \A x \in Changing(k) : x.enable <=> row[k] = 1
            /\ Changing(k) = {} => SwitchAgrees(k)
        BY <1>0, <2>4, <2>8 DEF AgreementIsComing
      <3>2. json.state = "ok" => json' = new
        BY <2>3, <2>11
      <3>3. json.state # "ok" => json' = json
        BY <2>3, <2>11
      <3>4. CASE k = t.func
        <4>1. t.enable <=> row[k] = 1
          BY <2>1, <3>1, <3>4
        <4>2. CASE json.state = "ok"
          <5>1. W!ParseSources(json)' = new
            BY <2>5, <2>11, <3>2, <4>2 DEF W!ParseSources
          <5>2. k \in new.on <=> row[k] = 1
            BY <2>5, <3>4, <4>1
          <5> QED BY <2>3, <2>11, <3>4, <5>1, <5>2 DEF SwitchAgrees
        <4>3. CASE json.state # "ok"
          <5>1. W!ParseSources(json)'.on = ConfigOn
            BY <3>3, <4>3 DEF W!ParseSources, W!ConfigFile
          <5>2. k \in ConfigOn <=> row[k] = 1
            <6>1. t.object.state # "ok"
              BY <2>11, <4>3
            <6> QED BY <2>4, <3>4, <4>1, <6>1, Zenon
          <5> QED BY <2>3, <2>11, <3>4, <5>1, <5>2 DEF SwitchAgrees
        <4> QED BY <4>2, <4>3
      <3>5. CASE k # t.func
        <4>1. k \in W!ParseSources(json)'.on <=> k \in W!ParseSources(json).on
          BY <2>5, <2>11, <3>2, <3>3, <3>5 DEF W!ParseSources
        <4> QED BY <2>3, <2>8, <3>1, <3>5, <4>1 DEF SwitchAgrees
      <3> QED BY <3>4, <3>5
    <2>14. WakeupMonitorsAreComing'
      <3> SUFFICES ASSUME ~disturbed', handler' \in { "register", "idle" }, Starting("sources")' = {}
                   PROVE  W!SourceList(W!ParseSources(json))' \in { {}, monitorMap' }
        BY DEF WakeupMonitorsAreComing
      <3>1. keysObserver /\ handler' = handler
        BY <1>0, <2>3, <2>4 DEF ObserversAreThere
      <3>2. json' = json
        BY <2>6, <2>8, <3>1
      <3> QED BY <1>0, <2>3, <2>4, <2>8, <3>1, <3>2 DEF WakeupMonitorsAreComing, W!SourceList,
                 W!ParseSources
    <2> QED BY <2>9, <2>10, <2>12, <2>13, <2>14 DEF WakeupInv
  <1>8. ASSUME NEW k \in W!Rows, W!UserTurnsSwitch(k) PROVE WakeupInv'
    <2>1. PICK new : new = { W!Thread(k) }
      OBVIOUS
    <2>2. /\ switchObserver /\ row[k] # W!Missing /\ row' = [ row EXCEPT ![k] = 1 - @ ]
          /\ updates' = updates \cup new
          /\ UNCHANGED << json, sourceUpdateMutex, keysObserver, switchObserver, handler, parsed,
                          monitorMap, lastId, disturbed >>
      <3>1. W!RowThreads({k}) = IF switchObserver THEN new ELSE {}
        BY <2>1 DEF W!RowThreads
      <3> QED BY <1>8, <3>1 DEF W!UserTurnsSwitch, W!monitors
    <2>3. \A j : W!Thread(j) = W!Thread(k) => j = k
      BY DEF W!Thread
    <2>4. /\ updates' \subseteq Observers
          /\ \A j : Changing(j)' = Changing(j)
          /\ Starting(k)' # {}
          /\ \A j : j # k => Starting(j)' = Starting(j)
      <3>1. \A t \in new : \E f \in { "sources" } \cup W!Rows : t = W!Thread(f)
        BY <2>1
      <3>2. \A j : W!Thread(j) \in new <=> j = k
        BY <2>1, <2>3
      <3> QED BY <1>0, <2>2, <3>1, <3>2, ObserversStart
    <2>5. /\ row' \in [ W!Rows -> { 0, 1, W!Missing } ] /\ row'[k] # W!Missing
          /\ \A j \in W!Rows : j # k => row'[j] = row[j]
      BY <1>0, <2>2 DEF WakeupTyped, W!Missing
    <2>6. WakeupTyped' /\ ObserversAreThere'
      BY <1>0, <2>2, <2>4, <2>5 DEF WakeupTyped, ObserversAreThere
    <2>7. ChangesAreAlone'
      BY <1>0, <2>2, <2>4 DEF ChangesAreAlone
    <2>8. AgreementIsComing'
      BY <1>0, <2>2, <2>4, <2>5 DEF AgreementIsComing, SwitchAgrees, W!ParseSources
    <2>9. WakeupMonitorsAreComing'
      BY <1>0, <1>a, <2>2, <2>4 DEF WakeupMonitorsAreComing, W!SourceList, W!ParseSources
    <2> QED BY <2>6, <2>7, <2>8, <2>9 DEF WakeupInv
  <1>9. ASSUME W!UserChangesSources("mouse") PROVE WakeupInv'
    <2>1. PICK new : /\ new = W!SourcesThread /\ new \subseteq { W!Thread("sources") }
                     /\ keysObserver => new = { W!Thread("sources") }
      BY DEF W!SourcesThread
    <2>2. /\ handler = "idle" /\ json.state = "ok" /\ updates' = updates \cup new
          /\ json' = [ json EXCEPT !.on = IF "mouse" \in @ THEN @ \ {"mouse"} ELSE @ \cup {"mouse"} ]
          /\ UNCHANGED << row, sourceUpdateMutex, keysObserver, switchObserver, handler, parsed,
                          monitorMap, lastId >>
      BY <1>9, <2>1 DEF W!UserChangesSources, W!monitors
    <2>3. ~disturbed' => ~disturbed /\ sourceUpdateMutex = {}
      BY <1>9, Zenon DEF W!UserChangesSources
    <2>4. \A k \in W!Rows : W!Thread(k) # W!Thread("sources")
      BY <1>a DEF W!Thread
    <2>5. /\ updates' \subseteq Observers
          /\ \A k : Changing(k)' = Changing(k)
          /\ keysObserver => Starting("sources")' # {}
          /\ \A k \in W!Rows : Starting(k)' = Starting(k)
      <3>1. \A t \in new : \E f \in { "sources" } \cup W!Rows : t = W!Thread(f)
        BY <2>1
      <3>2. (keysObserver => W!Thread("sources") \in new) /\ \A k \in W!Rows : W!Thread(k) \notin new
        BY <2>1, <2>4
      <3> QED BY <1>0, <2>2, <3>1, <3>2, ObserversStart
    <2>6. /\ json' \in Objects /\ json'.state = "ok"
          /\ \A k \in W!Rows : k \in json'.on <=> k \in json.on
      <3>1. json \in Objects /\ "mouse" \in W!JsonKeys /\ "mouse" \notin W!Rows
        BY <1>0 DEF WakeupTyped, W!JsonKeys, W!Rows
      <3> QED BY <2>2, <3>1 DEF Objects
    <2>7. WakeupTyped' /\ ObserversAreThere'
      BY <1>0, <2>2, <2>3, <2>5, <2>6 DEF WakeupTyped, ObserversAreThere
    <2>8. ChangesAreAlone'
      BY <1>0, <2>2, <2>3, <2>5 DEF ChangesAreAlone
    <2>9. AgreementIsComing'
      BY <1>0, <2>2, <2>3, <2>5, <2>6 DEF AgreementIsComing, SwitchAgrees, W!ParseSources
    <2>10. WakeupMonitorsAreComing'
      BY <1>0, <2>2, <2>3, <2>5 DEF WakeupMonitorsAreComing, ObserversAreThere
    <2> QED BY <2>7, <2>8, <2>9, <2>10 DEF WakeupInv
  <1>10. ASSUME W!UserSwitched PROVE WakeupInv'
    <2>1. PICK new : new = { W!Thread("touchscreen") }
      OBVIOUS
    <2>2. /\ handler = "idle" /\ handler' = "reinit" /\ keysObserver' = FALSE /\ updates' = updates \cup new
          /\ UNCHANGED << sourceUpdateMutex, switchObserver, parsed, monitorMap, lastId >>
      BY <1>10, <2>1 DEF W!UserSwitched, W!monitors
    <2>3. ~disturbed' => /\ ~disturbed /\ ~\E t \in updates : t.func \in W!Rows
                         /\ json'.state = "none" => (row["lid"] = 1) = ("lid" \in ConfigOn)
      BY <1>10, Zenon DEF W!UserSwitched
    <2>4. PICK double \in { 0, 1, W!Missing }, on \in SUBSET { "mouse" } :
            /\ row' = [ row EXCEPT !["touchscreen"] = double ]
            /\ double = W!Missing => json' = [ state |-> "none", on |-> {} ]
            /\ double # W!Missing =>
                  json' = [ state |-> "ok",
                            on |-> { "powerkey" } \cup on
                                   \cup (IF double = 1 THEN { "touchscreen" } ELSE {})
                                   \cup (IF row["lid"] = 1 THEN { "lid" } ELSE {}) ]
      BY <1>10 DEF W!UserSwitched
    <2>5. row' \in [ W!Rows -> { 0, 1, W!Missing } ] /\ row'["lid"] = row["lid"]
      BY <1>0, <2>4 DEF WakeupTyped, W!Rows
    <2>6. /\ json' \in Objects /\ (json'.state # "ok" => json'.on = {})
          /\ json'.state = "ok" => ("lid" \in json'.on <=> row["lid"] = 1)
          /\ json'.state # "ok" => json'.state = "none"
      <3>1. CASE double = W!Missing
        BY <2>4, <3>1 DEF Objects
      <3>2. CASE double # W!Missing
        <4>1. PICK turned : /\ json' = [ state |-> "ok", on |-> turned ]
                            /\ turned = { "powerkey" } \cup on
                                        \cup (IF double = 1 THEN { "touchscreen" } ELSE {})
                                        \cup (IF row["lid"] = 1 THEN { "lid" } ELSE {})
          BY <2>4, <3>2
        <4>2. turned \subseteq W!JsonKeys
          BY <4>1 DEF W!JsonKeys
        <4>3. "lid" \in turned <=> row["lid"] = 1
          BY <4>1
        <4> QED BY <4>1, <4>2, <4>3 DEF Objects
      <3> QED BY <3>1, <3>2
    <2>7. \A k \in W!Rows : k = "touchscreen" \/ k = "lid"
      BY DEF W!Rows
    <2>8. updates' \subseteq Observers /\ Starting("touchscreen")' # {} /\ \A k : Changing(k)' = Changing(k)
      <3>1. \A t \in new : \E f \in { "sources" } \cup W!Rows : t = W!Thread(f)
        BY <1>a, <2>1
      <3>2. W!Thread("touchscreen") \in new
        BY <2>1
      <3> QED BY <1>0, <2>2, <3>1, <3>2, ObserversStart
    <2>9. ~disturbed' => \A k \in W!Rows : Changing(k)' = {}
      BY <2>3, <2>8 DEF Changing
    <2>10. WakeupTyped' /\ ObserversAreThere'
      BY <1>0, <2>2, <2>5, <2>6, <2>8 DEF WakeupTyped, ObserversAreThere
    <2>11. ChangesAreAlone'
      BY <2>9 DEF ChangesAreAlone
    <2>12. AgreementIsComing'
      <3>1. ~disturbed' => SwitchAgrees("lid")'
        <4> SUFFICES ASSUME ~disturbed' PROVE SwitchAgrees("lid")'
          OBVIOUS
        <4>1. CASE json'.state = "ok"
          BY <2>5, <2>6, <4>1 DEF SwitchAgrees, W!ParseSources
        <4>2. CASE json'.state # "ok"
          <5>1. "lid" \in ConfigOn <=> row["lid"] = 1
            BY <2>3, <2>6, <4>2, Zenon
          <5>2. W!ParseSources(json)'.on = ConfigOn
            BY <4>2 DEF W!ParseSources, W!ConfigFile
          <5> QED BY <2>5, <5>1, <5>2 DEF SwitchAgrees
        <4> QED BY <4>1, <4>2
      <3> QED BY <2>7, <2>8, <2>9, <3>1 DEF AgreementIsComing
    <2>13. WakeupMonitorsAreComing'
      BY <2>2 DEF WakeupMonitorsAreComing
    <2> QED BY <2>10, <2>11, <2>12, <2>13 DEF WakeupInv
  <1>11. CASE UNCHANGED W!vars
    BY <1>0, <1>11 DEF W!vars, WakeupInv, WakeupTyped, ObserversAreThere, ChangesAreAlone,
       AgreementIsComing,
                       WakeupMonitorsAreComing, SwitchAgrees, Starting, Changing, W!SourceList, W!ParseSources
  <1> QED BY <1>1, <1>2, <1>3, <1>4, <1>5, <1>6, <1>7, <1>8, <1>9, <1>10, <1>11 DEF W!Next

\* Once every thread has run, the monitors are those of the enabled sources and the sources
\* with a switch are enabled as it says (WakeupController::RegisterSettingsObserver,
\* ChangeWakeupSourceConfig), whatever the configuration file enables.
THEOREM WakeupMonitorsFollow == W!Spec => []W!MonitorsFollowSettings
  <1>1. WakeupInv => W!MonitorsFollowSettings
    <2> SUFFICES ASSUME WakeupInv, handler = "idle", updates = {}, ~disturbed, json.on # {}
                 PROVE  /\ monitorMap = W!SourceList(json)
                        /\ \A k \in W!Rows : (k \in json.on) = (row[k] = 1)
      BY DEF W!MonitorsFollowSettings
    <2>1. W!ParseSources(json) = json
      BY DEF WakeupInv, WakeupTyped, W!ParseSources
    <2>2. W!SourceList(json) # {}
      BY DEF W!SourceList
    <2>3. \A k : Starting(k) = {} /\ Changing(k) = {}
      BY DEF Starting, Changing
    <2>4. monitorMap = W!SourceList(json)
      BY <2>1, <2>2, <2>3 DEF WakeupInv, WakeupMonitorsAreComing
    <2>5. \A k \in W!Rows : k \in json.on <=> row[k] = 1
      BY <2>1, <2>3 DEF WakeupInv, AgreementIsComing, ObserversAreThere, SwitchAgrees
    <2> QED BY <2>4, <2>5
  <1> QED BY <1>1, WakeupInit, WakeupStep, PTL DEF W!Spec

===============================================================================
