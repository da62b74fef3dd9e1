----------------------------- MODULE ClientProofs -----------------------------
(***************************************************************************)
(* Proofs about what the service keeps for its clients and what it tells   *)
(* them: ClientTokens (the tables that death recipients clean), Callbacks  *)
(* (the callback holders), LockListeners (the listeners of the screen      *)
(* locks), ScriptCalls (the script framework) and PowerClient (the client  *)
(* library, whose service may die). Each has an inductive invariant of its *)
(* own that every action preserves, for any number of clients, locks and   *)
(* calls. The components share nothing here but the names of their         *)
(* variables.                                                              *)
(***************************************************************************)
EXTENDS Integers, TLAPS

CONSTANTS
    Clients, BlockTypes,            \* ClientTokens, Callbacks
    LockClients, Displays, MaxLocks, MaxCalls,   \* LockListeners
    Calls, MaxRefs, MaxEvents,      \* ScriptCalls
    Locks, CONNECT_RETRY_COUNT, MaxStarts   \* PowerClient

VARIABLES
    screenOffBlockMap, proximityFiltered, forceTimingOut, clientDeathRecipientMap,
    thisInterfaceInvoker, call, alive, buried, watched, obituaries, late, overlap,
    held, screenLockCount, callbacks, notifications, callbacksCopy, told,
    registry, table, recipients, lateCall, tasks, levels, toTell, round, takers, result,
    reachable, error, calls, ref, refs, deleted, registered, stub, events, called,
    up, start, created, proxy, recovery, locksMutex, list, lock, kind, disturbed

T == INSTANCE ClientTokens
K == INSTANCE Callbacks
L == INSTANCE LockListeners WITH Clients <- LockClients
S == INSTANCE ScriptCalls
B == INSTANCE PowerClient

-------------------------------------------------------------------------------
(* ClientTokens *)

\* The death recipient of ClientDeathRecipientManager, and that of SetForceTimingOut.
Manager == "manager"

\* The operation of SetForceTimingOut, which has a death recipient of its own.
Fto == "forceTimingOut"

\* The death of c has been, or will be, reported to d.
Heard(d, c) == c \in watched[d] \/ c \in obituaries[d]

\* The service's tables, the calls in progress, and the obituaries, which only the dead have.
TTyped ==
    /\ screenOffBlockMap \in [ BlockTypes -> SUBSET Clients ]
    /\ clientDeathRecipientMap \in [ Clients -> SUBSET T!Funcs ]
    /\ call \in [ Clients -> T!Calls ]
    /\ watched \in [ T!DeathRecipients -> SUBSET Clients ]
    /\ obituaries \in [ T!DeathRecipients -> SUBSET Clients ]
    /\ thisInterfaceInvoker \subseteq Clients
    /\ \A d \in T!DeathRecipients : obituaries[d] \subseteq buried

\* Whoever is buried is not watched any more: the obituary took the recipient away.
WatchedAreNotBuried == \A d \in T!DeathRecipients : watched[d] \cap buried = {}

\* A client with a function in clientDeathRecipientMap_ is watched, or its obituary waits, unless
\* its call came after the obituary.
MappedAreWatched ==
    \A c \in Clients : clientDeathRecipientMap[c] # {} => c \in late \/ Heard(Manager, c)

\* A screen-off block has its function in the map, or its call is about to put it there.
BlocksAreWatched ==
    \A t \in BlockTypes : \A c \in screenOffBlockMap[t] :
        \/ c \in late
        \/ call[c].op = t /\ call[c].pc = 2
        \/ t \in clientDeathRecipientMap[c]

\* The proximity filter has a client whose function is in the map; the map is filled before the
\* filter is set.
FilterIsWatched ==
    /\ \A c \in Clients : call[c].op = T!Prox /\ call[c].pc = 2 =>
          c \in buried \/ T!Prox \in clientDeathRecipientMap[c]
    /\ proximityFiltered => \E c \in Clients : c \in late \/ T!Prox \in clientDeathRecipientMap[c]

\* The forced time-out has a client that is watched; two calls that overlap may lose one.
TimingOutIsWatched ==
    /\ \A c \in thisInterfaceInvoker : c \in buried \/ c \in watched[Fto]
    /\ \A c \in Clients : call[c].op = Fto /\ call[c].pc = 2 => overlap \/ thisInterfaceInvoker = {c}
    /\ forceTimingOut => overlap \/ \E c \in Clients : c \in late \/ Heard(Fto, c)

\* The inductive invariant of the tables of clients' tokens.
TInv ==
    /\ TTyped
    /\ WatchedAreNotBuried
    /\ MappedAreWatched
    /\ BlocksAreWatched
    /\ FilterIsWatched
    /\ TimingOutIsWatched

\* The names of the block types are not those of the other operations.
Distinct == BlockTypes \cap { T!Prox, Fto, "none" } = {}

\* The invariant holds when the service starts.
LEMMA TInit == T!Init => TInv
  BY DEF T!Init, TInv, TTyped, WatchedAreNotBuried, MappedAreWatched, BlocksAreWatched,
     FilterIsWatched, TimingOutIsWatched, Heard, Manager, Fto, T!NoCall, T!Calls,
     T!DeathRecipients, T!Prox

\* Every step of a call, of a death, of an obituary and of a death recipient preserves it.
LEMMA TNext == ASSUME Distinct PROVE TInv /\ [T!Next]_T!vars => TInv'
  <1> SUFFICES ASSUME TInv, [T!Next]_T!vars PROVE TInv'
    OBVIOUS
  <1> USE Distinct DEF Distinct, TInv, TTyped, WatchedAreNotBuried, MappedAreWatched,
        BlocksAreWatched, FilterIsWatched, TimingOutIsWatched, Heard, Manager, Fto,
     T!NoCall, T!Calls, T!DeathRecipients, T!Prox, T!Funcs, T!external, T!AtStep,
         T!AddDeathRecipient
  <1>1. ASSUME NEW c \in Clients, NEW op \in T!Funcs \cup { "forceTimingOut" }, NEW o \in BOOLEAN,
          T!Call(c, op, o) PROVE TInv'
    BY <1>1 DEF T!Call
  <1>2. ASSUME NEW c \in Clients, T!UpdateScreenOffBlock(c) PROVE TInv'
    BY <1>2 DEF T!UpdateScreenOffBlock
  <1>3. ASSUME NEW c \in Clients, T!WatchBlock(c) PROVE TInv'
    BY <1>3 DEF T!WatchBlock
  <1>4. ASSUME NEW c \in Clients, T!WatchProximity(c) PROVE TInv'
    BY <1>4 DEF T!WatchProximity
  <1>5. ASSUME NEW c \in Clients, T!SetProxFilteringStrategy(c) PROVE TInv'
    BY <1>5 DEF T!SetProxFilteringStrategy
  <1>6. ASSUME NEW c \in Clients, T!WatchForceTimingOut(c) PROVE TInv'
    <2>1. TTyped'
      BY <1>6 DEF T!WatchForceTimingOut
    <2>2. WatchedAreNotBuried' /\ MappedAreWatched' /\ BlocksAreWatched'
      BY <1>6 DEF T!WatchForceTimingOut
    <2>3. FilterIsWatched'
      BY <1>6 DEF T!WatchForceTimingOut
    <2>4. TimingOutIsWatched'
      <3>1. /\ overlap => overlap'
            /\ \A d \in Clients \ {c} : call[d].op = Fto /\ call[d].pc = 2 => overlap'
        BY <1>6, Zenon DEF T!WatchForceTimingOut
      <3> QED BY <1>6, <3>1 DEF T!WatchForceTimingOut
    <2> QED BY <2>1, <2>2, <2>3, <2>4
  <1>7. ASSUME NEW c \in Clients, T!SetForceTimingOut(c) PROVE TInv'
    BY <1>7 DEF T!SetForceTimingOut
  <1>8. ASSUME NEW c \in Clients, T!Die(c) PROVE TInv'
    BY <1>8 DEF T!Die
  <1>9. ASSUME NEW c \in Clients, T!SendObituary(c) PROVE TInv'
    BY <1>9 DEF T!SendObituary
  <1>10. ASSUME NEW c \in Clients, T!RemoveDeathRecipient(c) PROVE TInv'
    <2>1. TTyped' /\ WatchedAreNotBuried'
      BY <1>10 DEF T!RemoveDeathRecipient
    <2>2. MappedAreWatched' /\ BlocksAreWatched'
      BY <1>10 DEF T!RemoveDeathRecipient
    <2>3. FilterIsWatched'
      <3>1. proximityFiltered' => proximityFiltered /\ T!Prox \notin clientDeathRecipientMap[c]
        BY <1>10, Zenon DEF T!RemoveDeathRecipient
      <3> QED BY <1>10, <3>1 DEF T!RemoveDeathRecipient
    <2>4. TimingOutIsWatched'
      BY <1>10 DEF T!RemoveDeathRecipient
    <2> QED BY <2>1, <2>2, <2>3, <2>4
  <1>11. ASSUME NEW c \in Clients, T!InvokerDied(c) PROVE TInv'
    BY <1>11 DEF T!InvokerDied
  <1>12. CASE UNCHANGED T!vars
    BY <1>12 DEF T!vars
  <1> HIDE DEF TInv, T!Funcs
  <1> QED
    BY <1>1, <1>2, <1>3, <1>4, <1>5, <1>6, <1>7, <1>8, <1>9, <1>10, <1>11, <1>12 DEF T!Next

\* ClientDeathRecipientManager and InvokerDeathRecipient: a client that is dead, with its calls and
\* obituaries handled, leaves no screen-off block behind, and when all are gone no proximity filter
\* and no forced time-out, for any clients and block types; calls handled after the obituary and
\* overlapping SetForceTimingOut calls excepted.
THEOREM TokensOfTheDeadAreRemoved == ASSUME Distinct PROVE T!Spec => []T!DeadClientsHoldNothing
  <1>1. TInv => T!DeadClientsHoldNothing
    BY DEF TInv, TTyped, WatchedAreNotBuried, MappedAreWatched, BlocksAreWatched, FilterIsWatched,
       TimingOutIsWatched, T!DeadClientsHoldNothing,
      Heard, Manager, Fto, T!NoCall, T!DeathRecipients
  <1> QED BY TInit, TNext, <1>1, PTL DEF T!Spec

-------------------------------------------------------------------------------
(* Callbacks *)

\* How many entries c has in the table.
Count(c) ==
    (IF << c, "async" >> \in table THEN 1 ELSE 0) + (IF << c, "sync" >> \in table THEN 1 ELSE 0)
     + (IF << c, "only" >> \in table THEN 1 ELSE 0)

\* The counts of recipients, obituaries and tasks, and the levels of each registry.
KTyped ==
    /\ recipients \in [ Clients -> Nat ]
    /\ obituaries \in [ Clients -> Nat ]
    /\ tasks \in [ Clients -> Nat ]
    /\ lateCall \in [ Clients -> { "none", "waiting", "refused" } ]
    /\ registry = "state" => table \subseteq Clients \X { "async", "sync" }
    /\ registry = "mode" => table \subseteq Clients \X { "only" }
    /\ registry # "state" => \A c \in Clients : tasks[c] = 0

\* A registry that calls under its mutex works on a copy that is part of the table, and has none
\* when it does not call.
CopiesWhileCalling ==
    /\ K!Locked(registry) /\ round # "calling" => toTell = {}
    /\ K!Locked(registry) => toTell \subseteq table

\* Each entry of a client has a death recipient while the client lives, and an obituary or a task
\* that will remove it afterwards: a client that registers twice, or dies while it is called,
\* leaves no entry without one, but for the call whose recipient its dead client refused.
EveryEntryIsWatched ==
    K!Locked(registry) =>
        \A c \in Clients :
            Count(c) <= IF c \in alive THEN recipients[c]
                        ELSE obituaries[c] + tasks[c] + (IF lateCall[c] = "refused" THEN 1 ELSE 0)

\* The inductive invariant of the callback holders.
KInv == KTyped /\ CopiesWhileCalling /\ EveryEntryIsWatched

\* The invariant holds for every kind of registry before the first registration.
LEMMA KInit == K!Init => KInv
  BY DEF K!Init, KInv, KTyped, CopiesWhileCalling, EveryEntryIsWatched, Count, K!Registries

\* Every registration, death, obituary, task and round of calls preserves it.
LEMMA KNext == KInv /\ [K!Next]_K!vars => KInv'
  <1> SUFFICES ASSUME KInv, [K!Next]_K!vars PROVE KInv'
    OBVIOUS
  <1> USE DEF KInv, KTyped, CopiesWhileCalling, EveryEntryIsWatched, Count, K!Locked, K!thread,
        K!deaths, K!Handled
  <1>1. ASSUME NEW c \in Clients, K!Entries(c) PROVE KInv'
    <2>1. ASSUME registry = "state", NEW l \in { "async", "sync" }, K!Watch(c, l) PROVE KInv'
      BY <1>1, <2>1 DEF K!Entries, K!Watch, K!AddDeathRecipient, K!MutexFree
    <2>2. ASSUME registry = "mode", K!Watch(c, "only") PROVE KInv'
      BY <1>1, <2>2 DEF K!Entries, K!Watch, K!AddDeathRecipient, K!MutexFree
    <2>3. ASSUME registry = "state", K!UnRegisterPowerStateCallback(c), K!Handled(c),
            UNCHANGED << alive, obituaries, tasks >> PROVE KInv'
      BY <1>1, <2>3 DEF K!Entries, K!UnRegisterPowerStateCallback, K!Unwatch, K!MutexFree
    <2>4. ASSUME registry = "mode", K!RemoveModeCallback(c), K!Handled(c),
            UNCHANGED << alive, obituaries, tasks >> PROVE KInv'
      BY <1>1, <2>4 DEF K!Entries, K!RemoveModeCallback, K!Unwatch, K!MutexFree
    <2>5. ASSUME registry \in { "sleep", "takeover" }, K!Handled(c),
            UNCHANGED << recipients, alive, obituaries, tasks, K!thread >>
            PROVE KInv'
      BY <1>1, <2>5 DEF K!Entries
    <2> QED BY <1>1, <2>1, <2>2, <2>3, <2>4, <2>5 DEF K!Entries, K!StateEntries, K!ModeEntries,
          K!SleepEntries, K!TakeOverEntries, K!RegisterPowerStateCallback, K!AddModeCallback,
       K!AddSleepCallback, K!RemoveSleepCallback, K!AddTakeOverCallback, K!RemoveTakeOverCallback,
           K!Hold, K!Release
  <1>2. ASSUME NEW c \in Clients, K!ClientDies(c) PROVE KInv'
    BY <1>2 DEF K!ClientDies
  <1>3. ASSUME NEW c \in Clients, K!StateOnRemoteDied(c) PROVE KInv'
    BY <1>3 DEF K!StateOnRemoteDied
  <1>4. ASSUME NEW c \in Clients, K!UnRegFunc(c) PROVE KInv'
    <2>1. registry = "state" /\ tasks[c] > 0 /\ UNCHANGED << registry, alive, obituaries, lateCall >>
      BY <1>4 DEF K!UnRegFunc
    <2>2. /\ tasks' = [ tasks EXCEPT ![c] = @ - 1 ] /\ UNCHANGED K!thread /\ round = "idle"
          /\ recipients' \in { recipients, [ recipients EXCEPT ![c] = @ - 1 ] }
          /\ recipients'[c] = recipients[c] \/ recipients[c] # 0
      BY <1>4, <2>1 DEF K!UnRegFunc, K!UnRegisterPowerStateCallback, K!Unwatch, K!MutexFree
    <2>3. /\ table' = table \ (IF << c, "sync" >> \in table THEN { << c, "sync" >> }
                              ELSE { << c, "async" >> })
          /\ c \notin alive \/ recipients'[c] >= Count(c)'
      BY <1>4, <2>1 DEF K!UnRegFunc, K!UnRegisterPowerStateCallback, K!Unwatch
    <2>4. KTyped'
      BY <2>1, <2>2, <2>3
    <2>5. CopiesWhileCalling'
      BY <2>1, <2>2, <2>3
    <2>6. ASSUME NEW d \in Clients PROVE
            Count(d)' <= IF d \in alive THEN recipients'[d]
                         ELSE obituaries[d] + tasks'[d] + (IF lateCall[d] = "refused" THEN 1 ELSE 0)
      <3>1. CASE d # c
        <4>1. \A l \in { "async", "sync", "only" } : << d, l >> \in table' <=> << d, l >> \in table
          BY <3>1, <2>3
        <4>2. recipients'[d] = recipients[d] /\ tasks'[d] = tasks[d]
          BY <3>1, <2>2
        <4> QED BY <2>1, <4>1, <4>2
      <3>2. CASE d = c
        <4>1. tasks'[c] = tasks[c] - 1 /\ << c, "only" >> \notin table
          BY <2>1, <2>2
        <4>2. Count(c)' = IF Count(c) = 0 THEN 0 ELSE Count(c) - 1
          BY <2>3, <4>1
        <4> QED BY <2>1, <2>3, <4>1, <4>2, <3>2
      <3> QED BY <3>1, <3>2
    <2> QED BY <2>1, <2>4, <2>5, <2>6
  <1>5. ASSUME NEW c \in Clients, K!ModeOnRemoteDied(c) PROVE KInv'
    BY <1>5 DEF K!ModeOnRemoteDied, K!RemoveModeCallback, K!Unwatch, K!MutexFree
  <1>6. CASE K!NotifyPowerStateChanged \/ K!WaitingCallback \/ K!TriggerSyncSleepCallback
          \/ K!TriggerTakeOverSuspendCallback
    BY <1>6 DEF K!NotifyPowerStateChanged, K!WaitingCallback, K!TriggerSyncSleepCallback,
       K!TriggerTakeOverSuspendCallback, K!Begin
  <1>7. CASE K!GetCallbacks
    BY <1>7 DEF K!GetCallbacks
  <1>8. ASSUME NEW x \in toTell, K!Call(x) PROVE KInv'
    BY <1>8 DEF K!Call
  <1>9. CASE K!LevelDone
    BY <1>9 DEF K!LevelDone
  <1>10. CASE K!Done
    BY <1>10 DEF K!Done
  <1>11. CASE UNCHANGED K!vars
    BY <1>11 DEF K!vars
  <1> QED
    BY <1>1, <1>2, <1>3, <1>4, <1>5, <1>6, <1>7, <1>8, <1>9, <1>10, <1>11 DEF K!Next

\* NotifyPowerStateChanged and WaitingCallback call a listener only while it is registered, and of
\* a client that died nothing is left once its obituaries are handled, but for the one entry of a
\* call that waited while it died and whose recipient was refused, for any number of clients.
THEOREM CallbacksHearWhileRegistered == K!Spec => []K!ToldWhileRegistered
  <1>1. KInv => K!ToldWhileRegistered
    <2> SUFFICES ASSUME KInv, K!Locked(registry), NEW x \in table, NEW y \in table, x[1] = y[1],
                        x[1] \notin alive, obituaries[x[1]] + tasks[x[1]] = 0
                 PROVE  x = y /\ lateCall[x[1]] = "refused"
      BY DEF K!ToldWhileRegistered, KInv, CopiesWhileCalling
    <2>1. PICK c \in Clients, l \in { "async", "sync", "only" } : x = << c, l >>
      BY DEF KInv, KTyped, K!Locked
    <2>2. PICK m \in { "async", "sync", "only" } : y = << c, m >>
      BY <2>1 DEF KInv, KTyped, K!Locked
    <2>3. Count(c) > 0 /\ (l # m => Count(c) > 1)
      BY <2>1, <2>2 DEF Count
    <2>4. Count(c) <= IF lateCall[c] = "refused" THEN 1 ELSE 0
      BY <2>1 DEF KInv, KTyped, EveryEntryIsWatched, Count
    <2> QED BY <2>1, <2>2, <2>3, <2>4 DEF Count
  <1> QED BY KInit, KNext, <1>1, PTL DEF K!Spec

-------------------------------------------------------------------------------
(* LockListeners *)

\* RUNNINGLOCK_DISPLAY_ID_ALL is none of the displays.
AllIsNoDisplay == L!All \notin Displays

\* The counts and the tables, without the bound of the counts.
LTyped ==
    /\ held \in [ L!Ids -> Nat ]
    /\ callbacks \subseteq L!Listeners /\ callbacksCopy \subseteq L!Listeners
    /\ told \in [ L!Listeners -> L!States ]
    /\ notifications \subseteq L!States \X L!Ids

\* A notification says what is so now, and the copy of the table is that of one of them.
NotificationsAreTrue ==
    /\ screenLockCount = held
    /\ \A n \in notifications : n[1] = IF L!IsLocked(n[2]) THEN "LOCKED" ELSE "UNLOCKED"
    /\ callbacksCopy # {} => \E n \in notifications : \A x \in callbacksCopy : x[2] = n[2]

\* x will be told: it is in the copy, or its display's notification has not been copied for yet.
Awaits(x) ==
    \/ x \in callbacksCopy
    \/ (\E n \in notifications : n[2] = x[2]) /\ \A y \in callbacksCopy : y[2] # x[2]

\* A listener was told, or will be; registrations that met a locked display excepted.
ToldOrAwaiting ==
    \A x \in callbacks \ late : (told[x] = "LOCKED" <=> L!IsLocked(x[2])) \/ Awaits(x)

\* A client with listeners is watched, or its registration is about to have it watched.
ListenersAreWatched ==
    ~overlap =>
        /\ \A y, z \in calls : y.c = z.c => y = z
        /\ \A y \in calls : y.c \in alive
        /\ watched \subseteq alive \cup obituaries
        /\ \A x \in callbacks :
              x[1] \in watched \/ \E y \in calls : y.c = x[1] /\ y.op = "register" /\ y.pc = 2
        /\ \A y \in calls : y.op = "unregister" /\ y.pc = 3 => \A x \in callbacks : x[1] # y.c

\* The calls in progress, and the obituaries, which only the dead have.
CallsTyped ==
    /\ calls \subseteq [ c : LockClients, d : L!Ids, op : { "register", "unregister" }, pc : 1 .. 3 ]
    /\ overlap \in BOOLEAN
    /\ obituaries \cap alive = {}

\* The inductive invariants of the listeners: what they were told ...
LInv == LTyped /\ NotificationsAreTrue /\ ToldOrAwaiting

\* ... and who watches them.
WInv == callbacks \subseteq L!Listeners /\ CallsTyped /\ ListenersAreWatched

\* Both hold before the first registration.
LEMMA LInit == L!Init => LInv /\ WInv
  <1> SUFFICES ASSUME L!Init PROVE LInv /\ WInv
    OBVIOUS
  <1> USE DEF L!Init
  <1>1. LTyped
    BY DEF LTyped, L!States
  <1>2. NotificationsAreTrue /\ ToldOrAwaiting
    BY DEF NotificationsAreTrue, ToldOrAwaiting
  <1>3. WInv
    BY DEF WInv, CallsTyped, ListenersAreWatched
  <1> QED BY <1>1, <1>2, <1>3 DEF LInv

\* A lock tells whoever it concerns, a registration between the count and the telling is right or
\* late, and no other step disturbs what a listener knows.
LEMMA LNext ==
  ASSUME AllIsNoDisplay PROVE LInv /\ WInv /\ [L!Next]_L!vars => LInv'
  <1> SUFFICES ASSUME LInv, WInv, [L!Next]_L!vars PROVE LInv'
    OBVIOUS
  <1> USE DEF LInv, LTyped, NotificationsAreTrue, ToldOrAwaiting, Awaits, L!locks, L!world
  <1>1. ASSUME NEW active \in BOOLEAN, NEW d \in L!Ids, L!HandleScreenLockNotify(active, d)
        PROVE  LInv'
    <2>1. held' \in [ L!Ids -> Nat ] /\ screenLockCount' = held'
      <3>1. CASE active
        BY <1>1, <3>1 DEF L!HandleScreenLockNotify, L!UpdateScreenLockCount
      <3>2. CASE ~active
        BY <1>1, <3>2 DEF L!HandleScreenLockNotify, L!UpdateScreenLockCount
      <3> QED BY <3>1, <3>2
    <2>2. ASSUME NEW n \in notifications'
          PROVE  n \in L!States \X L!Ids /\ n[1] = IF L!IsLocked(n[2])' THEN "LOCKED" ELSE "UNLOCKED"
      <3>1. PICK e \in L!Ids : /\ n \in L!CollectNotifications(screenLockCount', active, e)
                               /\ e = d \/ d = L!All
        BY <1>1, <2>2 DEF L!HandleScreenLockNotify, L!GetRegisteredDisplayIds, L!Listeners
      <3> QED BY <1>1, <2>1, <3>1, AllIsNoDisplay DEF L!HandleScreenLockNotify,
                 L!CollectNotifications, L!GetScreenLockCountInternal,
            L!IsLocked, L!States, L!Ids, L!All
    <2>3. ASSUME NEW x \in callbacks \ late
          PROVE  (told[x] = "LOCKED" <=> L!IsLocked(x[2])') \/ \E n \in notifications' : n[2] = x[2]
      <3>1. (told[x] = "LOCKED" <=> L!IsLocked(x[2])) /\ x[2] \in L!Ids
        BY <1>1, <2>3 DEF L!HandleScreenLockNotify, L!Listeners
      <3>2. CASE ~(L!IsLocked(x[2])' <=> L!IsLocked(x[2]))
        <4>1. x[2] = d \/ d = L!All
          BY <1>1, <3>1, <3>2 DEF L!HandleScreenLockNotify, L!IsLocked, L!Ids
        <4>2. L!CollectNotifications(screenLockCount', active, x[2]) \subseteq notifications'
          BY <1>1, <2>3, <4>1 DEF L!HandleScreenLockNotify, L!GetRegisteredDisplayIds
        <4>3. \E n \in L!CollectNotifications(screenLockCount', active, x[2]) : n[2] = x[2]
          <5> DEFINE e == x[2]
                     after == L!GetScreenLockCountInternal(held', e)
          <5>1. active => after = 1
            BY <1>1, <2>1, <3>1, <3>2, <4>1, AllIsNoDisplay DEF L!HandleScreenLockNotify,
               L!GetScreenLockCountInternal,
               L!IsLocked, L!Ids
          <5>2. ~active => after = 0
            BY <1>1, <2>1, <3>1, <3>2, <4>1, AllIsNoDisplay DEF L!HandleScreenLockNotify,
               L!GetScreenLockCountInternal,
               L!IsLocked, L!Ids
          <5> HIDE DEF e, after
          <5>3. L!CollectNotifications(screenLockCount', active, e) =
                   IF active THEN { << "LOCKED", e >> } ELSE { << "UNLOCKED", e >> }
            BY <2>1, <5>1, <5>2 DEF L!CollectNotifications, after
          <5>4. << "LOCKED", e >>[2] = e /\ << "UNLOCKED", e >>[2] = e
            OBVIOUS
          <5> HIDE DEF LInv, LTyped, NotificationsAreTrue, ToldOrAwaiting, Awaits
          <5>5. \E n \in L!CollectNotifications(screenLockCount', active, e) : n[2] = e
            BY <5>3, <5>4, Zenon
          <5> QED BY <5>5 DEF e
        <4> QED BY <4>2, <4>3
      <3> QED BY <3>1, <3>2
    <2> QED BY <1>1, <2>1, <2>2, <2>3 DEF L!HandleScreenLockNotify
  <1>2. CASE L!CopyCallbacks
    BY <1>2 DEF L!CopyCallbacks, L!IsLocked
  <1>3. ASSUME NEW x \in callbacksCopy, L!OnAsyncScreenRunningLockChanged(x) PROVE LInv'
    <2> HIDE DEF LInv, LTyped, NotificationsAreTrue, ToldOrAwaiting, Awaits
    <2>1. PICK n \in notifications :
             /\ n[2] = x[2]
             /\ told' = [ told EXCEPT ![x] = n[1] ]
             /\ late' = late \ {x}
             /\ callbacksCopy' = callbacksCopy \ {x}
             /\ notifications' = IF callbacksCopy' = {} THEN notifications \ {n} ELSE notifications
             /\ UNCHANGED << held, screenLockCount, callbacks >>
      BY <1>3, Zenon DEF L!OnAsyncScreenRunningLockChanged
    <2>2. \A e : L!IsLocked(e)' <=> L!IsLocked(e)
      BY <2>1 DEF L!IsLocked
    <2>3. LTyped'
      BY <1>3, <2>1 DEF LInv, LTyped
    <2>4. NotificationsAreTrue'
      BY <1>3, <2>1, <2>2 DEF LInv, NotificationsAreTrue
    <2>5. ASSUME NEW y \in callbacks \ late'
          PROVE  (told[y] = "LOCKED" <=> L!IsLocked(y[2]))' \/ Awaits(y)'
      <3>1. CASE y = x
        BY <1>3, <2>1, <2>2, <3>1 DEF LInv, LTyped, NotificationsAreTrue
      <3>2. CASE y # x
        <4>1. Awaits(y) => Awaits(y)'
          BY <1>3, <2>1, <3>2 DEF Awaits
        <4>2. told'[y] = told[y] /\ y \notin late
          BY <1>3, <2>1, <2>5, <3>2 DEF LInv, LTyped
        <4> QED BY <2>2, <2>5, <4>1, <4>2 DEF LInv, ToldOrAwaiting
      <3> QED BY <3>1, <3>2
    <2> QED BY <2>1, <2>3, <2>4, <2>5 DEF LInv, ToldOrAwaiting
  <1>4. ASSUME NEW c \in LockClients, NEW d \in L!Ids, NEW op \in { "register", "unregister" },
               L!Call(c, op, d)
        PROVE  LInv'
    BY <1>4 DEF L!Call, L!IsLocked
  <1>5. ASSUME NEW x \in calls, L!Register(x) PROVE LInv'
    BY <1>5 DEF L!Register, L!IsLocked, WInv, CallsTyped, L!Listeners, L!States
  <1>6. ASSUME NEW x \in calls,
               L!AddDeathRecipient(x) \/ L!HasCallbacks(x) \/ L!RemoveDeathRecipientObj(x)
        PROVE  LInv'
    BY <1>6 DEF L!AddDeathRecipient, L!HasCallbacks, L!RemoveDeathRecipientObj, L!IsLocked
  <1>7. ASSUME NEW x \in calls, L!UnRegister(x) PROVE LInv'
    BY <1>7 DEF L!UnRegister, L!IsLocked
  <1>8. ASSUME NEW c \in LockClients, L!ClientDies(c) \/ L!RemoveAll(c) PROVE LInv'
    BY <1>8 DEF L!ClientDies, L!RemoveAll, L!IsLocked
  <1>9. CASE UNCHANGED L!vars
    BY <1>9 DEF L!vars, L!IsLocked
  <1> QED BY <1>1, <1>2, <1>3, <1>4, <1>5, <1>6, <1>7, <1>8, <1>9 DEF L!Next

\* Registrations, their death recipients, deaths and obituaries keep every listener watched.
LEMMA WNext == WInv /\ [L!Next]_L!vars => WInv'
  <1> SUFFICES ASSUME WInv, [L!Next]_L!vars PROVE WInv'
    OBVIOUS
  <1> USE DEF WInv, CallsTyped, ListenersAreWatched, L!locks, L!world, L!Later
  <1>1. ASSUME NEW active \in BOOLEAN, NEW d \in L!Ids, L!HandleScreenLockNotify(active, d)
        PROVE  WInv'
    BY <1>1 DEF L!HandleScreenLockNotify
  <1>2. CASE L!CopyCallbacks
    BY <1>2 DEF L!CopyCallbacks
  <1>3. ASSUME NEW x \in callbacksCopy, L!OnAsyncScreenRunningLockChanged(x) PROVE WInv'
    BY <1>3 DEF L!OnAsyncScreenRunningLockChanged
  <1>4. ASSUME NEW c \in LockClients, NEW d \in L!Ids, NEW op \in { "register", "unregister" },
               L!Call(c, op, d)
        PROVE  WInv'
    <2> DEFINE z == [ c |-> c, d |-> d, op |-> op, pc |-> 1 ]
    <2>1. /\ z \in [ c : LockClients, d : L!Ids, op : { "register", "unregister" }, pc : 1 .. 3 ]
          /\ z.c = c /\ z.pc = 1
      BY <1>4
    <2>2. /\ c \in alive /\ calls' = calls \cup { z } /\ overlap' \in BOOLEAN
          /\ ~overlap' => ~overlap /\ \A x \in calls : x.c # c
          /\ UNCHANGED << callbacks, watched, alive, obituaries >>
      BY <1>4 DEF L!Call
    <2> HIDE DEF z
    <2> QED BY <2>1, <2>2
  <1>5. ASSUME NEW x \in calls, L!Register(x) PROVE WInv'
    <2> DEFINE z == [ x EXCEPT !.pc = @ + 1 ]
    <2>1. /\ z \in [ c : LockClients, d : L!Ids, op : { "register", "unregister" }, pc : 1 .. 3 ]
          /\ z.c = x.c /\ z.pc = 2 /\ z.op = "register"
      BY <1>5 DEF L!Register
    <2>2. /\ calls' = (calls \ {x}) \cup { z } /\ callbacks' = callbacks \cup { << x.c, x.d >> }
          /\ UNCHANGED << overlap, watched, alive, obituaries >>
      BY <1>5 DEF L!Register
    <2>3. << x.c, x.d >> \in L!Listeners /\ << x.c, x.d >>[1] = x.c
      BY DEF L!Listeners
    <2> HIDE DEF z
    <2> QED BY <2>1, <2>2, <2>3
  <1>6. ASSUME NEW x \in calls, L!AddDeathRecipient(x) PROVE WInv'
    BY <1>6 DEF L!AddDeathRecipient
  <1>7. ASSUME NEW x \in calls, L!UnRegister(x) PROVE WInv'
    BY <1>7 DEF L!UnRegister
  <1>8. ASSUME NEW x \in calls, L!HasCallbacks(x) PROVE WInv'
    BY <1>8 DEF L!HasCallbacks
  <1>9. ASSUME NEW x \in calls, L!RemoveDeathRecipientObj(x) PROVE WInv'
    BY <1>9 DEF L!RemoveDeathRecipientObj
  <1>10. ASSUME NEW c \in LockClients, L!ClientDies(c) PROVE WInv'
    BY <1>10 DEF L!ClientDies
  <1>11. ASSUME NEW c \in LockClients, L!RemoveAll(c) PROVE WInv'
    BY <1>11 DEF L!RemoveAll
  <1>12. CASE UNCHANGED L!vars
    BY <1>12 DEF L!vars
  <1> QED BY <1>1, <1>2, <1>3, <1>4, <1>5, <1>6, <1>7, <1>8, <1>9, <1>10, <1>11, <1>12 DEF L!Next

\* ListenersAreCurrent: whenever no notification is on its way a listener that did not come late was
\* last told whether its display is locked, and nothing is kept of a client that has died without
\* overlapping calls, for any number of clients, displays, locks and calls (HandleScreenLockNotify,
\* CollectNotifications, NotifyScreenRunningLockChanged, Register, UnRegister, RemoveAll).
THEOREM ListenersKnowTheirLocks ==
  ASSUME AllIsNoDisplay PROVE L!Spec => []L!ListenersAreCurrent
  <1>1. LInv /\ WInv => L!ListenersAreCurrent
    <2> SUFFICES ASSUME LInv, WInv, NEW x \in callbacks
                 PROVE  /\ x \notin late /\ notifications = {} =>
                              (told[x] = "LOCKED" <=> L!IsLocked(x[2]))
                        /\ ~overlap /\ (\A y \in calls : y.c # x[1]) => x[1] \in alive \cup obituaries
      BY DEF L!ListenersAreCurrent, L!IsLocked
    <2>1. notifications = {} => ~Awaits(x)
      BY DEF LInv, NotificationsAreTrue, Awaits
    <2>2. x \notin late /\ notifications = {} => (told[x] = "LOCKED" <=> L!IsLocked(x[2]))
      BY <2>1 DEF LInv, ToldOrAwaiting
    <2>3. ~overlap /\ (\A y \in calls : y.c # x[1]) => x[1] \in alive \cup obituaries
      BY DEF WInv, ListenersAreWatched
    <2> QED BY <2>2, <2>3
  <1>2. LInv /\ WInv /\ [L!Next]_L!vars => (LInv /\ WInv)'
    BY LNext, WNext
  <1> QED BY LInit, <1>1, <1>2, PTL DEF L!Spec

-------------------------------------------------------------------------------
(* ScriptCalls *)

\* The reference of the shutdown callback: the one that is held was not deleted.
RefInv ==
    /\ refs \in Nat /\ ref \in 0 .. refs /\ deleted \subseteq 1 .. refs
    /\ ref \notin deleted
    /\ S!CalledWhileHeld

\* It holds before the first call.
LEMMA RefInit == S!Init => RefInv
  BY DEF S!Init, RefInv, S!CalledWhileHeld

\* Every step of the shutdown callback preserves its part; the calls leave it alone.
LEMMA RefNext == RefInv /\ [S!Next]_S!vars => RefInv'
  <1> SUFFICES ASSUME RefInv, [S!Next]_S!vars PROVE RefInv'
    OBVIOUS
  <1> USE DEF RefInv, S!CalledWhileHeld
  <1>1. CASE UNCHANGED S!shutdownCallback
    BY <1>1 DEF S!shutdownCallback
  <1>2. CASE S!RegisterShutdownCallback
    BY <1>2 DEF S!RegisterShutdownCallback, S!ReleaseCallback, S!CreateCallback
  <1>3. CASE S!UnRegisterShutdownCallback
    BY <1>3 DEF S!UnRegisterShutdownCallback, S!ReleaseCallback
  <1>4. CASE S!OnAsyncShutdownOrReboot \/ S!PostEvent \/ S!OnShutdownOrReboot \/ S!WaitTimesOut
    BY <1>4 DEF S!OnAsyncShutdownOrReboot, S!PostEvent, S!OnShutdownOrReboot, S!WaitTimesOut
  <1> QED
    BY <1>1, <1>2, <1>3, <1>4 DEF S!Next, S!vars, S!ScriptCall, S!ExecuteSetPowerMode,
       S!ExecuteIsScreenOn, S!ExecuteIsTypeSupported,
     S!ExecuteCreateRunningLock, S!ExecuteCreate, S!ExecuteGetError, S!Complete, S!ServiceRestarts

\* NapiPowerShutdown: a script's function is called for a shutdown only while its reference is
\* held.
THEOREM ScriptFunctionsAreHeld == S!Spec => []S!CalledWhileHeld
  <1>1. RefInv => S!CalledWhileHeld
    BY DEF RefInv
  <1> QED BY RefInit, RefNext, <1>1, PTL DEF S!Spec

-------------------------------------------------------------------------------
(* PowerClient *)

\* The service is started at least once.
ServiceIsStarted == MaxStarts \in Nat \ {0}

BTyped ==
    /\ start \in B!Starts /\ proxy \in Int
    /\ list \subseteq Locks /\ created \subseteq Locks
    /\ recovery \in [ B!Starts -> [ pc : { "none", "retry", "connected", "recover", "done" },
                                    retryCount : Int, todo : SUBSET Locks ] ]
    /\ lock \in [ Locks -> [ pc : { "none", "init", "made", "live" }, proxy : Int ] ]

\* The service that proxy_ belongs to has died.
Dead == proxy # 0 /\ (proxy < start \/ ~up)

\* The one obituary that waits is that of the proxy,
ObituaryIsOfProxy == (Dead => obituaries = { proxy }) /\ (~Dead => obituaries = {})

\* and the deaths that the client has been told of are those of former proxies.
DeathsArePast ==
    /\ proxy = 0 \/ proxy \in 1..start
    /\ proxy # 0 => recovery[proxy].pc = "none"
    /\ \A n \in B!Starts : recovery[n].pc # "none" => n < start \/ (n = start /\ ~up)

\* A lock has the proxy, or that of a service whose death the client has been told of.
ProxyOfLockIsKnown ==
    \A l \in Locks : lock[l].pc # "none" =>
        /\ lock[l].proxy \in 1..start
        /\ lock[l].proxy = proxy \/ recovery[lock[l].proxy].pc # "none"

\* The list has the locks that were made, the service those that were made at it.
ListIsOfLive == list = { l \in Locks : lock[l].pc = "live" }
CreatedAtService ==
    created = { l \in Locks : up /\ lock[l].pc \in { "made", "live" } /\ lock[l].proxy = start }

\* The recovery that goes through the list holds the mutex.
RecoveryHoldsMutex == \A n \in B!Starts : recovery[n].pc = "recover" => locksMutex = { n }

\* Without a proxy, a client that has lost one tries to connect.
LostIsRetried ==
    ~disturbed /\ proxy = 0 /\ (\E n \in B!Starts : recovery[n].pc # "none")
        => \E m \in B!Starts : recovery[m].pc = "retry"

\* A recovery will come to l.
Comes(n, l) ==
    \/ recovery[n].pc \in { "retry", "connected" }
    \/ recovery[n].pc = "recover" /\ l \in recovery[n].todo
LiveIsRecovered ==
    ~disturbed => \A l \in Locks : lock[l].pc = "live" =>
        lock[l].proxy = proxy \/ \E n \in B!Starts : Comes(n, l)

BInv ==
    /\ BTyped /\ ObituaryIsOfProxy /\ DeathsArePast /\ ProxyOfLockIsKnown /\ ListIsOfLive /\ CreatedAtService
    /\ RecoveryHoldsMutex /\ LostIsRetried /\ LiveIsRecovered

\* The invariant holds at the start.
LEMMA BInit == ASSUME ServiceIsStarted PROVE B!Init => BInv
  BY DEF B!Init, ServiceIsStarted, BInv, BTyped, Dead, ObituaryIsOfProxy, DeathsArePast,
         ProxyOfLockIsKnown, ListIsOfLive, CreatedAtService, RecoveryHoldsMutex, LostIsRetried,
         LiveIsRecovered, B!Starts, B!NoRecovery

\* The thread of OnRemoteDied, as BTyped has it.
Rec == [ pc : { "none", "retry", "connected", "recover", "done" }, retryCount : Int,
  todo : SUBSET Locks ]

\* GetPowerMgrProxy keeps a proxy that the client has, and finds none that is dead.
LEMMA Connects ==
  ASSUME BTyped, ObituaryIsOfProxy, DeathsArePast, B!GetPowerMgrProxy, UNCHANGED << up, start,
           obituaries >>
  PROVE  /\ proxy' \in Int /\ proxy' \in 0..start
         /\ proxy # 0 => proxy' = proxy
         /\ proxy' # 0 => recovery[proxy'].pc = "none"
         /\ ObituaryIsOfProxy'
  <1>1. /\ proxy' \in Int /\ proxy' \in 0..start
        /\ proxy # 0 => proxy' = proxy
        /\ proxy = 0 => proxy' = 0 \/ (up /\ proxy' = start)
    BY DEF BTyped, DeathsArePast, B!GetPowerMgrProxy, B!Proxy, B!Starts
  <1>2. Dead' <=> Dead
    BY <1>1 DEF Dead, BTyped, B!Starts
  <1>3. Dead => proxy' = proxy
    BY <1>1 DEF Dead
  <1>4. ObituaryIsOfProxy'
    BY <1>2, <1>3 DEF ObituaryIsOfProxy
  <1>5. proxy' # 0 => recovery[proxy'].pc = "none"
    BY <1>1 DEF BTyped, DeathsArePast, B!Starts
  <1> QED BY <1>1, <1>4, <1>5

\* A step that changes the entry of one start.
LEMMA OneRecovery ==
  ASSUME BTyped, NEW n \in B!Starts, NEW r \in Rec, recovery' = [ recovery EXCEPT ![n] = r ]
  PROVE  /\ recovery' \in [ B!Starts -> Rec ] /\ recovery'[n] = r
         /\ \A m \in B!Starts : m # n => recovery'[m] = recovery[m]
  BY DEF BTyped, Rec

\* Every step of the service, of a recovery and of the application's threads keeps the invariant.
LEMMA BNext == ASSUME ServiceIsStarted PROVE BInv /\ [B!Next]_B!vars => BInv'
  <1> SUFFICES ASSUME BInv, [B!Next]_B!vars PROVE BInv'
    OBVIOUS
  <1> USE DEF ServiceIsStarted, BInv, BTyped, B!Starts
  <1>1. CASE B!ServiceDies
    <2>1. /\ up /\ ~up' /\ created' = {}
          /\ obituaries' = obituaries \cup ({ proxy } \cap { start })
          /\ UNCHANGED << start, proxy, recovery, locksMutex, list, lock, call, disturbed >>
      BY <1>1 DEF B!ServiceDies
    <2>2. BTyped'
      BY <2>1 DEF BTyped
    <2>3. ObituaryIsOfProxy'
      <3>1. proxy = start => { proxy } \cap { start } = { proxy }
        OBVIOUS
      <3>2. proxy # start => { proxy } \cap { start } = {}
        OBVIOUS
      <3> QED BY <2>1, <3>1, <3>2 DEF ObituaryIsOfProxy, Dead, DeathsArePast
    <2>4. DeathsArePast'
      BY <2>1 DEF DeathsArePast
    <2>5. ProxyOfLockIsKnown'
      BY <2>1 DEF ProxyOfLockIsKnown, DeathsArePast
    <2>6. ListIsOfLive'
      BY <2>1 DEF ListIsOfLive
    <2>7. CreatedAtService'
      BY <2>1 DEF CreatedAtService, ProxyOfLockIsKnown, DeathsArePast, ListIsOfLive
    <2>8. RecoveryHoldsMutex'
      BY <2>1 DEF RecoveryHoldsMutex
    <2>9. LostIsRetried'
      BY <2>1 DEF LostIsRetried, DeathsArePast
    <2>10. LiveIsRecovered'
      BY <2>1 DEF LiveIsRecovered, Comes, DeathsArePast, ObituaryIsOfProxy, Dead,
             ProxyOfLockIsKnown, ListIsOfLive, LostIsRetried, RecoveryHoldsMutex
    <2> QED BY <2>2, <2>3, <2>4, <2>5, <2>6, <2>7, <2>8, <2>9, <2>10
  <1>2. CASE B!ServiceStarts
    <2>1. /\ ~up /\ up' /\ start \in Int /\ start < MaxStarts /\ start' = start + 1
          /\ UNCHANGED << created, proxy, obituaries, recovery, locksMutex, list, lock, disturbed >>
      BY <1>2 DEF B!ServiceStarts, B!library
    <2>2. Dead' <=> Dead
      BY <2>1 DEF Dead, DeathsArePast
    <2>3. BTyped'
      BY <2>1, <2>2 DEF BTyped
    <2>4. ObituaryIsOfProxy'
      <3> QED BY <2>1, <2>2 DEF ObituaryIsOfProxy
    <2>5. DeathsArePast'
      BY <2>1, <2>2 DEF DeathsArePast
    <2>6. ProxyOfLockIsKnown'
      BY <2>1, <2>2 DEF ProxyOfLockIsKnown, DeathsArePast
    <2>7. ListIsOfLive'
      BY <2>1, <2>2 DEF ListIsOfLive
    <2>8. CreatedAtService'
      BY <2>1, <2>2 DEF CreatedAtService, ProxyOfLockIsKnown, DeathsArePast, ListIsOfLive
    <2>9. RecoveryHoldsMutex'
      BY <2>1, <2>2 DEF RecoveryHoldsMutex
    <2>10. LostIsRetried'
      BY <2>1, <2>2 DEF LostIsRetried, DeathsArePast
    <2>11. LiveIsRecovered'
      BY <2>1, <2>2 DEF LiveIsRecovered, Comes, DeathsArePast, ObituaryIsOfProxy, Dead,
             ProxyOfLockIsKnown, ListIsOfLive, LostIsRetried, RecoveryHoldsMutex
    <2> QED BY <2>3, <2>4, <2>5, <2>6, <2>7, <2>8, <2>9, <2>10, <2>11
  <1>3. ASSUME NEW n \in B!Starts, B!OnRemoteDied(n) PROVE BInv'
    <2> DEFINE r == [ recovery[n] EXCEPT !.pc = "retry" ]
    <2>1. /\ n \in obituaries /\ obituaries' = obituaries \ {n}
          /\ proxy' = IF proxy = n THEN 0 ELSE proxy
          /\ UNCHANGED << up, start, created, locksMutex, list, lock, disturbed >>
      BY <1>3 DEF B!OnRemoteDied, B!service
    <2>2. recovery' = [ recovery EXCEPT ![n] = r ]
      BY <1>3 DEF B!OnRemoteDied, B!service
    <2>3. r \in Rec /\ r.pc = "retry"
      BY <2>1 DEF Rec
    <2>4. /\ recovery' \in [ B!Starts -> Rec ] /\ recovery'[n] = r
          /\ \A m \in B!Starts : m # n => recovery'[m] = recovery[m]
      BY <2>2, <2>3, OneRecovery
    <2> HIDE DEF r
    <2>5. proxy = n /\ proxy' = 0 /\ obituaries' = {} /\ recovery[n].pc = "none" /\ Dead /\ ~Dead'
      BY <2>1 DEF ObituaryIsOfProxy, DeathsArePast, Dead
    <2>6. BTyped'
      BY <2>1, <2>4, <2>5 DEF BTyped, Rec
    <2>7. ObituaryIsOfProxy'
      BY <2>1, <2>4, <2>5 DEF ObituaryIsOfProxy, Dead
    <2>8. DeathsArePast'
      BY <2>1, <2>3, <2>4, <2>5 DEF DeathsArePast, Dead
    <2>9. ProxyOfLockIsKnown'
      BY <2>1, <2>3, <2>4, <2>5 DEF ProxyOfLockIsKnown, DeathsArePast
    <2>10. ListIsOfLive'
      BY <2>1, <2>3, <2>4, <2>5 DEF ListIsOfLive
    <2>11. CreatedAtService'
      BY <2>1, <2>3, <2>4, <2>5 DEF CreatedAtService, ProxyOfLockIsKnown, DeathsArePast,
             ListIsOfLive
    <2>12. RecoveryHoldsMutex'
      BY <2>1, <2>3, <2>4, <2>5 DEF RecoveryHoldsMutex
    <2>13. LostIsRetried'
      BY <2>1, <2>3, <2>4, <2>5 DEF LostIsRetried, DeathsArePast
    <2>14. LiveIsRecovered'
      BY <2>1, <2>3, <2>4, <2>5 DEF LiveIsRecovered, Comes, DeathsArePast, ObituaryIsOfProxy,
             Dead, ProxyOfLockIsKnown, ListIsOfLive, LostIsRetried, RecoveryHoldsMutex
    <2> QED BY <2>6, <2>7, <2>8, <2>9, <2>10, <2>11, <2>12, <2>13, <2>14
  <1>4. ASSUME NEW n \in B!Starts, B!RetryConnect(n) PROVE BInv'
    <2> DEFINE count == recovery[n].retryCount + 1
               pc == IF B!Proxy # 0 THEN "connected" ELSE IF count = CONNECT_RETRY_COUNT THEN "done"
                 ELSE "retry"
               r == [ recovery[n] EXCEPT !.retryCount = count, !.pc = pc ]
    <2>1. /\ recovery[n].pc = "retry" /\ B!GetPowerMgrProxy /\ proxy' = B!Proxy
          /\ UNCHANGED << up, start, created, obituaries, locksMutex, list, lock >>
      BY <1>4 DEF B!RetryConnect, B!service, B!GetPowerMgrProxy
    <2>2. /\ recovery' = [ recovery EXCEPT ![n] = r ]
          /\ disturbed' = (disturbed \/ (B!Proxy = 0 /\ count = CONNECT_RETRY_COUNT))
      BY <1>4 DEF B!RetryConnect
    <2>3. ~disturbed' => ~disturbed /\ ~(B!Proxy = 0 /\ count = CONNECT_RETRY_COUNT)
      BY <2>2, Zenon
    <2>4. count \in Int /\ pc \in { "connected", "done", "retry" } /\ (proxy' # 0 => pc = "connected")
          /\ (~disturbed' /\ proxy' = 0 => pc = "retry")
      BY <2>1, <2>3
    <2>5. r \in Rec /\ r.todo = recovery[n].todo /\ r.pc = pc
      <3> HIDE DEF count, pc
      <3> QED BY <2>4 DEF Rec
    <2>6. /\ recovery' \in [ B!Starts -> Rec ] /\ recovery'[n] = r
          /\ \A m \in B!Starts : m # n => recovery'[m] = recovery[m]
      BY <2>2, <2>5, OneRecovery
    <2> HIDE DEF count, pc, r
    <2>7. /\ proxy' \in Int /\ proxy' \in 0..start /\ (proxy # 0 => proxy' = proxy)
          /\ (proxy' # 0 => recovery[proxy'].pc = "none") /\ ObituaryIsOfProxy'
      BY <2>1, Connects
    <2>8. proxy' # 0 => proxy' = proxy \/ (proxy' = start /\ up)
      BY <2>1 DEF B!Proxy
    <2>9. BTyped'
      BY <2>1, <2>6, <2>7 DEF BTyped, Rec
    <2>10. ObituaryIsOfProxy'
      <3> QED BY <2>7
    <2>11. DeathsArePast'
      BY <2>1, <2>5, <2>3, <2>4, <2>6, <2>7, <2>8 DEF DeathsArePast
    <2>12. ProxyOfLockIsKnown'
      BY <2>1, <2>5, <2>3, <2>4, <2>6, <2>7, <2>8 DEF ProxyOfLockIsKnown, DeathsArePast
    <2>13. ListIsOfLive'
      BY <2>1, <2>5, <2>3, <2>4, <2>6, <2>7, <2>8 DEF ListIsOfLive
    <2>14. CreatedAtService'
      BY <2>1, <2>5, <2>3, <2>4, <2>6, <2>7, <2>8 DEF CreatedAtService, ProxyOfLockIsKnown,
             DeathsArePast, ListIsOfLive
    <2>15. RecoveryHoldsMutex'
      BY <2>1, <2>5, <2>3, <2>4, <2>6, <2>7, <2>8 DEF RecoveryHoldsMutex
    <2>16. LostIsRetried'
      BY <2>1, <2>5, <2>3, <2>4, <2>6, <2>7, <2>8 DEF LostIsRetried, DeathsArePast
    <2>17. LiveIsRecovered'
      BY <2>1, <2>5, <2>3, <2>4, <2>6, <2>7, <2>8 DEF LiveIsRecovered, Comes, DeathsArePast,
             ObituaryIsOfProxy, Dead, ProxyOfLockIsKnown, ListIsOfLive, LostIsRetried,
             RecoveryHoldsMutex
    <2> QED BY <2>9, <2>10, <2>11, <2>12, <2>13, <2>14, <2>15, <2>16, <2>17
  <1>5. ASSUME NEW n \in B!Starts, B!RecoverRunningLocks(n) PROVE BInv'
    <2> DEFINE r == [ recovery[n] EXCEPT !.pc = "recover", !.todo = list ]
    <2>1. /\ recovery[n].pc = "connected" /\ locksMutex = {} /\ locksMutex' = {n}
          /\ UNCHANGED << up, start, created, proxy, obituaries, list, lock, disturbed >>
      BY <1>5 DEF B!RecoverRunningLocks, B!service
    <2>2. recovery' = [ recovery EXCEPT ![n] = r ]
      BY <1>5 DEF B!RecoverRunningLocks, B!service
    <2>3. r \in Rec /\ r.pc = "recover" /\ r.todo = list
      BY <2>1 DEF Rec
    <2>4. /\ recovery' \in [ B!Starts -> Rec ] /\ recovery'[n] = r
          /\ \A m \in B!Starts : m # n => recovery'[m] = recovery[m]
      BY <2>2, <2>3, OneRecovery
    <2> HIDE DEF r
    <2>5. BTyped'
      BY <2>1, <2>4 DEF BTyped, Rec
    <2>6. ObituaryIsOfProxy'
      BY <2>1, <2>3, <2>4 DEF ObituaryIsOfProxy, Dead
    <2>7. DeathsArePast'
      <3>1. proxy # 0 => proxy \in B!Starts /\ proxy # n
        BY <2>1 DEF DeathsArePast
      <3>2. recovery[n].pc # "none"
        BY <2>1
      <3> QED BY <2>1, <2>4, <3>1, <3>2 DEF DeathsArePast
    <2>8. ProxyOfLockIsKnown'
      BY <2>1, <2>3, <2>4 DEF ProxyOfLockIsKnown, DeathsArePast
    <2>9. ListIsOfLive'
      BY <2>1, <2>3, <2>4 DEF ListIsOfLive
    <2>10. CreatedAtService'
      BY <2>1, <2>3, <2>4 DEF CreatedAtService, ProxyOfLockIsKnown, DeathsArePast, ListIsOfLive
    <2>11. RecoveryHoldsMutex'
      BY <2>1, <2>3, <2>4 DEF RecoveryHoldsMutex
    <2>12. LostIsRetried'
      BY <2>1, <2>3, <2>4 DEF LostIsRetried, DeathsArePast
    <2>13. LiveIsRecovered'
      BY <2>1, <2>3, <2>4 DEF LiveIsRecovered, Comes, DeathsArePast, ObituaryIsOfProxy, Dead,
             ProxyOfLockIsKnown, ListIsOfLive, LostIsRetried, RecoveryHoldsMutex
    <2> QED BY <2>5, <2>6, <2>7, <2>8, <2>9, <2>10, <2>11, <2>12, <2>13
  <1>6. ASSUME NEW n \in B!Starts, NEW l \in Locks, B!Recover(n, l) PROVE BInv'
    <2>1. /\ recovery[n].pc = "recover" /\ l \in recovery[n].todo
          /\ UNCHANGED << up, start, obituaries, list, disturbed >>
      BY <1>6 DEF B!Recover, B!service
    <2>2. CASE l \notin list /\ recovery' = [ recovery EXCEPT ![n].todo = @ \ {l} ] /\ UNCHANGED << created, proxy, lock, locksMutex >>
      <3> DEFINE r == [ recovery[n] EXCEPT !.todo = recovery[n].todo \ {l} ]
      <3>1. r \in Rec /\ r.pc = "recover" /\ r.todo = recovery[n].todo \ {l}
        BY <2>1 DEF Rec
      <3>2. /\ recovery' \in [ B!Starts -> Rec ] /\ recovery'[n] = r
            /\ \A m \in B!Starts : m # n => recovery'[m] = recovery[m]
        BY <2>2, <3>1, OneRecovery
      <3> HIDE DEF r
      <3>3. BTyped' /\ ListIsOfLive' /\ CreatedAtService'
        BY <2>1, <2>2, <3>2 DEF Rec, ListIsOfLive, CreatedAtService
      <3>4. ObituaryIsOfProxy' /\ DeathsArePast' /\ ProxyOfLockIsKnown' /\ RecoveryHoldsMutex' /\ LostIsRetried'
        BY <2>1, <2>2, <3>1, <3>2 DEF ObituaryIsOfProxy, Dead, DeathsArePast, ProxyOfLockIsKnown,
               RecoveryHoldsMutex, LostIsRetried
      <3>5. LiveIsRecovered'
        BY <2>1, <2>2, <3>1, <3>2 DEF LiveIsRecovered, Comes, ListIsOfLive
      <3> QED BY <3>3, <3>4, <3>5
    <2>3. CASE /\ B!Proxy = 0 /\ recovery' = [ recovery EXCEPT ![n] = [ @ EXCEPT !.pc = "done",
                    !.todo = {} ] ]
               /\ locksMutex' = {} /\ UNCHANGED << created, proxy, lock >>
      <3> DEFINE r == [ recovery[n] EXCEPT !.pc = "done", !.todo = {} ]
      <3>1. r \in Rec /\ r.pc = "done"
        BY <2>1 DEF Rec
      <3>2. /\ recovery' \in [ B!Starts -> Rec ] /\ recovery'[n] = r
            /\ \A m \in B!Starts : m # n => recovery'[m] = recovery[m]
        BY <2>3, <3>1, OneRecovery
      <3> HIDE DEF r
      <3>3. BTyped' /\ ListIsOfLive' /\ CreatedAtService'
        BY <2>1, <2>3, <3>2 DEF Rec, ListIsOfLive, CreatedAtService
      <3>4. proxy = 0
        BY <2>3 DEF B!Proxy
      <3>5. ~disturbed => \E m \in B!Starts : recovery'[m].pc = "retry"
        BY <2>1, <3>2, <3>4 DEF LostIsRetried
      <3>6. ObituaryIsOfProxy' /\ DeathsArePast' /\ ProxyOfLockIsKnown' /\ LostIsRetried'
        BY <2>1, <2>3, <3>1, <3>2, <3>5 DEF ObituaryIsOfProxy, Dead, DeathsArePast,
               ProxyOfLockIsKnown, LostIsRetried
      <3>7. RecoveryHoldsMutex'
        BY <2>1, <2>3, <3>1, <3>2 DEF RecoveryHoldsMutex
      <3>8. LiveIsRecovered'
        BY <2>1, <3>5 DEF LiveIsRecovered, Comes
      <3> QED BY <3>3, <3>6, <3>7, <3>8
    <2>4. CASE /\ l \in list /\ B!Proxy # 0 /\ B!GetPowerMgrProxy /\ recovery' = [ recovery EXCEPT ![n].todo = @ \ {l} ]
               /\ lock' = [ lock EXCEPT ![l].proxy = B!Proxy ]
               /\ created' = created \cup (IF B!Reaches(B!Proxy) THEN {l}
                    ELSE {}) /\ UNCHANGED locksMutex
      <3> DEFINE r == [ recovery[n] EXCEPT !.todo = recovery[n].todo \ {l} ]
      <3>1. r \in Rec /\ r.pc = "recover" /\ r.todo = recovery[n].todo \ {l}
        BY <2>1 DEF Rec
      <3>2. /\ recovery' \in [ B!Starts -> Rec ] /\ recovery'[n] = r
            /\ \A m \in B!Starts : m # n => recovery'[m] = recovery[m]
        BY <2>4, <3>1, OneRecovery
      <3> HIDE DEF r
      <3>3. /\ proxy' \in Int /\ proxy' \in 0..start /\ (proxy # 0 => proxy' = proxy)
            /\ (proxy' # 0 => recovery[proxy'].pc = "none") /\ ObituaryIsOfProxy'
        BY <2>1, <2>4, Connects
      <3>4. proxy' # 0 /\ proxy' = B!Proxy /\ (proxy' = proxy \/ (proxy' = start /\ up))
        BY <2>4 DEF B!Proxy, B!GetPowerMgrProxy
      <3>5. /\ lock' \in [ Locks -> [ pc : { "none", "init", "made", "live" }, proxy : Int ] ]
            /\ lock'[l].pc = "live" /\ lock[l].pc = "live" /\ lock'[l].proxy = proxy'
            /\ \A k \in Locks : k # l => lock'[k] = lock[k]
        BY <2>4, <3>3, <3>4 DEF ListIsOfLive
      <3>6. BTyped' /\ ListIsOfLive'
        BY <2>1, <2>4, <3>2, <3>3, <3>5 DEF Rec, ListIsOfLive
      <3>7. ObituaryIsOfProxy' /\ DeathsArePast' /\ RecoveryHoldsMutex' /\ LostIsRetried'
        <4>1. DeathsArePast'
          BY <2>1, <3>1, <3>2, <3>3 DEF DeathsArePast
        <4> QED BY <2>1, <2>4, <3>1, <3>2, <3>3, <3>4, <4>1 DEF RecoveryHoldsMutex, LostIsRetried
      <3>8. ProxyOfLockIsKnown'
        BY <2>1, <3>1, <3>2, <3>3, <3>4, <3>5 DEF ProxyOfLockIsKnown, DeathsArePast
      <3>9. CreatedAtService'
        <4>1. created' = created \cup (IF up /\ proxy' = start THEN {l} ELSE {})
          BY <2>4, <3>4 DEF B!Reaches
        <4>2. l \in created => up /\ lock[l].proxy = start /\ proxy = start
          BY DEF CreatedAtService, ProxyOfLockIsKnown, DeathsArePast
        <4>3. l \in created => up /\ proxy' = start
          BY <3>3, <4>2
        <4> QED BY <2>1, <3>5, <4>1, <4>3 DEF CreatedAtService
      <3>10. LiveIsRecovered'
        <4> SUFFICES ASSUME ~disturbed, NEW k \in Locks, lock'[k].pc = "live", k # l
                     PROVE  lock'[k].proxy = proxy' \/ \E m \in B!Starts : Comes(m, k)'
          BY <2>1, <3>5 DEF LiveIsRecovered
        <4>1. CASE lock[k].proxy = proxy
          BY <3>3, <3>5, <4>1 DEF ProxyOfLockIsKnown
        <4>2. ASSUME NEW m \in B!Starts, Comes(m, k) PROVE Comes(m, k)'
          BY <3>1, <3>2, <4>2, <2>1 DEF Comes
        <4> QED BY <3>5, <4>1, <4>2 DEF LiveIsRecovered
      <3> QED BY <3>6, <3>7, <3>8, <3>9, <3>10
    <2> QED BY <1>6, <2>2, <2>3, <2>4 DEF B!Recover
  <1>7. ASSUME NEW n \in B!Starts, B!RecoverEnds(n) PROVE BInv'
    <2> DEFINE r == [ recovery[n] EXCEPT !.pc = "done" ]
    <2>1. /\ recovery[n].pc = "recover" /\ recovery[n].todo = {} /\ locksMutex' = {}
          /\ UNCHANGED << up, start, created, proxy, obituaries, list, lock, disturbed >>
      BY <1>7 DEF B!RecoverEnds, B!service
    <2>2. recovery' = [ recovery EXCEPT ![n] = r ]
      BY <1>7 DEF B!RecoverEnds, B!service
    <2>3. r \in Rec /\ r.pc = "done"
      BY <2>1 DEF Rec
    <2>4. /\ recovery' \in [ B!Starts -> Rec ] /\ recovery'[n] = r
          /\ \A m \in B!Starts : m # n => recovery'[m] = recovery[m]
      BY <2>2, <2>3, OneRecovery
    <2> HIDE DEF r
    <2>5. BTyped'
      BY <2>1, <2>4 DEF BTyped, Rec
    <2>6. ObituaryIsOfProxy'
      BY <2>1, <2>3, <2>4 DEF ObituaryIsOfProxy, Dead
    <2>7. DeathsArePast'
      <3>1. proxy # 0 => proxy \in B!Starts /\ proxy # n
        BY <2>1 DEF DeathsArePast
      <3>2. recovery[n].pc # "none"
        BY <2>1
      <3> QED BY <2>1, <2>4, <3>1, <3>2 DEF DeathsArePast
    <2>8. ProxyOfLockIsKnown'
      BY <2>1, <2>3, <2>4 DEF ProxyOfLockIsKnown, DeathsArePast
    <2>9. ListIsOfLive'
      BY <2>1, <2>3, <2>4 DEF ListIsOfLive
    <2>10. CreatedAtService'
      BY <2>1, <2>3, <2>4 DEF CreatedAtService, ProxyOfLockIsKnown, DeathsArePast, ListIsOfLive
    <2>11. RecoveryHoldsMutex'
      BY <2>1, <2>3, <2>4 DEF RecoveryHoldsMutex
    <2>12. LostIsRetried'
      BY <2>1, <2>3, <2>4 DEF LostIsRetried, DeathsArePast
    <2>13. LiveIsRecovered'
      <3>1. ASSUME NEW m \in B!Starts, NEW k \in Locks, Comes(m, k) PROVE Comes(m, k)'
        BY <2>1, <2>4, <3>1 DEF Comes
      <3> QED BY <2>1, <3>1 DEF LiveIsRecovered
    <2> QED BY <2>5, <2>6, <2>7, <2>8, <2>9, <2>10, <2>11, <2>12, <2>13
  <1>8. ASSUME NEW l \in Locks, B!CreateRunningLock(l) PROVE BInv'
    <2>1. /\ lock[l].pc = "none" /\ B!GetPowerMgrProxy
          /\ UNCHANGED << up, start, created, obituaries, recovery, locksMutex, list, disturbed >>
      BY <1>8 DEF B!CreateRunningLock, B!service
    <2>2. /\ proxy' \in Int /\ proxy' \in 0..start /\ (proxy # 0 => proxy' = proxy)
          /\ (proxy' # 0 => recovery[proxy'].pc = "none") /\ ObituaryIsOfProxy'
      BY <2>1, Connects
    <2>3. proxy' = B!Proxy /\ (proxy' # 0 => proxy' = proxy \/ (proxy' = start /\ up))
      BY <2>1 DEF B!Proxy, B!GetPowerMgrProxy
    <2>4. /\ lock' \in [ Locks -> [ pc : { "none", "init", "made", "live" }, proxy : Int ] ]
          /\ lock'[l].pc \in { "none", "init" } /\ (lock'[l].pc = "init"
               => proxy' # 0 /\ lock'[l].proxy = proxy')
          /\ \A k \in Locks : k # l => lock'[k] = lock[k]
      BY <1>8, <2>1, <2>2, <2>3 DEF B!CreateRunningLock
    <2>5. BTyped'
      BY <2>1, <2>2, <2>3, <2>4 DEF BTyped
    <2>6. ObituaryIsOfProxy'
      <3> QED BY <2>2
    <2>7. DeathsArePast'
      BY <2>1, <2>2, <2>3, <2>4 DEF DeathsArePast
    <2>8. ProxyOfLockIsKnown'
      BY <2>1, <2>2, <2>3, <2>4 DEF ProxyOfLockIsKnown, DeathsArePast
    <2>9. ListIsOfLive'
      BY <2>1, <2>2, <2>3, <2>4 DEF ListIsOfLive
    <2>10. CreatedAtService'
      BY <2>1, <2>2, <2>3, <2>4 DEF CreatedAtService, ProxyOfLockIsKnown, DeathsArePast,
             ListIsOfLive
    <2>11. RecoveryHoldsMutex'
      BY <2>1, <2>2, <2>3, <2>4 DEF RecoveryHoldsMutex
    <2>12. LostIsRetried'
      BY <2>1, <2>2, <2>3, <2>4 DEF LostIsRetried, DeathsArePast
    <2>13. LiveIsRecovered'
      <3>1. ASSUME NEW k \in Locks, lock'[k].pc = "live"
                     PROVE k # l /\ lock'[k] = lock[k] /\ (lock[k].proxy = proxy
                       => lock'[k].proxy = proxy')
        BY <2>1, <2>4, <3>1, <2>2 DEF ProxyOfLockIsKnown
      <3> QED BY <2>1, <3>1 DEF LiveIsRecovered, Comes
    <2> QED BY <2>5, <2>6, <2>7, <2>8, <2>9, <2>10, <2>11, <2>12, <2>13
  <1>9. ASSUME NEW l \in Locks, B!InitLock(l) PROVE BInv'
    <2>1. /\ lock[l].pc = "init"
          /\ UNCHANGED << up, start, proxy, obituaries, recovery, locksMutex, list, disturbed >>
      BY <1>9 DEF B!InitLock, B!service
    <2>2. /\ lock' \in [ Locks -> [ pc : { "none", "init", "made", "live" }, proxy : Int ] ]
          /\ \A k \in Locks : k # l => lock'[k] = lock[k]
          /\ \/ lock'[l].pc = "made" /\ lock'[l].proxy = lock[l].proxy /\ lock[l].proxy = start /\ up /\ created' = created \cup {l}
             \/ lock'[l].pc = "none" /\ created' = created
      <3>1. CASE up /\ lock[l].proxy = start /\ created' = created \cup {l} /\ lock' = [ lock EXCEPT ![l].pc = "made" ]
        BY <3>1
      <3>2. CASE lock' = [ lock EXCEPT ![l] = [ pc |-> "none", proxy |-> 0 ] ] /\ created' = created
        BY <3>2
      <3> QED BY <1>9, <3>1, <3>2 DEF B!InitLock, B!Reaches
    <2>3. BTyped'
      BY <2>1, <2>2 DEF BTyped
    <2>4. ObituaryIsOfProxy'
      BY <2>1, <2>2 DEF ObituaryIsOfProxy, Dead
    <2>5. DeathsArePast'
      BY <2>1, <2>2 DEF DeathsArePast
    <2>6. ProxyOfLockIsKnown'
      BY <2>1, <2>2, SMTT(60) DEF ProxyOfLockIsKnown, DeathsArePast
    <2>7. ListIsOfLive'
      BY <2>1, <2>2 DEF ListIsOfLive
    <2>8. CreatedAtService'
      BY <2>1, <2>2 DEF CreatedAtService, ProxyOfLockIsKnown, DeathsArePast, ListIsOfLive
    <2>9. RecoveryHoldsMutex'
      BY <2>1, <2>2 DEF RecoveryHoldsMutex
    <2>10. LostIsRetried'
      BY <2>1, <2>2 DEF LostIsRetried, DeathsArePast
    <2>11. LiveIsRecovered'
      <3>1. ASSUME NEW k \in Locks, lock'[k].pc = "live"
                     PROVE k # l /\ lock'[k] = lock[k] /\ (lock[k].proxy = proxy
                       => lock'[k].proxy = proxy')
        BY <2>1, <2>2, <3>1 DEF ProxyOfLockIsKnown
      <3> QED BY <2>1, <3>1 DEF LiveIsRecovered, Comes
    <2> QED BY <2>3, <2>4, <2>5, <2>6, <2>7, <2>8, <2>9, <2>10, <2>11
  <1>10. ASSUME NEW l \in Locks, B!PushLock(l) PROVE BInv'
    <2>1. /\ lock[l].pc = "made" /\ locksMutex = {} /\ list' = list \cup {l}
          /\ ~disturbed' => ~disturbed /\ recovery[lock[l].proxy].pc # "done"
          /\ UNCHANGED << up, start, created, proxy, obituaries, recovery, locksMutex >>
      BY <1>10 DEF B!PushLock, B!service
    <2>2. /\ lock' \in [ Locks -> [ pc : { "none", "init", "made", "live" }, proxy : Int ] ]
          /\ \A k \in Locks : k # l => lock'[k] = lock[k]
          /\ lock'[l].pc = "live" /\ lock'[l].proxy = lock[l].proxy
      BY <1>10 DEF B!PushLock
    <2>3. BTyped'
      BY <2>1, <2>2 DEF BTyped
    <2>4. ObituaryIsOfProxy'
      BY <2>1, <2>2 DEF ObituaryIsOfProxy, Dead
    <2>5. DeathsArePast'
      BY <2>1, <2>2 DEF DeathsArePast
    <2>6. ProxyOfLockIsKnown'
      BY <2>1, <2>2 DEF ProxyOfLockIsKnown, DeathsArePast
    <2>7. ListIsOfLive'
      BY <2>1, <2>2 DEF ListIsOfLive
    <2>8. CreatedAtService'
      BY <2>1, <2>2 DEF CreatedAtService, ProxyOfLockIsKnown, DeathsArePast, ListIsOfLive
    <2>9. RecoveryHoldsMutex'
      BY <2>1, <2>2 DEF RecoveryHoldsMutex
    <2>10. LostIsRetried'
      BY <2>1, <2>2 DEF LostIsRetried, DeathsArePast
    <2>11. LiveIsRecovered'
      <3>1. ~disturbed' => lock[l].proxy = proxy \/ \E n \in B!Starts : Comes(n, l)
        <4> SUFFICES ASSUME ~disturbed', lock[l].proxy # proxy PROVE \E n \in B!Starts : Comes(n, l)
          OBVIOUS
        <4>1. lock[l].proxy \in B!Starts /\ recovery[lock[l].proxy].pc \notin { "none", "done" }
          BY <2>1 DEF ProxyOfLockIsKnown
        <4>2. recovery[lock[l].proxy].pc # "recover"
          BY <2>1, <4>1 DEF RecoveryHoldsMutex
        <4> QED BY <4>1, <4>2 DEF Comes
      <3>2. ASSUME NEW k \in Locks, k # l, lock'[k].pc = "live", ~disturbed'
            PROVE  lock[k].proxy = proxy \/ \E n \in B!Starts : Comes(n, k)
        BY <2>1, <2>2, <3>2 DEF LiveIsRecovered
      <3> QED BY <2>1, <2>2, <3>1, <3>2 DEF LiveIsRecovered, Comes
    <2> QED BY <2>3, <2>4, <2>5, <2>6, <2>7, <2>8, <2>9, <2>10, <2>11
  <1>11. ASSUME NEW l \in Locks, B!Release(l) PROVE BInv'
    <2>1. BTyped'
      BY <1>11 DEF B!Release, B!service, B!Reaches, BTyped
    <2>2. ObituaryIsOfProxy'
      BY <1>11 DEF B!Release, B!service, B!Reaches, ObituaryIsOfProxy, Dead
    <2>3. DeathsArePast'
      BY <1>11 DEF B!Release, B!service, B!Reaches, DeathsArePast
    <2>4. ProxyOfLockIsKnown'
      BY <1>11 DEF B!Release, B!service, B!Reaches, ProxyOfLockIsKnown, DeathsArePast
    <2>5. ListIsOfLive'
      BY <1>11 DEF B!Release, B!service, B!Reaches, ListIsOfLive
    <2>6. CreatedAtService'
      BY <1>11 DEF B!Release, B!service, B!Reaches, CreatedAtService, ProxyOfLockIsKnown,
             DeathsArePast, ListIsOfLive
    <2>7. RecoveryHoldsMutex'
      BY <1>11 DEF B!Release, B!service, B!Reaches, RecoveryHoldsMutex
    <2>8. LostIsRetried'
      BY <1>11 DEF B!Release, B!service, B!Reaches, LostIsRetried, DeathsArePast
    <2>9. LiveIsRecovered'
      BY <1>11 DEF B!Release, B!service, B!Reaches, LiveIsRecovered, Comes, DeathsArePast,
             ObituaryIsOfProxy, Dead, ProxyOfLockIsKnown, ListIsOfLive, LostIsRetried,
             RecoveryHoldsMutex
    <2> QED BY <2>1, <2>2, <2>3, <2>4, <2>5, <2>6, <2>7, <2>8, <2>9
  <1>12. CASE B!CallService
    <2>1. B!GetPowerMgrProxy /\ UNCHANGED << up, start, created, obituaries, recovery, locksMutex,
            list, lock, disturbed >>
      BY <1>12 DEF B!CallService, B!service, B!library
    <2>2. /\ proxy' \in Int /\ proxy' \in 0..start /\ (proxy # 0 => proxy' = proxy)
          /\ (proxy' # 0 => recovery[proxy'].pc = "none") /\ ObituaryIsOfProxy'
      BY <2>1, Connects
    <2>3. proxy' = B!Proxy /\ (proxy' # 0 => proxy' = proxy \/ (proxy' = start /\ up))
      BY <2>1 DEF B!Proxy, B!GetPowerMgrProxy
    <2>4. BTyped'
      BY <2>1, <2>2, <2>3 DEF BTyped
    <2>5. ObituaryIsOfProxy'
      <3> QED BY <2>2
    <2>6. DeathsArePast'
      BY <2>1, <2>2, <2>3 DEF DeathsArePast
    <2>7. ProxyOfLockIsKnown'
      BY <2>1, <2>2, <2>3, SMTT(60) DEF ProxyOfLockIsKnown, DeathsArePast
    <2>8. ListIsOfLive'
      BY <2>1, <2>2, <2>3 DEF ListIsOfLive
    <2>9. CreatedAtService'
      BY <2>1, <2>2, <2>3 DEF CreatedAtService, ProxyOfLockIsKnown, DeathsArePast, ListIsOfLive
    <2>10. RecoveryHoldsMutex'
      BY <2>1, <2>2, <2>3 DEF RecoveryHoldsMutex
    <2>11. LostIsRetried'
      BY <2>1, <2>2, <2>3 DEF LostIsRetried, DeathsArePast
    <2>12. LiveIsRecovered'
      BY <2>1, <2>2, <2>3, SMTT(60) DEF LiveIsRecovered, Comes, DeathsArePast, ObituaryIsOfProxy, Dead,
             ProxyOfLockIsKnown, ListIsOfLive, LostIsRetried, RecoveryHoldsMutex
    <2> QED BY <2>4, <2>5, <2>6, <2>7, <2>8, <2>9, <2>10, <2>11, <2>12
  <1>13. CASE UNCHANGED << B!service, created, proxy, B!library >>
    BY <1>13 DEF B!service, B!library, Dead, ObituaryIsOfProxy, DeathsArePast,
           ProxyOfLockIsKnown, ListIsOfLive, CreatedAtService, RecoveryHoldsMutex, LostIsRetried,
           LiveIsRecovered, Comes
  <1> QED BY <1>1, <1>2, <1>3, <1>4, <1>5, <1>6, <1>7, <1>8, <1>9, <1>10, <1>11, <1>12, <1>13
          DEF B!Next, B!Step, B!vars, B!UseLock, B!ServiceAnswers, B!CallFails,
                 B!WaitForAsyncReply, B!service, B!library

\* LocksAreRecovered: once every death has been dealt with, the service has the locks of the
\* client's list and each has a proxy that works, for any number of deaths, recoveries and locks
\* (OnRemoteDied, RecoverRunningLocks, RunningLock::Recover and Release).
THEOREM ClientLocksAreRecovered == ASSUME ServiceIsStarted PROVE B!Spec => []B!LocksAreRecovered
  <1>1. BInv => B!LocksAreRecovered
    BY DEF BInv, B!LocksAreRecovered, BTyped, Dead, ObituaryIsOfProxy, DeathsArePast,
           ProxyOfLockIsKnown, ListIsOfLive,
           CreatedAtService, LiveIsRecovered, Comes, B!Starts
  <1> QED BY <1>1, BInit, BNext, PTL DEF B!Spec

\* ClientReconnects: once the client has been told of every death, GetPowerMgrProxy gives the
\* service that runs, over any number of deaths and starts (GetPowerMgrProxy, ResetProxy).
THEOREM ClientFindsService == ASSUME ServiceIsStarted PROVE B!Spec => []B!ClientReconnects
  <1>1. BInv => B!ClientReconnects
    BY DEF BInv, BTyped, Dead, ObituaryIsOfProxy, DeathsArePast, B!ClientReconnects, B!Proxy, B!Starts
  <1> QED BY <1>1, BInit, BNext, PTL DEF B!Spec

===============================================================================
