-------------------------- MODULE ComponentsProofs --------------------------
(***************************************************************************)
(* Proofs about Components, for every value of its constants.              *)
(*                                                                         *)
(* The counters of MultiInvokerHelper implement Claims, for any finite     *)
(* sets of clients and of keys and any set of parameters. The helper       *)
(* keeps, per client, a counter of keys per parameter, and a counter of    *)
(* clients per parameter over them; the invariant says that both levels    *)
(* count exactly what the clients have asked for, and the refinement       *)
(* follows step by step.                                                   *)
(*                                                                         *)
(* The other properties are proved, component by component, in             *)
(* SuspendWakeupProofs, ScreenProofs, ClientProofs and ServiceProofs.      *)
(* These modules are instantiated here with the variables and constants    *)
(* that Components gives to its parts; a behaviour of GroupSpec is then    *)
(* one of the specification that the theorem is about, as long as its part *)
(* is that component, and part never changes.                              *)
(***************************************************************************)
EXTENDS Components, FiniteSetTheorems, TLAPS

(* MultiInvoker *)

\* How many members k of S have p among f[k]: what a counter of the helper stands for.
Tally(S, f, p) == Cardinality({ k \in S : p \in f[k] })

\* counter counts f, and on is the set of the parameters it is not zero for.
Counts(counter, on, S, f) ==
    /\ counter \in [ Params -> Nat ]
    /\ \A p \in Params : counter[p] = Tally(S, f, p)
    /\ on = { p \in Params : counter[p] # 0 }

\* What each client's invoker wants: result_ of SingleInvoker.
Wanted == [ c \in Clients |-> invokers[c].result ]

\* The helper's own types, Set's arguments included.
Typed ==
    /\ invokers \in [ Clients -> Invokers ]
    /\ call \in [ Clients -> SUBSET Calls ]

\* The counters of an invoker count its keys, sum_ counts the invokers, and the state machine
\* was last told result_.
CountersCount ==
    /\ \A c \in Clients : Counts(invokers[c].sum, invokers[c].result, AppIds, invokers[c].entries)
    /\ Counts(sum, result, Clients, Wanted)
    /\ value = Xor(result, Default)

\* The inductive invariant of the helper.
Inv == Typed /\ CountersCount

\* A tally is a number, and zero when nobody has the parameter.
LEMMA TallyIsNat ==
  ASSUME NEW S, IsFiniteSet(S), NEW f, NEW p
  PROVE  /\ Tally(S, f, p) \in Nat
         /\ Tally(S, f, p) = 0 <=> \A k \in S : p \notin f[k]
  <1> DEFINE T == { k \in S : p \in f[k] }
  <1>1. IsFiniteSet(T)
    BY FS_Subset
  <1>2. Cardinality(T) \in Nat /\ (Cardinality(T) = 0 <=> T = {})
    BY <1>1, FS_CardinalityType, FS_EmptySet
  <1> QED BY <1>2 DEF Tally

\* Set's arithmetic: a counter that counts f, changed by Counted and NonZero for the new value v of
\* one key, counts f with that value. It is applied twice, to an invoker's keys and to the helper's
\* invokers.
LEMMA CountedCounts ==
  ASSUME NEW S, IsFiniteSet(S), NEW f \in [ S -> SUBSET Params ], NEW k \in S,
      NEW v \in SUBSET Params,
         NEW counter, NEW on, Counts(counter, on, S, f)
  PROVE  Counts(Counted(counter, f[k], v), NonZero(Counted(counter, f[k], v), on, Xor(f[k], v)), S,
                [ f EXCEPT ![k] = v ])
  <1> DEFINE g == [ f EXCEPT ![k] = v ]
             new == Counted(counter, f[k], v)
  <1>1. ASSUME NEW p \in Params PROVE new[p] = Tally(S, g, p) /\ new[p] \in Nat
    <2> DEFINE F == { j \in S : p \in f[j] }
               G == { j \in S : p \in g[j] }
    <2>1. IsFiniteSet(F) /\ counter[p] = Cardinality(F)
      BY FS_Subset DEF Counts, Tally
    <2>2. G = IF p \in v THEN F \cup { k } ELSE F \ { k }
      OBVIOUS
    <2>3. Cardinality(G) = IF p \in v THEN IF k \in F THEN Cardinality(F) ELSE Cardinality(F) + 1
                           ELSE IF k \in F THEN Cardinality(F) - 1 ELSE Cardinality(F)
      BY <2>1, <2>2, FS_AddElement, FS_RemoveElement
    <2>4. k \in F <=> p \in f[k]
      OBVIOUS
    <2>5. new[p] = Cardinality(G)
      BY <2>1, <2>3, <2>4 DEF Counted
    <2>6. Cardinality(G) \in Nat
      BY FS_Subset, FS_CardinalityType
    <2> QED BY <2>5, <2>6 DEF Tally
  <1>2. new \in [ Params -> Nat ]
    BY <1>1 DEF Counted
  <1>3. NonZero(new, on, Xor(f[k], v)) = { p \in Params : new[p] # 0 }
    BY DEF Counts, NonZero, Counted, Xor
  <1> QED BY <1>1, <1>2, <1>3 DEF Counts

\* result_ is what Claims says is claimed: the counters never lose or keep a claim.
LEMMA ClaimedIsResult == Inv => result = C!Claimed
  <1> SUFFICES ASSUME Inv PROVE result = C!Claimed
    OBVIOUS
  <1>1. ASSUME NEW p \in Params PROVE p \in result <=> \E c \in Clients : p \in invokers[c].result
    <2>1. Tally(Clients, Wanted, p) = 0 <=> \A c \in Clients : p \notin Wanted[c]
      BY CallersAssumption, TallyIsNat
    <2>2. sum[p] = Tally(Clients, Wanted, p) /\ (p \in result <=> sum[p] # 0)
      BY <1>1 DEF Inv, CountersCount, Counts
    <2> QED BY <2>1, <2>2 DEF Wanted
  <1>2. ASSUME NEW p \in Params, NEW c \in Clients
        PROVE  p \in invokers[c].result <=> \E k \in AppIds : p \in invokers[c].entries[k]
    BY <1>2, CallersAssumption, TallyIsNat DEF Inv, CountersCount, Counts
  <1> QED BY <1>1, <1>2 DEF C!Claimed, Inv, CountersCount, Counts

\* The invariant holds when the service starts.
LEMMA InitInv == Init => Inv
  <1> SUFFICES ASSUME Init PROVE Inv
    OBVIOUS
  <1>1. NoInvoker \in Invokers
    BY DEF NoInvoker, Invokers
  <1>2. ASSUME NEW S, IsFiniteSet(S), NEW f, \A k \in S : f[k] = {}
        PROVE Counts([ p \in Params |-> 0 ], {}, S, f)
    BY <1>2, TallyIsNat DEF Counts
  <1> QED BY <1>1, <1>2, CallersAssumption DEF Init, Inv, Typed, CountersCount, NoInvoker, Wanted,
        Xor

\* An invoker that wants nothing is as good as none: erasing it forgets no counter.
LEMMA NothingIsNoInvoker ==
  ASSUME NEW i \in Invokers, Counts(i.sum, i.result, AppIds, i.entries), i.result = {}
  PROVE  i = NoInvoker
  <1>1. \A p \in Params : i.sum[p] = 0
    BY DEF Counts
  <1>2. \A p \in Params, k \in AppIds : p \notin i.entries[k]
    BY <1>1, CallersAssumption, TallyIsNat DEF Counts
  <1>3. i.sum = [ p \in Params |-> 0 ] /\ i.entries = [ k \in AppIds |-> {} ]
    BY <1>1, <1>2 DEF Invokers
  <1> QED BY <1>3 DEF NoInvoker, Invokers

\* MultiInvokerHelper::Set keeps the counters right and changes one key of one client.
LEMMA SetCounts ==
  ASSUME Inv, NEW c \in Clients, NEW key \in AppIds, NEW input \in SUBSET Params,
      Set(c, key, input),
         call' \in [ Clients -> SUBSET Calls ]
  PROVE  /\ Inv'
         /\ invokers'[c].entries = [ invokers[c].entries EXCEPT ![key] = Xor(input, Default) ]
         /\ \A d \in Clients \ { c } : invokers'[d] = invokers[d]
  <1> DEFINE delta == Xor(input, Default)
             old == invokers[c]
             new == SetValue(old, key, delta)
  <1>1. delta \in SUBSET Params
    BY DefaultAssumption DEF Xor
  <1>2. old \in Invokers /\ Counts(old.sum, old.result, AppIds, old.entries)
    BY DEF Inv, Typed, CountersCount
  <1>3. /\ new.entries = [ old.entries EXCEPT ![key] = delta ]
        /\ new.sum = Counted(old.sum, old.entries[key], delta)
        /\ new.result = NonZero(new.sum, old.result, Xor(old.entries[key], delta))
    BY DEF SetValue
  <1>4. Counts(new.sum, new.result, AppIds, new.entries)
    <2> DEFINE f == old.entries
               counter == Counted(old.sum, f[key], delta)
    <2>1. f \in [ AppIds -> SUBSET Params ] /\ Counts(old.sum, old.result, AppIds, f)
      BY <1>2 DEF Invokers
    <2> HIDE DEF f, delta
    <2>2. Counts(counter, NonZero(counter, old.result, Xor(f[key], delta)), AppIds,
                 [ f EXCEPT ![key] = delta ])
      BY <1>1, <2>1, CountedCounts, CallersAssumption
    <2> QED BY <1>3, <2>2 DEF f
  <1>5. new \in Invokers
    <2>1. /\ new.entries \in [ AppIds -> SUBSET Params ]
          /\ new.sum \in [ Params -> Nat ] /\ new.result \in SUBSET Params
      BY <1>1, <1>2, <1>3, <1>4 DEF Invokers, Counts
    <2>2. new = [ entries |-> new.entries, sum |-> new.sum, result |-> new.result ]
      BY DEF SetValue
    <2> HIDE DEF new
    <2> QED BY <2>1, <2>2 DEF Invokers
  <1>6. /\ sum' = Counted(sum, old.result, new.result)
        /\ result' = NonZero(sum', result, Xor(old.result, new.result))
        /\ invokers' = [ invokers EXCEPT ![c] = IF new.result = {} THEN NoInvoker ELSE new ]
        /\ value' = Xor(result', Default)
    BY DEF Set, OnChange
  <1> HIDE DEF new
  <1>7. invokers' = [ invokers EXCEPT ![c] = new ]
    BY <1>4, <1>5, <1>6, NothingIsNoInvoker
  <1>8. /\ Wanted \in [ Clients -> SUBSET Params ] /\ Wanted[c] = old.result
        /\ Wanted' = [ Wanted EXCEPT ![c] = new.result ]
    BY <1>7 DEF Wanted, Inv, Typed, Invokers
  <1>9. Counts(sum', result', Clients, Wanted')
    BY <1>5, <1>6, <1>8, CountedCounts, CallersAssumption DEF Inv, CountersCount, Invokers
  <1>10. \A d \in Clients : Counts(invokers'[d].sum, invokers'[d].result, AppIds, invokers'[d].entries)
    BY <1>4, <1>7 DEF Inv, Typed, CountersCount
  <1>11. Typed'
    BY <1>5, <1>7 DEF Inv, Typed
  <1> QED BY <1>3, <1>6, <1>7, <1>9, <1>10, <1>11 DEF Inv, Typed, CountersCount

\* RemoveInvoker takes away exactly what the client's counters stood for.
LEMMA RemoveCounts ==
  ASSUME Inv, NEW c \in Clients, RemoveInvoker(c), call' \in [ Clients -> SUBSET Calls ]
  PROVE  Inv' /\ invokers' = [ invokers EXCEPT ![c] = NoInvoker ]
  <1>1. /\ NoInvoker \in Invokers /\ NoInvoker.result = {}
        /\ NoInvoker.entries = [ k \in AppIds |-> {} ]
        /\ NoInvoker.sum = [ p \in Params |-> 0 ]
    BY DEF NoInvoker, Invokers
  <1>2. /\ sum' = Counted(sum, invokers[c].result, {})
        /\ result' = { p \in Params : sum'[p] # 0 }
        /\ invokers' = [ invokers EXCEPT ![c] = NoInvoker ]
        /\ value' = Xor(result', Default)
    BY DEF RemoveInvoker, OnChange
  <1>3. /\ Wanted \in [ Clients -> SUBSET Params ] /\ Wanted[c] = invokers[c].result
        /\ Wanted' = [ Wanted EXCEPT ![c] = {} ]
    BY <1>1, <1>2 DEF Wanted, Inv, Typed, Invokers
  <1>4. Counts(sum', NonZero(sum', result, Xor(invokers[c].result, {})), Clients, Wanted')
    BY <1>2, <1>3, CountedCounts, CallersAssumption DEF Inv, CountersCount
  <1>5. Counts(sum', result', Clients, Wanted')
    BY <1>2, <1>4 DEF Counts
  <1>6. Counts(NoInvoker.sum, NoInvoker.result, AppIds, NoInvoker.entries)
    BY <1>1, TallyIsNat, CallersAssumption DEF Counts
  <1> QED BY <1>1, <1>2, <1>5, <1>6 DEF Inv, Typed, CountersCount

\* Every call, death, obituary and removal preserves the invariant.
LEMMA NextInv == Inv /\ [Next]_vars => Inv'
  <1> SUFFICES ASSUME Inv, [Next]_vars PROVE Inv'
    OBVIOUS
  <1>a. ASSUME UNCHANGED << invokers, sum, result, value >>,
          call' \in [ Clients -> SUBSET Calls ] PROVE Inv'
    BY <1>a DEF Inv, Typed, CountersCount, Wanted, Counts
  <1>1. ASSUME NEW c \in Clients, NEW k \in AppIds, NEW v \in SUBSET Params, Call(c, k, v)
          PROVE Inv'
    BY <1>1, <1>a DEF Call, Inv, Typed, Calls
  <1>2. ASSUME NEW c \in Clients, LockScreenAfterTimingOut(c) PROVE Inv'
    <2>1. PICK key \in AppIds, input \in SUBSET Params : Set(c, key, input)
      BY <1>2 DEF LockScreenAfterTimingOut, Inv, Typed, Calls
    <2>2. call' \in [ Clients -> SUBSET Calls ]
      BY <1>2 DEF LockScreenAfterTimingOut, Inv, Typed
    <2> QED BY <2>1, <2>2, SetCounts
  <1>3. ASSUME NEW c \in Clients, Die(c) \/ SendObituary(c) PROVE Inv'
    BY <1>3, <1>a DEF Die, SendObituary, Inv, Typed
  <1>4. ASSUME NEW c \in Clients, OnRemoteDied(c) PROVE Inv'
    BY <1>4, <1>a, RemoveCounts DEF OnRemoteDied, Inv, Typed
  <1>5. CASE UNCHANGED vars
    BY <1>5, <1>a DEF vars, Inv, Typed
  <1> QED BY <1>1, <1>2, <1>3, <1>4, <1>5 DEF Next

\* The same after a step.
LEMMA ClaimedIsResultPrimed == Inv' => (result = C!Claimed)'
  BY ClaimedIsResult, PTL

\* Every step of the helper is a step of Claims or leaves it alone.
LEMMA StepRefines ==
  Inv /\ Inv' /\ [Next]_vars => [C!Next]_<< [ c \in Clients |-> invokers[c].entries ], value >>
  <1> DEFINE claim == [ c \in Clients |-> invokers[c].entries ]
  <1> SUFFICES ASSUME Inv, Inv', [Next]_vars PROVE C!Next \/ UNCHANGED << claim, value >>
    OBVIOUS
  <1>0. value' = Xor(C!Claimed', Default)
    <2>1. result' = C!Claimed'
      BY ClaimedIsResultPrimed
    <2> QED BY <2>1 DEF Inv, CountersCount
  <1>1. ASSUME NEW c \in Clients, LockScreenAfterTimingOut(c) PROVE C!Next
    <2>1. PICK key \in AppIds, input \in SUBSET Params : Set(c, key, input)
      BY <1>1 DEF LockScreenAfterTimingOut, Inv, Typed, Calls
    <2>2. call' \in [ Clients -> SUBSET Calls ]
      BY <1>1 DEF LockScreenAfterTimingOut, Inv, Typed
    <2>3. /\ invokers'[c].entries = [ invokers[c].entries EXCEPT ![key] = Xor(input, Default) ]
          /\ \A d \in Clients \ { c } : invokers'[d] = invokers[d]
      BY <2>1, <2>2, SetCounts, ZenonT(60)
    <2>4. claim' = [ claim EXCEPT ![c] = [ @ EXCEPT ![key] = Xor(input, Default) ] ]
      BY <2>3
    <2>5. C!Ask(c, key, input)
      BY <1>0, <2>4 DEF C!Ask, C!Xor, Xor
    <2> QED BY <2>5 DEF C!Next
  <1>2. ASSUME NEW c \in Clients, OnRemoteDied(c), RemoveInvoker(c) PROVE C!Next
    <2>1. call' \in [ Clients -> SUBSET Calls ]
      BY DEF Inv, Typed
    <2>2. invokers' = [ invokers EXCEPT ![c] = NoInvoker ]
      BY <1>2, <2>1, RemoveCounts
    <2>3. claim' = [ claim EXCEPT ![c] = [ k \in AppIds |-> {} ] ]
      BY <2>2 DEF NoInvoker, Inv, Typed
    <2>4. C!Leave(c)
      BY <1>0, <2>3 DEF C!Leave, C!Xor, Xor
    <2> QED BY <2>4 DEF C!Next
  <1>3. CASE UNCHANGED << invokers, value >>
    BY <1>3
  <1> QED
    BY <1>1, <1>2, <1>3 DEF Next, vars, Call, Die, SendObituary, OnRemoteDied

\* MultiInvokerHelper implements Claims: whatever calls, deaths and removals come in which order,
\* what the state machine was last told is the default changed by what the clients that count now
\* claim.
THEOREM CountersImplementClaims == Spec => ImplementsClaims
  <1>1. Init => C!Init
    BY DEF Init, C!Init, NoInvoker
  <1> QED BY <1>1, InitInv, NextInv, StepRefines, PTL DEF Spec, ImplementsClaims, C!Spec

-------------------------------------------------------------------------------
(* The proofs of the parts, with the variables and the constants of Components *)

Entry == INSTANCE SuspendWakeupProofs WITH
    state <- v1, priority <- v1, build <- v1, json <- v1, pc <- v2, stage <- v2, plugged <- v2,
    sourceUpdateMutex <- v2, awaited <- v3, suspended <- v3, connectStatus <- v3,
    keysObserver <- v3, told <- v4, suspendMutex <- v4, row <- v4, pending <- v5, ulsrMutex <- v5,
    registered <- v5, observer <- v5, switchObserver <- v5, finished <- v6, toTell <- v6,
    prepared <- v6, updates <- v6, skipHdi <- v7, telling <- v7, hibernating <- v7, handler <- v7,
    forceSleeping <- v8, timedOut <- v8, args <- v8, inside <- v8, parsed <- v8, call <- v9,
    tag <- v9, prepare <- v9, monitorMap <- v9, interrupted <- v10, timer <- v10,
    prepareResult <- v10, releaseId <- v10, shortPressId <- v10, tasks <- v11, asleep <- v11,
    stopService <- v11, releaseCache <- v11, shortPressCache <- v11, waitTaskStart <- v12,
    sleepTimer <- v12, live <- v12, resultTask <- v13, shutDown <- v13, lastId <- v13,
    setter <- v14, late <- v14, disturbed <- v14, Callers <- ForceCallers,
    MaxCalls <- MaxForceCalls, Threads <- HibernateThreads, ConfigFile <- SourceConfig
Screen == INSTANCE ScreenProofs WITH
    tasks <- v1, doze <- v1, awake <- v1, lid <- v1, display <- v2, task <- v2, retryCount <- v2,
    config <- v2, state <- v3, subscribed <- v3, offTime <- v3, cover <- v3, sleepTimer <- v4,
    overtaken <- v4, settingTime <- v4, preBrightState <- v5, retryTask <- v5, sinceOn <- v5,
    holder <- v5, on <- v5, authTimer <- v6, forbid <- v6, dimIn <- v6, target <- v6,
    callEnable <- v6, internal <- v6, pc <- v7, remote <- v7, remainTime <- v7, force <- v7,
    duringCall <- v7, type <- v8, connecting <- v8, callbackSet <- v8, curState <- v8,
    filtered <- v8, switchAction <- v8, inactiveTimer <- v9, isDialogShow <- v9,
    isRegistered <- v9, subscription <- v9, held <- v9, timer <- v9, longPressShow <- v10,
    orphans <- v10, event <- v10, supported <- v10, reason <- v10, machine <- v11, at <- v11,
    enabled <- v11, seen <- v11, register <- v12, recent <- v12, close <- v12, wakeupMutex <- v12,
    told <- v13, justSuspended <- v13, near <- v13, monitorMutex <- v13, disturbed <- v14,
    key <- v14, reported <- v14, events <- v14, guards <- v15, sensor <- v15, screens <- v15,
    failed <- v16, client <- v16, screenOffTimer <- v17, timerStarted <- v18, fired <- v19,
    switchTimer <- v20, hook <- v21, offBy <- v22, Callers <- AuthCallers,
    Clients <- NoticeClients, Times <- NoticeTimes
Client == INSTANCE ClientProofs WITH
    obituaries <- v1, reachable <- v1, alive <- v2, error <- v2, up <- v2, call <- v3,
    calls <- v3, registry <- v3, ref <- v4, table <- v4, screenOffBlockMap <- v4, start <- v4,
    held <- v4, refs <- v5, recipients <- v5, proximityFiltered <- v5, created <- v5,
    screenLockCount <- v5, deleted <- v6, tasks <- v6, forceTimingOut <- v6, proxy <- v6,
    callbacks <- v6, registered <- v7, levels <- v7, clientDeathRecipientMap <- v7,
    recovery <- v7, notifications <- v7, stub <- v8, toTell <- v8, thisInterfaceInvoker <- v8,
    locksMutex <- v8, callbacksCopy <- v8, events <- v9, round <- v9, buried <- v9, list <- v9,
    told <- v9, called <- v10, takers <- v10, watched <- v10, lock <- v10, result <- v11,
    late <- v11, kind <- v11, overlap <- v12, disturbed <- v12, lateCall <- v12,
    MaxStarts <- MaxServiceStarts, Calls <- ScriptPromises, MaxRefs <- 0, MaxEvents <- 0,
    Displays <- LockDisplays, MaxCalls <- MaxListenerCalls
ClientEvents == INSTANCE ClientProofs WITH
    obituaries <- v1, reachable <- v1, alive <- v2, error <- v2, up <- v2, call <- v3,
    calls <- v3, registry <- v3, ref <- v4, table <- v4, screenOffBlockMap <- v4, start <- v4,
    held <- v4, refs <- v5, recipients <- v5, proximityFiltered <- v5, created <- v5,
    screenLockCount <- v5, deleted <- v6, tasks <- v6, forceTimingOut <- v6, proxy <- v6,
    callbacks <- v6, registered <- v7, levels <- v7, clientDeathRecipientMap <- v7,
    recovery <- v7, notifications <- v7, stub <- v8, toTell <- v8, thisInterfaceInvoker <- v8,
    locksMutex <- v8, callbacksCopy <- v8, events <- v9, round <- v9, buried <- v9, list <- v9,
    told <- v9, called <- v10, takers <- v10, watched <- v10, lock <- v10, result <- v11,
    late <- v11, kind <- v11, overlap <- v12, disturbed <- v12, lateCall <- v12,
    MaxStarts <- MaxServiceStarts, Calls <- {}, MaxEvents <- MaxScriptEvents,
    Displays <- LockDisplays, MaxCalls <- MaxListenerCalls
Outside == INSTANCE ServiceProofs WITH
    events <- v1, started <- v1, mode <- v1, chargingType <- v1, timer <- v2, manager <- v2,
    subMode <- v2, active <- v2, observed <- v3, listening <- v3, currentUserId <- v3,
    ready <- v4, plugged <- v4, managers <- v4, store <- v4, row <- v5, hdi <- v5,
    switchMap <- v5, notices <- v5, observer <- v5, updates <- v6, starts <- v6, recoverMap <- v6,
    up <- v6, plugStatus <- v7, listener <- v7, observerRegisted <- v7, lives <- v7,
    wakeupSource <- v7, at <- v8, status <- v8, modeCall <- v8, bootDone <- v8,
    displayOffTime <- v8, switching <- v9, saNotices <- v9, target <- v9, needReInit <- v9,
    override <- v9, inside <- v10, hdiRemove <- v10, settings <- v10, crashed <- v10,
    beforeOverride <- v10, spent <- v11, retries <- v11, savedMode <- v11, loops <- v11,
    connectedAc <- v11, stale <- v12, tasks <- v12, savedSubMode <- v12, initMutex <- v12,
    handler <- v12, mistaken <- v13, interface <- v13, savedRecoverMap <- v13, init <- v13,
    changes <- v13, callback <- v14, noticed <- v14, sa <- v14, toHandle <- v14, unheard <- v15,
    saw <- v15, disturbed <- v15, user <- v16, live <- v16, caller <- v16, subscribed <- v17,
    lost <- v17, cover <- v18, moves <- v19, switchOpen <- v20, on <- v21, task <- v22,
    told <- v23, overtaken <- v24, MaxStarts <- MaxHdiStarts, Times <- SaverTimes,
    OffTime <- SaverOffTime, MaxEvents <- MaxSaverEvents, MaxUpdates <- MaxSaverUpdates,
    Switches <- ModeSwitches

\* A behaviour of GroupSpec begins as its part does,
LEMMA PartBegins ==
  GroupInit => /\ Init
               /\ part = "forced" => Forced!Init
               /\ part = "ulsr" => Tag!Init
               /\ part = "hibernate" => Disk!Init
               /\ part = "dialog" => Dialog!Init
               /\ part = "mode" => Mode!Init
               /\ part = "settings" => User!Init
               /\ part = "wakeup" => Wakeup!Init
               /\ part = "tokens" => Tokens!Init
               /\ part = "library" => Library!Init
               /\ part = "cover" => Lid!Init
               /\ part = "sources" => Sources!Init
               /\ part = "listeners" => Locked!Init
               /\ part = "callbacks" => Registry!Init
               /\ part = "proximity" => Sensor!Init
               /\ part = "life" => Life!Init
               /\ part = "hdi" => Link!Init
               /\ part = "auth" => Auth!Init
               /\ part = "notice" => Notice!Init
               /\ part = "saver" => Saver!Init
               /\ part = "script" => Script!Init
               /\ part = "scriptEvent" => Event!Init
               /\ part = "input" => Input!Init
  BY DEF GroupInit

\* stays with it, and every step is a step of the part or changes nothing of it.
LEMMA PartSteps ==
  [GroupNext]_groupVars =>
      /\ part' = part /\ [Next]_vars
      /\ part = "forced" => [Forced!Next]_Forced!vars
      /\ part = "ulsr" => [Tag!Next]_Tag!vars
      /\ part = "hibernate" => [Disk!Next]_Disk!vars
      /\ part = "dialog" => [Dialog!Next]_Dialog!vars
      /\ part = "mode" => [Mode!Next]_Mode!vars
      /\ part = "settings" => [User!Next]_User!vars
      /\ part = "wakeup" => [Wakeup!Next]_Wakeup!vars
      /\ part = "tokens" => [Tokens!Next]_Tokens!vars
      /\ part = "library" => [Library!Next]_Library!vars
      /\ part = "cover" => [Lid!Next]_Lid!vars
      /\ part = "sources" => [Sources!Next]_Sources!vars
      /\ part = "listeners" => [Locked!Next]_Locked!vars
      /\ part = "callbacks" => [Registry!Next]_Registry!vars
      /\ part = "proximity" => [Sensor!Next]_Sensor!vars
      /\ part = "life" => [Life!Next]_Life!vars
      /\ part = "hdi" => [Link!Next]_Link!vars
      /\ part = "auth" => [Auth!Next]_Auth!vars
      /\ part = "notice" => [Notice!Next]_Notice!vars
      /\ part = "saver" => [Saver!Next]_Saver!vars
      /\ part = "script" => [Script!Next]_Script!vars
      /\ part = "scriptEvent" => [Event!Next]_Event!vars
      /\ part = "input" => [Input!Next]_Input!vars
  <1> SUFFICES ASSUME [GroupNext]_groupVars
               PROVE  /\ part' = part /\ [Next]_vars
                      /\ part = "forced" => [Forced!Next]_Forced!vars
                      /\ part = "ulsr" => [Tag!Next]_Tag!vars
                      /\ part = "hibernate" => [Disk!Next]_Disk!vars
                      /\ part = "dialog" => [Dialog!Next]_Dialog!vars
                      /\ part = "mode" => [Mode!Next]_Mode!vars
                      /\ part = "settings" => [User!Next]_User!vars
                      /\ part = "wakeup" => [Wakeup!Next]_Wakeup!vars
                      /\ part = "tokens" => [Tokens!Next]_Tokens!vars
                      /\ part = "library" => [Library!Next]_Library!vars
                      /\ part = "cover" => [Lid!Next]_Lid!vars
                      /\ part = "sources" => [Sources!Next]_Sources!vars
                      /\ part = "listeners" => [Locked!Next]_Locked!vars
                      /\ part = "callbacks" => [Registry!Next]_Registry!vars
                      /\ part = "proximity" => [Sensor!Next]_Sensor!vars
                      /\ part = "life" => [Life!Next]_Life!vars
                      /\ part = "hdi" => [Link!Next]_Link!vars
                      /\ part = "auth" => [Auth!Next]_Auth!vars
                      /\ part = "notice" => [Notice!Next]_Notice!vars
                      /\ part = "saver" => [Saver!Next]_Saver!vars
                      /\ part = "script" => [Script!Next]_Script!vars
                      /\ part = "scriptEvent" => [Event!Next]_Event!vars
                      /\ part = "input" => [Input!Next]_Input!vars
    OBVIOUS
  <1>1. CASE UNCHANGED groupVars
    BY <1>1 DEF groupVars, after0, Forced!vars, Tag!vars, Disk!vars, Dialog!vars, Mode!vars,
           Tokens!vars, Library!vars, Registry!vars, Sensor!config, Sensor!controller,
           Sensor!screenTimer, Sensor!call, Sensor!vars, Life!services, Life!boot, Life!switch,
           Life!vars, Link!vars, Auth!callers, Auth!vars, Notice!controller, Notice!clock,
           Notice!vars, Saver!vars, Script!asynchronous, Script!shutdownCallback, Script!vars,
           Event!asynchronous, Event!shutdownCallback, Event!vars, Input!setting, Input!monitor,
           Input!input, Input!wakeup, Input!vars, User!vars, Wakeup!vars, Lid!vars, Sources!vars,
           Locked!vars
  <1>2. CASE GroupNext
    BY <1>2 DEF GroupNext, InvokerStep, ForcedStep, TagStep, DiskStep, DialogStep, ModeStep, UserStep,
           WakeupStep, TokensStep, LibraryStep, LidStep, SourcesStep, LockedStep, RegistryStep,
           SensorStep, LifeStep, LinkStep, AuthStep, NoticeStep, SaverStep, ScriptStep,
           EventStep, InputStep
  <1> QED BY <1>1, <1>2 DEF groupVars

\* The helper of the screen-lock strategies takes no step in the other parts.
THEOREM GroupImplementsClaims == GroupSpec => ImplementsClaims
  <1>1. GroupSpec => Spec
    BY PartBegins, PartSteps, PTL DEF GroupSpec, Spec
  <1> QED BY <1>1, CountersImplementClaims

-------------------------------------------------------------------------------
(* The instances of Components and those of the proofs, definition by definition *)

\* Forced and Entry!F are the same instance of ForceSuspend.
LEMMA ForcedIsProved ==
  /\ Forced!Init => Entry!F!Init
  /\ [Forced!Next]_Forced!vars => [Entry!F!Next]_Entry!F!vars
  /\ Entry!F!InterruptedIsNotSuspended => Forced!InterruptedIsNotSuspended
  BY DEF Forced!vars, Forced!waitFlags, Forced!Init, Forced!GoTo, Forced!Return,
         Forced!ForceSuspendDeviceIgnoringWakelock, Forced!EnterInactive, Forced!EnterSleep,
         Forced!StartForceSuspendCallbacks, Forced!WaitForceSuspendCallbacks,
         Forced!DoHdiForceSuspendEx, Forced!RollbackForceSuspendAfterCallbacks,
         Forced!InterruptForceSuspendCallback, Forced!InterruptRollback,
         Forced!TriggerForceSuspendCallbacks, Forced!ForceSuspendCallbackFinished,
         Forced!WakeupAfterInterrupt, Forced!Wakeup, Forced!Call, Forced!Tasks, Forced!Next,
         Forced!InterruptedIsNotSuspended, Entry!F!vars, Entry!F!waitFlags, Entry!F!Init,
         Entry!F!GoTo, Entry!F!Return, Entry!F!ForceSuspendDeviceIgnoringWakelock,
         Entry!F!EnterInactive, Entry!F!EnterSleep, Entry!F!StartForceSuspendCallbacks,
         Entry!F!WaitForceSuspendCallbacks, Entry!F!DoHdiForceSuspendEx,
         Entry!F!RollbackForceSuspendAfterCallbacks, Entry!F!InterruptForceSuspendCallback,
         Entry!F!InterruptRollback, Entry!F!TriggerForceSuspendCallbacks,
         Entry!F!ForceSuspendCallbackFinished, Entry!F!WakeupAfterInterrupt, Entry!F!Wakeup,
         Entry!F!Call, Entry!F!Tasks, Entry!F!Next, Entry!F!InterruptedIsNotSuspended

\* Tag and Entry!U are the same instance of Ulsr.
LEMMA TagIsProved ==
  /\ Tag!Init => Entry!U!Init
  /\ [Tag!Next]_Tag!vars => [Entry!U!Next]_Entry!U!vars
  /\ Entry!U!HigherPriorityFirst => Tag!HigherPriorityFirst
  BY DEF Tag!vars, Tag!registry, Tag!sync, Tag!wakeup, Tag!Registered, Tag!Init, Tag!AddCallback,
         Tag!RemoveCallback, Tag!SetSuspendTag, Tag!StartTelling, Tag!SyncUlsrNotify, Tag!Higher,
         Tag!SyncUlsrNotifyInner, Tag!SyncUlsrNotifyInnerEnd, Tag!SyncUlsrNotifyReturns,
         Tag!SetSuspendTagDone, Tag!WakeupNotify, Tag!SetSuspendTagUndo, Tag!OnSuspendWithTag,
         Tag!TriggerUlsrWakeupCallbackWithResult, Tag!WaitAndTriggerUlsrWakeup,
         Tag!TriggerUlsrWakeupCallback, Tag!WaitTaskEnd, Tag!UlsrTimerFires,
         Tag!OnUlsrTimerExpired, Tag!FallAsleep, Tag!Setter, Tag!Teller, Tag!ResultTask,
         Tag!Timer, Tag!Next, Tag!HigherPriorityFirst, Entry!U!vars, Entry!U!registry,
         Entry!U!sync, Entry!U!wakeup, Entry!U!Registered, Entry!U!Init, Entry!U!AddCallback,
         Entry!U!RemoveCallback, Entry!U!SetSuspendTag, Entry!U!StartTelling,
         Entry!U!SyncUlsrNotify, Entry!U!Higher, Entry!U!SyncUlsrNotifyInner,
         Entry!U!SyncUlsrNotifyInnerEnd, Entry!U!SyncUlsrNotifyReturns,
         Entry!U!SetSuspendTagDone, Entry!U!WakeupNotify, Entry!U!SetSuspendTagUndo,
         Entry!U!OnSuspendWithTag, Entry!U!TriggerUlsrWakeupCallbackWithResult,
         Entry!U!WaitAndTriggerUlsrWakeup, Entry!U!TriggerUlsrWakeupCallback,
         Entry!U!WaitTaskEnd, Entry!U!UlsrTimerFires, Entry!U!OnUlsrTimerExpired,
         Entry!U!FallAsleep, Entry!U!Setter, Entry!U!Teller, Entry!U!ResultTask, Entry!U!Timer,
         Entry!U!Next, Entry!U!HigherPriorityFirst

\* Disk and Entry!H are the same instance of Hibernate.
LEMMA DiskIsProved ==
  /\ Disk!Init => Entry!H!Init
  /\ [Disk!Next]_Disk!vars => [Entry!H!Next]_Entry!H!vars
  /\ Entry!H!HibernateIsAnswered => Disk!HibernateIsAnswered
  BY DEF Disk!vars, Disk!callbacks, Disk!threads, Disk!outside, Disk!Init, Disk!SetState,
         Disk!RegisterSyncHibernateCallback, Disk!UnregisterSyncHibernateCallback,
         Disk!Hibernate, Disk!PrepareHibernateWithTimeout, Disk!PrepareReturns,
         Disk!HibernateHdi, Disk!RestoreHibernate, Disk!PostHibernate, Disk!RestorePost,
         Disk!RollbackHibernate, Disk!RollbackInactive, Disk!PrepareStep, Disk!PrepareEnds,
         Disk!PrepareInactive, Disk!PrepareAccount, Disk!PreHibernate,
         Disk!PrepareHibernateState, Disk!OtherSetState, Disk!Prepare, Disk!Inner, Disk!Next,
         Disk!HibernateIsAnswered, Entry!H!vars, Entry!H!callbacks, Entry!H!threads,
         Entry!H!outside, Entry!H!Init, Entry!H!SetState, Entry!H!RegisterSyncHibernateCallback,
         Entry!H!UnregisterSyncHibernateCallback, Entry!H!Hibernate,
         Entry!H!PrepareHibernateWithTimeout, Entry!H!PrepareReturns, Entry!H!HibernateHdi,
         Entry!H!RestoreHibernate, Entry!H!PostHibernate, Entry!H!RestorePost,
         Entry!H!RollbackHibernate, Entry!H!RollbackInactive, Entry!H!PrepareStep,
         Entry!H!PrepareEnds, Entry!H!PrepareInactive, Entry!H!PrepareAccount,
         Entry!H!PreHibernate, Entry!H!PrepareHibernateState, Entry!H!OtherSetState,
         Entry!H!Prepare, Entry!H!Inner, Entry!H!Next, Entry!H!HibernateIsAnswered

\* Dialog and Screen!D are the same instance of ShutdownDialog.
LEMMA DialogIsProved ==
  /\ Dialog!Init => Screen!D!Init
  /\ [Dialog!Next]_Dialog!vars => [Screen!D!Next]_Screen!D!vars
  /\ Screen!D!DialogCanBeShown => Dialog!DialogCanBeShown
  BY DEF Dialog!vars, Dialog!subscription, Dialog!flags, Dialog!Init, Dialog!UnderWay,
         Dialog!KeyMonitorInit, Dialog!SetShutdownDialogForbid, Dialog!StartDialog,
         Dialog!OnAbilityConnectDone, Dialog!ShowTaskSends, Dialog!ShowTaskSetsFlags,
         Dialog!OnAbilityDisconnectDone, Dialog!ResetLongPressFlag, Dialog!Next,
         Dialog!DialogCanBeShown, Screen!D!vars, Screen!D!subscription, Screen!D!flags,
         Screen!D!Init, Screen!D!UnderWay, Screen!D!KeyMonitorInit,
         Screen!D!SetShutdownDialogForbid, Screen!D!StartDialog, Screen!D!OnAbilityConnectDone,
         Screen!D!ShowTaskSends, Screen!D!ShowTaskSetsFlags, Screen!D!OnAbilityDisconnectDone,
         Screen!D!ResetLongPressFlag, Screen!D!Next, Screen!D!DialogCanBeShown

\* Mode and Outside!M are the same instance of PowerMode.
LEMMA ModeIsProved ==
  /\ Mode!Init => Outside!M!Init
  /\ [Mode!Next]_Mode!vars => [Outside!M!Next]_Outside!M!vars
  /\ Outside!M!UserValueIsRestored => Mode!UserValueIsRestored
  BY DEF Mode!vars, Mode!volatile, Mode!saved, Mode!Modes, Mode!SubModes, Mode!INIT_VALUE_FALSE,
         Mode!NoTarget, Mode!Nothing, Mode!Init, Mode!Overrides, Mode!GetSettingSwitchState,
         Mode!ReadPowerModePolicy, Mode!ComparePowerModePolicy, Mode!SavePowerModeRecoverMap,
         Mode!ParseRecoverJson, Mode!UpdatePowerModePolicy, Mode!GetPowerModeValuePolicy,
         Mode!TriggerAllActions, Mode!CanTransitTo, Mode!ResetSubMode,
         Mode!UnregisterSaveModeObserver, Mode!RegisterSaveModeObserver, Mode!SetModeItem,
         Mode!SetDeviceMode, Mode!SetDeviceSubMode, Mode!EnableModePolicy,
         Mode!EnableModeActions, Mode!EnableModeSave, Mode!SetModeAndSubModeItem,
         Mode!InitialSubMode, Mode!IsBootNeedActions, Mode!InitPowerMode,
         Mode!RemoveBackupMapSettingSwitch, Mode!SettingUpdateFunc, Mode!UserSets,
         Mode!SettingsSetMode, Mode!PowerModeSettingUpdateFunc, Mode!Crash, Mode!Next,
         Mode!Recoverable, Mode!UserValueIsRestored, Outside!M!vars, Outside!M!volatile,
         Outside!M!saved, Outside!M!Modes, Outside!M!SubModes, Outside!M!INIT_VALUE_FALSE,
         Outside!M!NoTarget, Outside!M!Nothing, Outside!M!Init, Outside!M!Overrides,
         Outside!M!GetSettingSwitchState, Outside!M!ReadPowerModePolicy,
         Outside!M!ComparePowerModePolicy, Outside!M!SavePowerModeRecoverMap,
         Outside!M!ParseRecoverJson, Outside!M!UpdatePowerModePolicy,
         Outside!M!GetPowerModeValuePolicy, Outside!M!TriggerAllActions, Outside!M!CanTransitTo,
         Outside!M!ResetSubMode, Outside!M!UnregisterSaveModeObserver,
         Outside!M!RegisterSaveModeObserver, Outside!M!SetModeItem, Outside!M!SetDeviceMode,
         Outside!M!SetDeviceSubMode, Outside!M!EnableModePolicy, Outside!M!EnableModeActions,
         Outside!M!EnableModeSave, Outside!M!SetModeAndSubModeItem, Outside!M!InitialSubMode,
         Outside!M!IsBootNeedActions, Outside!M!InitPowerMode,
         Outside!M!RemoveBackupMapSettingSwitch, Outside!M!SettingUpdateFunc, Outside!M!UserSets,
         Outside!M!SettingsSetMode, Outside!M!PowerModeSettingUpdateFunc, Outside!M!Crash,
         Outside!M!Next, Outside!M!Recoverable, Outside!M!UserValueIsRestored

\* Tokens and Client!T are the same instance of ClientTokens.
LEMMA TokensIsProved ==
  /\ Tokens!Init => Client!T!Init
  /\ [Tokens!Next]_Tokens!vars => [Client!T!Next]_Client!T!vars
  /\ Client!T!DeadClientsHoldNothing => Tokens!DeadClientsHoldNothing
  BY DEF Tokens!vars, Tokens!external, Tokens!Prox, Tokens!Funcs, Tokens!DeathRecipients,
         Tokens!NoCall, Tokens!Init, Tokens!Call, Tokens!AtStep, Tokens!AddDeathRecipient,
         Tokens!UpdateScreenOffBlock, Tokens!WatchBlock, Tokens!WatchProximity,
         Tokens!SetProxFilteringStrategy, Tokens!WatchForceTimingOut, Tokens!SetForceTimingOut,
         Tokens!Die, Tokens!SendObituary, Tokens!RemoveDeathRecipient, Tokens!InvokerDied,
         Tokens!Next, Tokens!DeadClientsHoldNothing, Client!T!vars, Client!T!external,
         Client!T!Prox, Client!T!Funcs, Client!T!DeathRecipients, Client!T!NoCall, Client!T!Init,
         Client!T!Call, Client!T!AtStep, Client!T!AddDeathRecipient,
         Client!T!UpdateScreenOffBlock, Client!T!WatchBlock, Client!T!WatchProximity,
         Client!T!SetProxFilteringStrategy, Client!T!WatchForceTimingOut,
         Client!T!SetForceTimingOut, Client!T!Die, Client!T!SendObituary,
         Client!T!RemoveDeathRecipient, Client!T!InvokerDied, Client!T!Next,
         Client!T!DeadClientsHoldNothing

\* Library and Client!B are the same instance of PowerClient.
LEMMA LibraryIsProved ==
  /\ Library!Init => Client!B!Init
  /\ [Library!Next]_Library!vars => [Client!B!Next]_Client!B!vars
  /\ Client!B!LocksAreRecovered => Library!LocksAreRecovered
  /\ Client!B!ClientReconnects => Library!ClientReconnects
  BY DEF Library!vars, Library!service, Library!library, Library!Starts, Library!Form,
         Library!DeviceCalls, Library!ScreenCalls, Library!LockCalls, Library!CallbackCalls,
         Library!ModeCalls, Library!TimingOutCalls, Library!StrategyCalls, Library!Calls,
         Library!DeviceAnswers, Library!SuspendAnswers, Library!LockAnswers,
         Library!CallbackAnswers, Library!ModeAnswers, Library!StrategyAnswers, Library!Answers,
         Library!Kinds, Library!PowerError, Library!Sent, Library!Returned, Library!NoRecovery,
         Library!Init, Library!ServiceDies, Library!ServiceStarts, Library!Proxy,
         Library!GetPowerMgrProxy, Library!Reaches, Library!OnRemoteDied, Library!RetryConnect,
         Library!RecoverRunningLocks, Library!Recover, Library!RecoverEnds,
         Library!CreateRunningLock, Library!InitLock, Library!PushLock, Library!Release,
         Library!UseLock, Library!CallService, Library!Success, Library!ServiceAnswers,
         Library!CallFails, Library!WaitForAsyncReply, Library!Step, Library!Next,
         Library!LocksAreRecovered, Library!ClientReconnects, Client!B!vars, Client!B!service,
         Client!B!library, Client!B!Starts, Client!B!Form, Client!B!DeviceCalls,
         Client!B!ScreenCalls, Client!B!LockCalls, Client!B!CallbackCalls, Client!B!ModeCalls,
         Client!B!TimingOutCalls, Client!B!StrategyCalls, Client!B!Calls, Client!B!DeviceAnswers,
         Client!B!SuspendAnswers, Client!B!LockAnswers, Client!B!CallbackAnswers,
         Client!B!ModeAnswers, Client!B!StrategyAnswers, Client!B!Answers, Client!B!Kinds,
         Client!B!PowerError, Client!B!Sent, Client!B!Returned, Client!B!NoRecovery,
         Client!B!Init, Client!B!ServiceDies, Client!B!ServiceStarts, Client!B!Proxy,
         Client!B!GetPowerMgrProxy, Client!B!Reaches, Client!B!OnRemoteDied,
         Client!B!RetryConnect, Client!B!RecoverRunningLocks, Client!B!Recover,
         Client!B!RecoverEnds, Client!B!CreateRunningLock, Client!B!InitLock, Client!B!PushLock,
         Client!B!Release, Client!B!UseLock, Client!B!CallService, Client!B!Success,
         Client!B!ServiceAnswers, Client!B!CallFails, Client!B!WaitForAsyncReply, Client!B!Step,
         Client!B!Next, Client!B!LocksAreRecovered, Client!B!ClientReconnects

\* Locked and Client!L are the same instance of LockListeners.
LEMMA LockedIsProved ==
  /\ Locked!Init => Client!L!Init
  /\ [Locked!Next]_Locked!vars => [Client!L!Next]_Client!L!vars
  /\ Client!L!ListenersAreCurrent => Locked!ListenersAreCurrent
  <1>1. \A X : Locked!Cardinality(X) = Client!L!Cardinality(X)
    BY Zenon DEF Locked!Cardinality, Client!L!Cardinality
  <1> QED BY <1>1 DEF Locked!vars, Locked!locks, Locked!world, Locked!All, Locked!Ids, Locked!Listeners,
         Locked!IsLocked, Locked!Init, Locked!GetScreenLockCountInternal,
         Locked!UpdateScreenLockCount, Locked!CollectNotifications,
         Locked!GetRegisteredDisplayIds, Locked!HandleScreenLockNotify, Locked!CopyCallbacks,
         Locked!OnAsyncScreenRunningLockChanged, Locked!Call, Locked!Later, Locked!Register,
         Locked!AddDeathRecipient, Locked!UnRegister, Locked!HasCallbacks,
         Locked!RemoveDeathRecipientObj, Locked!ClientDies, Locked!RemoveAll, Locked!Next,
         Locked!ListenersAreCurrent, Client!L!vars, Client!L!locks, Client!L!world, Client!L!All,
         Client!L!Ids, Client!L!Listeners, Client!L!IsLocked, Client!L!Init,
         Client!L!GetScreenLockCountInternal, Client!L!UpdateScreenLockCount,
         Client!L!CollectNotifications, Client!L!GetRegisteredDisplayIds,
         Client!L!HandleScreenLockNotify, Client!L!CopyCallbacks,
         Client!L!OnAsyncScreenRunningLockChanged, Client!L!Call, Client!L!Later,
         Client!L!Register, Client!L!AddDeathRecipient, Client!L!UnRegister,
         Client!L!HasCallbacks, Client!L!RemoveDeathRecipientObj, Client!L!ClientDies,
         Client!L!RemoveAll, Client!L!Next, Client!L!ListenersAreCurrent

\* Registry and Client!K are the same instance of Callbacks.
LEMMA RegistryIsProved ==
  /\ Registry!Init => Client!K!Init
  /\ [Registry!Next]_Registry!vars => [Client!K!Next]_Client!K!vars
  /\ Client!K!ToldWhileRegistered => Registry!ToldWhileRegistered
  BY DEF Registry!vars, Registry!thread, Registry!deaths, Registry!Registries, Registry!Locked,
         Registry!Levels, Registry!LevelSet, Registry!Init, Registry!MutexFree, Registry!Handled,
         Registry!AddDeathRecipient, Registry!Watch, Registry!Unwatch,
         Registry!RegisterPowerStateCallback, Registry!UnRegisterPowerStateCallback,
         Registry!AddModeCallback, Registry!RemoveModeCallback, Registry!Hold, Registry!Release,
         Registry!AddSleepCallback, Registry!RemoveSleepCallback, Registry!AddTakeOverCallback,
         Registry!RemoveTakeOverCallback, Registry!StateEntries, Registry!ModeEntries,
         Registry!SleepEntries, Registry!TakeOverEntries, Registry!Entries, Registry!ClientDies,
         Registry!StateOnRemoteDied, Registry!UnRegFunc, Registry!ModeOnRemoteDied,
         Registry!Begin, Registry!NotifyPowerStateChanged, Registry!WaitingCallback,
         Registry!TriggerSyncSleepCallback, Registry!TriggerTakeOverSuspendCallback,
         Registry!GetCallbacks, Registry!Call, Registry!LevelDone, Registry!Done, Registry!Next,
         Registry!ToldWhileRegistered, Client!K!vars, Client!K!thread, Client!K!deaths,
         Client!K!Registries, Client!K!Locked, Client!K!Levels, Client!K!LevelSet, Client!K!Init,
         Client!K!MutexFree, Client!K!Handled, Client!K!AddDeathRecipient, Client!K!Watch,
         Client!K!Unwatch, Client!K!RegisterPowerStateCallback,
         Client!K!UnRegisterPowerStateCallback, Client!K!AddModeCallback,
         Client!K!RemoveModeCallback, Client!K!Hold, Client!K!Release, Client!K!AddSleepCallback,
         Client!K!RemoveSleepCallback, Client!K!AddTakeOverCallback,
         Client!K!RemoveTakeOverCallback, Client!K!StateEntries, Client!K!ModeEntries,
         Client!K!SleepEntries, Client!K!TakeOverEntries, Client!K!Entries, Client!K!ClientDies,
         Client!K!StateOnRemoteDied, Client!K!UnRegFunc, Client!K!ModeOnRemoteDied,
         Client!K!Begin, Client!K!NotifyPowerStateChanged, Client!K!WaitingCallback,
         Client!K!TriggerSyncSleepCallback, Client!K!TriggerTakeOverSuspendCallback,
         Client!K!GetCallbacks, Client!K!Call, Client!K!LevelDone, Client!K!Done, Client!K!Next,
         Client!K!ToldWhileRegistered

\* Sensor and Screen!X are the same instance of Proximity.
LEMMA SensorIsProved ==
  /\ Sensor!Init => Screen!X!Init
  /\ [Sensor!Next]_Sensor!vars => [Screen!X!Next]_Screen!X!vars
  /\ Screen!X!ScreenOffOnlyWhileClose => Sensor!ScreenOffOnlyWhileClose
  BY DEF Sensor!config, Sensor!controller, Sensor!screenTimer, Sensor!call, Sensor!vars,
         Sensor!Init, Sensor!CancelDelayTimer, Sensor!HandleProximityScreenOffTimer,
         Sensor!CanTransitTo, Sensor!SetStateAwake, Sensor!SetStateInactive, Sensor!Lock,
         Sensor!InitProximitySensorUser, Sensor!Enable, Sensor!UnLock, Sensor!Disable,
         Sensor!AwakeTask, Sensor!RecordSensorCallback, Sensor!OnClose,
         Sensor!HandleProximityCloseEvent, Sensor!SetDelayTimer, Sensor!SetTimerStarted,
         Sensor!HandleProximityClose, Sensor!OnAway, Sensor!HandleDuringCall,
         Sensor!HandleProximityAwayEvent, Sensor!ScreenOffTimerFires, Sensor!SwitchTimerFires,
         Sensor!ObjectMoves, Sensor!DuringCallSettingUpdateFunc, Sensor!SetProxFilteringStrategy,
         Sensor!Wakeup, Sensor!Suspend, Sensor!Next, Sensor!ScreenOffOnlyWhileClose,
         Screen!X!config, Screen!X!controller, Screen!X!screenTimer, Screen!X!call,
         Screen!X!vars, Screen!X!Init, Screen!X!CancelDelayTimer,
         Screen!X!HandleProximityScreenOffTimer, Screen!X!CanTransitTo, Screen!X!SetStateAwake,
         Screen!X!SetStateInactive, Screen!X!Lock, Screen!X!InitProximitySensorUser,
         Screen!X!Enable, Screen!X!UnLock, Screen!X!Disable, Screen!X!AwakeTask,
         Screen!X!RecordSensorCallback, Screen!X!OnClose, Screen!X!HandleProximityCloseEvent,
         Screen!X!SetDelayTimer, Screen!X!SetTimerStarted, Screen!X!HandleProximityClose,
         Screen!X!OnAway, Screen!X!HandleDuringCall, Screen!X!HandleProximityAwayEvent,
         Screen!X!ScreenOffTimerFires, Screen!X!SwitchTimerFires, Screen!X!ObjectMoves,
         Screen!X!DuringCallSettingUpdateFunc, Screen!X!SetProxFilteringStrategy,
         Screen!X!Wakeup, Screen!X!Suspend, Screen!X!Next, Screen!X!ScreenOffOnlyWhileClose

\* Life and Outside!E are the same instance of ServiceLife.
LEMMA LifeIsProved ==
  /\ Life!Init => Outside!E!Init
  /\ [Life!Next]_Life!vars => [Outside!E!Next]_Outside!E!vars
  /\ Outside!E!DisplayKnowsCover => Life!DisplayKnowsCover
  BY DEF Life!Displays, Life!services, Life!boot, Life!switch, Life!vars, Life!Cover, Life!None,
         Life!Init, Life!Tell, Life!InputMonitorInit, Life!InputMonitorCancel,
         Life!KeyMonitorInit, Life!KeyMonitorCancel, Life!RegisterExternalScreenListener,
         Life!UnRegisterExternalScreenListener, Life!RegisterExternalCallback,
         Life!UnregisterExternalCallback, Life!PowerExternalAbilityInit, Life!CountLife,
         Life!Listed, Life!OnStart, Life!OnStop, Life!ServiceStarts, Life!ServiceCrashes,
         Life!BootCompletes, Life!RegisterBootCompletedCallback, Life!OnRemoveSystemAbility,
         Life!OnAddBrightness, Life!OnAddDisplay, Life!IsSwitchOpenByPath, Life!LookAtCover,
         Life!OnAddDisplayEnds, Life!BootCompletedCallback, Life!SwitchSubscriberInit,
         Life!DoReportSwitchState, Life!InitEnds, Life!Move, Life!SwitchEvent, Life!TimerFires,
         Life!WakeupTask, Life!SuspendTask, Life!DoSwitchClose, Life!ScreenChanges, Life!Next,
         Life!Settled, Life!DisplayKnowsCover, Outside!E!Displays, Outside!E!services,
         Outside!E!boot, Outside!E!switch, Outside!E!vars, Outside!E!Cover, Outside!E!None,
         Outside!E!Init, Outside!E!Tell, Outside!E!InputMonitorInit,
         Outside!E!InputMonitorCancel, Outside!E!KeyMonitorInit, Outside!E!KeyMonitorCancel,
         Outside!E!RegisterExternalScreenListener, Outside!E!UnRegisterExternalScreenListener,
         Outside!E!RegisterExternalCallback, Outside!E!UnregisterExternalCallback,
         Outside!E!PowerExternalAbilityInit, Outside!E!CountLife, Outside!E!Listed,
         Outside!E!OnStart, Outside!E!OnStop, Outside!E!ServiceStarts, Outside!E!ServiceCrashes,
         Outside!E!BootCompletes, Outside!E!RegisterBootCompletedCallback,
         Outside!E!OnRemoveSystemAbility, Outside!E!OnAddBrightness, Outside!E!OnAddDisplay,
         Outside!E!IsSwitchOpenByPath, Outside!E!LookAtCover, Outside!E!OnAddDisplayEnds,
         Outside!E!BootCompletedCallback, Outside!E!SwitchSubscriberInit,
         Outside!E!DoReportSwitchState, Outside!E!InitEnds, Outside!E!Move,
         Outside!E!SwitchEvent, Outside!E!TimerFires, Outside!E!WakeupTask,
         Outside!E!SuspendTask, Outside!E!DoSwitchClose, Outside!E!ScreenChanges, Outside!E!Next,
         Outside!E!Settled, Outside!E!DisplayKnowsCover

\* Link and Outside!L are the same instance of HdiLink.
LEMMA LinkIsProved ==
  /\ Link!Init => Outside!L!Init
  /\ [Link!Next]_Link!vars => [Outside!L!Next]_Outside!L!vars
  /\ Outside!L!CallbackFollowsHdi => Link!CallbackFollowsHdi
  BY DEF Link!vars, Link!world, Link!Init, Link!RegisterHdiStatusListener, Link!RetryTask,
         Link!StatusCallback, Link!GetPowerInterface, Link!UseInterface,
         Link!RegisterPowerHdiCallback, Link!UnRegisterPowerHdiCallback, Link!OnStart,
         Link!OnStop, Link!ResetHandle, Link!OnRemoveSystemAbility, Link!OnAddSystemAbilityInner,
         Link!Notify, Link!HdiStarts, Link!HdiDies, Link!ManagerDies, Link!ManagerStarts,
         Link!Next, Link!CallbackFollowsHdi, Outside!L!vars, Outside!L!world, Outside!L!Init,
         Outside!L!RegisterHdiStatusListener, Outside!L!RetryTask, Outside!L!StatusCallback,
         Outside!L!GetPowerInterface, Outside!L!UseInterface, Outside!L!RegisterPowerHdiCallback,
         Outside!L!UnRegisterPowerHdiCallback, Outside!L!OnStart, Outside!L!OnStop,
         Outside!L!ResetHandle, Outside!L!OnRemoveSystemAbility,
         Outside!L!OnAddSystemAbilityInner, Outside!L!Notify, Outside!L!HdiStarts,
         Outside!L!HdiDies, Outside!L!ManagerDies, Outside!L!ManagerStarts, Outside!L!Next,
         Outside!L!CallbackFollowsHdi

\* Auth and Screen!P are the same instance of PreBright.
LEMMA AuthIsProved ==
  /\ Auth!Init => Screen!P!Init
  /\ [Auth!Next]_Auth!vars => [Screen!P!Next]_Screen!P!vars
  /\ Screen!P!PreBrightIsTimed => Auth!PreBrightIsTimed
  BY DEF Auth!callers, Auth!vars, Auth!Timer, Auth!Threads, Auth!SUCCESS, Auth!SCREEN_ON,
         Auth!SCREEN_OFF, Auth!IsPreBrightAuthReason, Auth!IsPreBrightWakeUp, Auth!Init,
         Auth!HandlePreBrightState, Auth!Refused, Auth!MatchState, Auth!SetDisplayState,
         Auth!SetStateAwake, Auth!SetStateRefused, Auth!StopSleep, Auth!HandlePreBrightWakeUp,
         Auth!WakeupDeviceInner, Auth!CallSetState, Auth!After, Auth!AuthFailTask,
         Auth!SuspendDevice, Auth!SetAutoSleep, Auth!Next, Auth!PreBrightIsTimed,
         Screen!P!callers, Screen!P!vars, Screen!P!Timer, Screen!P!Threads, Screen!P!SUCCESS,
         Screen!P!SCREEN_ON, Screen!P!SCREEN_OFF, Screen!P!IsPreBrightAuthReason,
         Screen!P!IsPreBrightWakeUp, Screen!P!Init, Screen!P!HandlePreBrightState,
         Screen!P!Refused, Screen!P!MatchState, Screen!P!SetDisplayState, Screen!P!SetStateAwake,
         Screen!P!SetStateRefused, Screen!P!StopSleep, Screen!P!HandlePreBrightWakeUp,
         Screen!P!WakeupDeviceInner, Screen!P!CallSetState, Screen!P!After,
         Screen!P!AuthFailTask, Screen!P!SuspendDevice, Screen!P!SetAutoSleep, Screen!P!Next,
         Screen!P!PreBrightIsTimed

\* Notice and Screen!N are the same instance of ScreenOffPre.
LEMMA NoticeIsProved ==
  /\ Notice!Init => Screen!N!Init
  /\ [Notice!Next]_Notice!vars => [Screen!N!Next]_Screen!N!vars
  /\ Screen!N!NoticePrecedesDim => Notice!NoticePrecedesDim
  BY DEF Notice!controller, Notice!clock, Notice!vars, Notice!Never, Notice!Longest, Notice!Idle,
         Notice!Init, Notice!NeedEyeDetectLocked, Notice!SchedulEyeDetectTimeout,
         Notice!CancelEyeDetectTimeout, Notice!HandleEyeDetectTimeout, Notice!MachineCancels,
         Notice!MachineSubmits, Notice!RegisterCancels, Notice!RegisterSubmits, Notice!Apart,
         Notice!ResetScreenOffPreTimeForSwing, Notice!ResetInactiveTimer, Notice!RefreshActivity,
         Notice!SetDisplayOffTime, Notice!ScreenGoesDim, Notice!AddScreenStateCallback,
         Notice!DelScreenStateCallback, Notice!OnRemoteDied, Notice!TriggerCallback,
         Notice!TriggerOrphan, Notice!Less, Notice!Tick, Notice!Next, Notice!NoticePrecedesDim,
         Screen!N!controller, Screen!N!clock, Screen!N!vars, Screen!N!Never, Screen!N!Longest,
         Screen!N!Idle, Screen!N!Init, Screen!N!NeedEyeDetectLocked,
         Screen!N!SchedulEyeDetectTimeout, Screen!N!CancelEyeDetectTimeout,
         Screen!N!HandleEyeDetectTimeout, Screen!N!MachineCancels, Screen!N!MachineSubmits,
         Screen!N!RegisterCancels, Screen!N!RegisterSubmits, Screen!N!Apart,
         Screen!N!ResetScreenOffPreTimeForSwing, Screen!N!ResetInactiveTimer,
         Screen!N!RefreshActivity, Screen!N!SetDisplayOffTime, Screen!N!ScreenGoesDim,
         Screen!N!AddScreenStateCallback, Screen!N!DelScreenStateCallback, Screen!N!OnRemoteDied,
         Screen!N!TriggerCallback, Screen!N!TriggerOrphan, Screen!N!Less, Screen!N!Tick,
         Screen!N!Next, Screen!N!NoticePrecedesDim

\* Saver and Outside!V are the same instance of ScreenSaver.
LEMMA SaverIsProved ==
  /\ Saver!Init => Outside!V!Init
  /\ [Saver!Next]_Saver!vars => [Outside!V!Next]_Outside!V!vars
  /\ Outside!V!SaverFollowsSettings => Saver!SaverFollowsSettings
  BY DEF Saver!vars, Saver!settings, Saver!NoTimer, Saver!NEVER_AUTO_SCREEN_OFF,
         Saver!DISABLE_SCREEN_SAVER_TIME, Saver!Supplies, Saver!Events, Saver!Supply, Saver!Init,
         Saver!GetSettingScreenSaverTime, Saver!SetScreenSaverTimer,
         Saver!UpdateScreenSaverTimer, Saver!CancelScreenSaverTimer, Saver!TimerRuns,
         Saver!InitTimer, Saver!RegisterSettingScreenSaverObservers, Saver!SubscribeCommonEvent,
         Saver!UserSwitched, Saver!RowChanges, Saver!ObserverUpdates, Saver!Publish,
         Saver!PlugChanges, Saver!OthersPublish, Saver!PlugEventUpdates, Saver!OnReceiveEvent,
         Saver!Next, Saver!AtRest, Saver!SaverFollowsSettings, Outside!V!vars,
         Outside!V!settings, Outside!V!NoTimer, Outside!V!NEVER_AUTO_SCREEN_OFF,
         Outside!V!DISABLE_SCREEN_SAVER_TIME, Outside!V!Supplies, Outside!V!Events,
         Outside!V!Supply, Outside!V!Init, Outside!V!GetSettingScreenSaverTime,
         Outside!V!SetScreenSaverTimer, Outside!V!UpdateScreenSaverTimer,
         Outside!V!CancelScreenSaverTimer, Outside!V!TimerRuns, Outside!V!InitTimer,
         Outside!V!RegisterSettingScreenSaverObservers, Outside!V!SubscribeCommonEvent,
         Outside!V!UserSwitched, Outside!V!RowChanges, Outside!V!ObserverUpdates,
         Outside!V!Publish, Outside!V!PlugChanges, Outside!V!OthersPublish,
         Outside!V!PlugEventUpdates, Outside!V!OnReceiveEvent, Outside!V!Next, Outside!V!AtRest,
         Outside!V!SaverFollowsSettings

\* Event and ClientEvents!S are the same instance of ScriptCalls.
LEMMA EventIsProved ==
  /\ Event!Init => ClientEvents!S!Init
  /\ [Event!Next]_Event!vars => [ClientEvents!S!Next]_ClientEvents!S!vars
  /\ ClientEvents!S!CalledWhileHeld => Event!CalledWhileHeld
  BY DEF Event!asynchronous, Event!shutdownCallback, Event!vars, Event!Idle, Event!Init,
         Event!Settle, Event!SyncCall, Event!DeviceCall, Event!ConfigCall, Event!ScreenCall,
         Event!RebootOrShutdown, Event!LockCall, Event!DeprecatedShutdown,
         Event!DeprecatedDeviceCall, Event!DeprecatedLockCall, Event!AsyncWork, Event!AsyncCall,
         Event!SetPowerMode, Event!Create, Event!CreateRunningLock, Event!IsScreenOn,
         Event!IsRunningLockTypeSupported, Event!ScriptCall, Event!Called,
         Event!ExecuteSetPowerMode, Event!ExecuteIsScreenOn, Event!ExecuteIsTypeSupported,
         Event!ClientCreateRunningLock, Event!ExecuteCreateRunningLock, Event!ExecuteCreate,
         Event!ExecuteGetError, Event!Report, Event!Complete, Event!ServiceRestarts,
         Event!ReleaseCallback, Event!CreateCallback, Event!RegisterShutdownCallback,
         Event!UnRegisterShutdownCallback, Event!OnAsyncShutdownOrReboot, Event!PostEvent,
         Event!OnShutdownOrReboot, Event!WaitTimesOut, Event!Next, Event!CalledWhileHeld,
         ClientEvents!S!asynchronous, ClientEvents!S!shutdownCallback, ClientEvents!S!vars,
         ClientEvents!S!Idle, ClientEvents!S!Init, ClientEvents!S!Settle,
         ClientEvents!S!SyncCall, ClientEvents!S!DeviceCall, ClientEvents!S!ConfigCall,
         ClientEvents!S!ScreenCall, ClientEvents!S!RebootOrShutdown, ClientEvents!S!LockCall,
         ClientEvents!S!DeprecatedShutdown, ClientEvents!S!DeprecatedDeviceCall,
         ClientEvents!S!DeprecatedLockCall, ClientEvents!S!AsyncWork, ClientEvents!S!AsyncCall,
         ClientEvents!S!SetPowerMode, ClientEvents!S!Create, ClientEvents!S!CreateRunningLock,
         ClientEvents!S!IsScreenOn, ClientEvents!S!IsRunningLockTypeSupported,
         ClientEvents!S!ScriptCall, ClientEvents!S!Called, ClientEvents!S!ExecuteSetPowerMode,
         ClientEvents!S!ExecuteIsScreenOn, ClientEvents!S!ExecuteIsTypeSupported,
         ClientEvents!S!ClientCreateRunningLock, ClientEvents!S!ExecuteCreateRunningLock,
         ClientEvents!S!ExecuteCreate, ClientEvents!S!ExecuteGetError, ClientEvents!S!Report,
         ClientEvents!S!Complete, ClientEvents!S!ServiceRestarts, ClientEvents!S!ReleaseCallback,
         ClientEvents!S!CreateCallback, ClientEvents!S!RegisterShutdownCallback,
         ClientEvents!S!UnRegisterShutdownCallback, ClientEvents!S!OnAsyncShutdownOrReboot,
         ClientEvents!S!PostEvent, ClientEvents!S!OnShutdownOrReboot,
         ClientEvents!S!WaitTimesOut, ClientEvents!S!Next, ClientEvents!S!CalledWhileHeld

\* Input and Screen!I are the same instance of InputWakeup.
LEMMA InputIsProved ==
  /\ Input!Init => Screen!I!Init
  /\ [Input!Next]_Input!vars => [Screen!I!Next]_Screen!I!vars
  /\ Screen!I!InputIsHeard => Input!InputIsHeard
  BY DEF Input!setting, Input!monitor, Input!input, Input!wakeup, Input!vars, Input!None,
         Input!Debounced, Input!Configured, Input!Reasons, Input!Init, Input!RegisterMonitor,
         Input!BeginSetState, Input!Forbidden, Input!TransitTo, Input!EndSetState, Input!Suspend,
         Input!isRemoteEvent, Input!NonWindowEvent, Input!IsNeedMouseDebounceAfterSuspend,
         Input!isKeyboardKeycode, Input!DetermineWakeupDeviceType, Input!OnInputEvent,
         Input!Refresh, Input!TouchEventAfterScreenOn, Input!CheckEventReciveTime, Input!Submit,
         Input!PowerMgrInputMonitor, Input!Wakeup, Input!HandleWakeup, Input!SleepGuard,
         Input!WakeupSetsState, Input!SleepGuardEnds, Input!IsWakeupReasonConfigMatched,
         Input!ProcessWakeupReason, Input!PowerKeyDown, Input!ExecuteByGetReason,
         Input!TimePasses, Input!Next, Input!InputIsHeard, Screen!I!setting, Screen!I!monitor,
         Screen!I!input, Screen!I!wakeup, Screen!I!vars, Screen!I!None, Screen!I!Debounced,
         Screen!I!Configured, Screen!I!Reasons, Screen!I!Init, Screen!I!RegisterMonitor,
         Screen!I!BeginSetState, Screen!I!Forbidden, Screen!I!TransitTo, Screen!I!EndSetState,
         Screen!I!Suspend, Screen!I!isRemoteEvent, Screen!I!NonWindowEvent,
         Screen!I!IsNeedMouseDebounceAfterSuspend, Screen!I!isKeyboardKeycode,
         Screen!I!DetermineWakeupDeviceType, Screen!I!OnInputEvent, Screen!I!Refresh,
         Screen!I!TouchEventAfterScreenOn, Screen!I!CheckEventReciveTime, Screen!I!Submit,
         Screen!I!PowerMgrInputMonitor, Screen!I!Wakeup, Screen!I!HandleWakeup,
         Screen!I!SleepGuard, Screen!I!WakeupSetsState, Screen!I!SleepGuardEnds,
         Screen!I!IsWakeupReasonConfigMatched, Screen!I!ProcessWakeupReason,
         Screen!I!PowerKeyDown, Screen!I!ExecuteByGetReason, Screen!I!TimePasses, Screen!I!Next,
         Screen!I!InputIsHeard

\* User and Outside!U are the same instance of Settings.
LEMMA UserIsProved ==
  /\ User!Init => Outside!U!Init
  /\ [User!Next]_User!vars => [Outside!U!Next]_Outside!U!vars
  /\ Outside!U!SwitchesFollowUser => User!SwitchesFollowUser
  /\ Outside!U!OffTimeFollowsSetting => User!OffTimeFollowsSetting
  <1>1. \A X : User!Cardinality(X) = Outside!U!Cardinality(X)
    BY Zenon DEF User!Cardinality, Outside!U!Cardinality
  <1> QED
    BY <1>1, Zenon DEF User!vars, User!given, User!display, User!Switches, User!OffTimeKeys, User!Keys,
           User!Missing, User!TooShort, User!IsNeedMultiUser, User!AssembleUri, User!Owners,
           User!NoCall, User!Init, User!Thread, User!Notified, User!GetStringValue,
           User!PutStringValue, User!IsSettingKeyValid, User!GetSettingWakeupSwitch,
           User!GetSettingDisplayOffTime, User!RegisterObserver, User!RegisterSettingKeyObserver,
           User!UnregisterSettingObserver, User!UpdateSettingInvalidDisplayOffTime,
           User!OffTimeKey, User!Overlaps, User!Goes, User!SwitchUpdateReads,
           User!WakeupSettingUpdateFunc, User!Begun, User!DisplayOffTimeUpdateFunc,
           User!GetSettingTime, User!CheckOverride, User!KeepBeforeOverride,
           User!SetBeforeOverride, User!ApplySetting, User!Calls, User!OverrideScreenOffTime,
           User!RestoreScreenOffTime, User!SetDisplayOffTime, User!OverrideScreenOffTimeInner,
           User!RestoreScreenOffTimeInner, User!SetSettingDisplayOffTime, User!BootCompleted,
           User!RegisterDisplayOffTimeObserver, User!SubscribeCommonEvent,
           User!PowerExternalAbilityInit, User!MultiUserKeys, User!UnregisterAllSettingObserver,
           User!UserSwitched, User!UpdateCurrentUserId, User!RegisterAllSettingObserver,
           User!OnPowerConnectStatusChanged, User!UserChangesSetting, User!SwitchUser, User!Next,
           User!Quiet, User!SwitchesFollowUser, User!OffTimeFollowsSetting, Outside!U!vars,
           Outside!U!given, Outside!U!display, Outside!U!Switches, Outside!U!OffTimeKeys,
           Outside!U!Keys, Outside!U!Missing, Outside!U!TooShort, Outside!U!IsNeedMultiUser,
           Outside!U!AssembleUri, Outside!U!Owners, Outside!U!NoCall, Outside!U!Init,
           Outside!U!Thread, Outside!U!Notified, Outside!U!GetStringValue,
           Outside!U!PutStringValue, Outside!U!IsSettingKeyValid,
           Outside!U!GetSettingWakeupSwitch, Outside!U!GetSettingDisplayOffTime,
           Outside!U!RegisterObserver, Outside!U!RegisterSettingKeyObserver,
           Outside!U!UnregisterSettingObserver, Outside!U!UpdateSettingInvalidDisplayOffTime,
           Outside!U!OffTimeKey, Outside!U!Overlaps, Outside!U!Goes, Outside!U!SwitchUpdateReads,
           Outside!U!WakeupSettingUpdateFunc, Outside!U!Begun,
           Outside!U!DisplayOffTimeUpdateFunc, Outside!U!GetSettingTime, Outside!U!CheckOverride,
           Outside!U!KeepBeforeOverride, Outside!U!SetBeforeOverride, Outside!U!ApplySetting,
           Outside!U!Calls, Outside!U!OverrideScreenOffTime, Outside!U!RestoreScreenOffTime,
           Outside!U!SetDisplayOffTime, Outside!U!OverrideScreenOffTimeInner,
           Outside!U!RestoreScreenOffTimeInner, Outside!U!SetSettingDisplayOffTime,
           Outside!U!BootCompleted, Outside!U!RegisterDisplayOffTimeObserver,
           Outside!U!SubscribeCommonEvent, Outside!U!PowerExternalAbilityInit,
           Outside!U!MultiUserKeys, Outside!U!UnregisterAllSettingObserver,
           Outside!U!UserSwitched, Outside!U!UpdateCurrentUserId,
           Outside!U!RegisterAllSettingObserver, Outside!U!OnPowerConnectStatusChanged,
           Outside!U!UserChangesSetting, Outside!U!SwitchUser, Outside!U!Next, Outside!U!Quiet,
           Outside!U!SwitchesFollowUser, Outside!U!OffTimeFollowsSetting

\* Wakeup and Entry!W are the same instance of WakeupMonitors.
LEMMA WakeupIsProved ==
  /\ Wakeup!Init => Entry!W!Init
  /\ [Wakeup!Next]_Wakeup!vars => [Entry!W!Next]_Entry!W!vars
  /\ Entry!W!MonitorsFollowSettings => Wakeup!MonitorsFollowSettings
  <1>1. \A X : Wakeup!Cardinality(X) = Entry!W!Cardinality(X)
    BY Zenon DEF Wakeup!Cardinality, Entry!W!Cardinality
  <1> QED
    BY <1>1, Zenon DEF Wakeup!vars, Wakeup!settings, Wakeup!monitors, Wakeup!Rows, Wakeup!Missing,
           Wakeup!mapWakeupDeviceType, Wakeup!ConfigFile, Wakeup!Init, Wakeup!Thread,
           Wakeup!SourcesThread, Wakeup!RowThreads, Wakeup!ParseSources, Wakeup!SourceList,
           Wakeup!SetOriginSettingValue, Wakeup!SubscribePowerkey, Wakeup!SubscribePowerkeyFails,
           Wakeup!CreateMonitors, Wakeup!Failed, Wakeup!SourcesUpdateFunc, Wakeup!InitParses,
           Wakeup!InitMonitors, Wakeup!RegisterSwitchObservers, Wakeup!ReadSwitch,
           Wakeup!ChangeWakeupSourceConfig, Wakeup!Enabled, Wakeup!WakeupParseJsonConfig,
           Wakeup!LidWakeupParseJsonConfig, Wakeup!SetSettingWakeupSources,
           Wakeup!UserTurnsSwitch, Wakeup!UserChangesSources, Wakeup!UserSwitched, Wakeup!Next,
           Wakeup!MonitorsFollowSettings, Entry!W!vars, Entry!W!settings, Entry!W!monitors,
           Entry!W!Rows, Entry!W!Missing, Entry!W!mapWakeupDeviceType, Entry!W!ConfigFile,
           Entry!W!Init, Entry!W!Thread, Entry!W!SourcesThread, Entry!W!RowThreads,
           Entry!W!ParseSources, Entry!W!SourceList, Entry!W!SetOriginSettingValue,
           Entry!W!SubscribePowerkey, Entry!W!SubscribePowerkeyFails, Entry!W!CreateMonitors,
           Entry!W!Failed, Entry!W!SourcesUpdateFunc, Entry!W!InitParses, Entry!W!InitMonitors,
           Entry!W!RegisterSwitchObservers, Entry!W!ReadSwitch, Entry!W!ChangeWakeupSourceConfig,
           Entry!W!Enabled, Entry!W!WakeupParseJsonConfig, Entry!W!LidWakeupParseJsonConfig,
           Entry!W!SetSettingWakeupSources, Entry!W!UserTurnsSwitch, Entry!W!UserChangesSources,
           Entry!W!UserSwitched, Entry!W!Next, Entry!W!MonitorsFollowSettings

\* Lid and Screen!C are the same instance of Cover.
LEMMA LidIsProved ==
  /\ Lid!Init => Screen!C!Init
  /\ [Lid!Next]_Lid!vars => [Screen!C!Next]_Screen!C!vars
  /\ Screen!C!InternalScreenFollowsCover => Lid!InternalScreenFollowsCover
  BY Zenon DEF Lid!vars, Lid!product, Lid!mutexes, Lid!Threads, Lid!IsLidOrSwitchOpen, Lid!Now,
         Lid!Unseen, Lid!Look, Lid!Forget, Lid!Init, Lid!CountEvent, Lid!Goto, Lid!Start,
         Lid!SetStateAwake, Lid!SetStateInactive, Lid!ExecMonitorByReason, Lid!SwitchEvent,
         Lid!HallSensorCallback, Lid!TimerFires, Lid!IsPowerOffInernalScreenOnlyScene,
         Lid!SuspendControlListener, Lid!PowerOffInternalScreen, Lid!ControlListenerInner,
         Lid!NeedToSkipCurrentWakeup, Lid!WakeupControlListener,
         Lid!IsPowerOnInernalScreenOnlyScene, Lid!HandleOnlySecondScreenWhenCoverOpen,
         Lid!HandleWakeup, Lid!HandleOnlySecondScreenWhenWakeup, Lid!OnInputEvent,
         Lid!WakeupDevice, Lid!IsWakeupDeviceSkip, Lid!WakeupDeviceInner, Lid!SuspendDeviceInner,
         Lid!Stale, Lid!ExternalScreenInit, Lid!ExternalScreenInitActs, Lid!OnConnect,
         Lid!OnConnectActs, Lid!OnDisconnect, Lid!OnDisconnectActs,
         Lid!NotifyAbnormalScreenConnectChange, Lid!AbnormalActs, Lid!Next,
         Lid!InternalScreenFollowsCover, Screen!C!vars, Screen!C!product, Screen!C!mutexes,
         Screen!C!Threads, Screen!C!IsLidOrSwitchOpen, Screen!C!Now, Screen!C!Unseen,
         Screen!C!Look, Screen!C!Forget, Screen!C!Init, Screen!C!CountEvent, Screen!C!Goto,
         Screen!C!Start, Screen!C!SetStateAwake, Screen!C!SetStateInactive,
         Screen!C!ExecMonitorByReason, Screen!C!SwitchEvent, Screen!C!HallSensorCallback,
         Screen!C!TimerFires, Screen!C!IsPowerOffInernalScreenOnlyScene,
         Screen!C!SuspendControlListener, Screen!C!PowerOffInternalScreen,
         Screen!C!ControlListenerInner, Screen!C!NeedToSkipCurrentWakeup,
         Screen!C!WakeupControlListener, Screen!C!IsPowerOnInernalScreenOnlyScene,
         Screen!C!HandleOnlySecondScreenWhenCoverOpen, Screen!C!HandleWakeup,
         Screen!C!HandleOnlySecondScreenWhenWakeup, Screen!C!OnInputEvent, Screen!C!WakeupDevice,
         Screen!C!IsWakeupDeviceSkip, Screen!C!WakeupDeviceInner, Screen!C!SuspendDeviceInner,
         Screen!C!Stale, Screen!C!ExternalScreenInit, Screen!C!ExternalScreenInitActs,
         Screen!C!OnConnect, Screen!C!OnConnectActs, Screen!C!OnDisconnect,
         Screen!C!OnDisconnectActs, Screen!C!NotifyAbnormalScreenConnectChange,
         Screen!C!AbnormalActs, Screen!C!Next, Screen!C!InternalScreenFollowsCover

\* Sources and Entry!S are the same instance of SuspendSources.
LEMMA SourcesIsProved ==
  /\ Sources!Init => Entry!S!Init
  /\ [Sources!Next]_Sources!vars => [Entry!S!Next]_Entry!S!vars
  /\ Entry!S!MonitorsFollowSources => Sources!MonitorsFollowSources
  <1>1. \A X : Sources!Cardinality(X) = Entry!S!Cardinality(X)
    BY Zenon DEF Sources!Cardinality, Entry!S!Cardinality
  <1>2. \A t : Sources!ParseSources(t) = Entry!S!ParseSources(t)
    BY Zenon DEF Sources!ACTION_INVALID, Sources!mapSuspendDeviceType, Sources!ParseSourcesProc,
                 Sources!ParseText, Sources!GetParseErrorFlag, Sources!ParseSources,
                 Entry!S!ACTION_INVALID, Entry!S!mapSuspendDeviceType, Entry!S!ParseSourcesProc,
                 Entry!S!ParseText, Entry!S!GetParseErrorFlag, Entry!S!ParseSources
  <1> QED
    BY <1>1, <1>2, Zenon DEF Sources!vars, Sources!settings, Sources!monitors, Sources!Subscribed, Sources!Rows,
           Sources!None, Sources!Bad, Sources!Init, Sources!PowerConnectStatusInit,
           Sources!IsPowerConnected, Sources!RowOf, Sources!Subscribe, Sources!SubscribeFails,
           Sources!Emplace, Sources!CreateMonitors, Sources!Cancel, Sources!ParsedRows,
           Sources!InitParses, Sources!RegisterSettingsObserver, Sources!InitMonitors,
           Sources!UpdateSuspendSources, Sources!UpdateMonitors, Sources!UserChangesSources,
           Sources!OnPowerConnectStatusChanged, Sources!UserSwitched, Sources!Next,
           Sources!MonitorsFollowSources, Entry!S!vars, Entry!S!settings, Entry!S!monitors,
           Entry!S!Subscribed, Entry!S!Rows, Entry!S!None, Entry!S!Bad, Entry!S!Init,
           Entry!S!PowerConnectStatusInit, Entry!S!IsPowerConnected, Entry!S!RowOf,
           Entry!S!Subscribe, Entry!S!SubscribeFails, Entry!S!Emplace, Entry!S!CreateMonitors,
           Entry!S!Cancel, Entry!S!ParsedRows, Entry!S!InitParses,
           Entry!S!RegisterSettingsObserver, Entry!S!InitMonitors, Entry!S!UpdateSuspendSources,
           Entry!S!UpdateMonitors, Entry!S!UserChangesSources,
           Entry!S!OnPowerConnectStatusChanged, Entry!S!UserSwitched, Entry!S!Next,
           Entry!S!MonitorsFollowSources

-------------------------------------------------------------------------------
(* The properties *)

\* InterruptedIsNotSuspended: a forced suspend whose interrupter was told ERR_OK does not reach
\* ForceSuspendEx, for any set of callers and interrupters and any number of earlier callback
\* tasks (ForceSuspendDeviceIgnoringWakelock, InterruptForceSuspend).
THEOREM InterruptedIsNotSuspendedAlways == GroupSpec => []InterruptedIsNotSuspended
  <1>1. GroupInit => (part = "forced" => Entry!F!Init)
    BY PartBegins, ForcedIsProved
  <1>2. [GroupNext]_groupVars =>
           /\ part = "forced" => (part = "forced")' /\ [Entry!F!Next]_Entry!F!vars
           /\ ~(part = "forced") => ~(part = "forced")'
    BY PartSteps, ForcedIsProved
  <1>3. Entry!F!Spec => []Entry!F!InterruptedIsNotSuspended
    BY Entry!InterruptedCallsDoNotSuspend
  <1>4. (part = "forced" => Entry!F!InterruptedIsNotSuspended) => InterruptedIsNotSuspended
    BY ForcedIsProved DEF InterruptedIsNotSuspended
  <1> QED
    BY <1>1, <1>2, <1>3, <1>4, PTL DEF GroupSpec, Entry!F!Spec

\* HigherPriorityFirst: no ulsr client is told before one of a higher priority, whatever
\* registrations, deaths and later tags come while they are told, as long as no notification was
\* given up by its time-out (UlsrCallbackHolder).
THEOREM HigherPriorityFirstAlways == GroupSpec => []HigherPriorityFirst
  <1>1. GroupInit => (part = "ulsr" => Entry!U!Init)
    BY PartBegins, TagIsProved
  <1>2. [GroupNext]_groupVars =>
           /\ part = "ulsr" => (part = "ulsr")' /\ [Entry!U!Next]_Entry!U!vars
           /\ ~(part = "ulsr") => ~(part = "ulsr")'
    BY PartSteps, TagIsProved
  <1>3. Entry!U!Spec => []Entry!U!HigherPriorityFirst
    BY Entry!UlsrFollowsPriorities
  <1>4. (part = "ulsr" => Entry!U!HigherPriorityFirst) => HigherPriorityFirst
    BY TagIsProved DEF HigherPriorityFirst
  <1> QED
    BY <1>1, <1>2, <1>3, <1>4, PTL DEF GroupSpec, Entry!U!Spec

\* HibernateIsAnswered: whoever was told OnSyncHibernate hears OnSyncWakeup, at whichever step
\* the hibernation fails, for any set of threads and however long a prepare task lives
\* (HibernateController).
THEOREM HibernateIsAnsweredAlways == GroupSpec => []HibernateIsAnswered
  <1>1. GroupInit => (part = "hibernate" => Entry!H!Init)
    BY PartBegins, DiskIsProved
  <1>2. [GroupNext]_groupVars =>
           /\ part = "hibernate" => (part = "hibernate")' /\ [Entry!H!Next]_Entry!H!vars
           /\ ~(part = "hibernate") => ~(part = "hibernate")'
    BY PartSteps, DiskIsProved
  <1>3. Entry!H!Spec => []Entry!H!HibernateIsAnswered
    BY Entry!EveryHibernateIsAnswered
  <1>4. (part = "hibernate" => Entry!H!HibernateIsAnswered) => HibernateIsAnswered
    BY DiskIsProved DEF HibernateIsAnswered
  <1> QED
    BY <1>1, <1>2, <1>3, <1>4, PTL DEF GroupSpec, Entry!H!Spec

\* DialogCanBeShown: while the shutdown dialog counts as shown the system UI's remote object is
\* there to be shown, for any limit of the retries and of the tasks, unless a disconnection has
\* overtaken a show task (ConnectSystemUi, OnAbilityDisconnectDone).
THEOREM DialogCanBeShownAlways == GroupSpec => []DialogCanBeShown
  <1>1. GroupInit => (part = "dialog" => Screen!D!Init)
    BY PartBegins, DialogIsProved
  <1>2. [GroupNext]_groupVars =>
           /\ part = "dialog" => (part = "dialog")' /\ [Screen!D!Next]_Screen!D!vars
           /\ ~(part = "dialog") => ~(part = "dialog")'
    BY PartSteps, DialogIsProved
  <1>3. Screen!D!Spec => []Screen!D!DialogCanBeShown
    BY Screen!ShutdownDialogCanBeShown
  <1>4. (part = "dialog" => Screen!D!DialogCanBeShown) => DialogCanBeShown
    BY DialogIsProved DEF DialogCanBeShown
  <1> QED
    BY <1>1, <1>2, <1>3, <1>4, PTL DEF GroupSpec, Screen!D!Spec

\* PreBrightIsTimed: a pre-bright that waits for its result has its timer, or a thread that
\* brings the result, for any set of callers (the pre-bright entries of PowerStateMachine).
THEOREM PreBrightIsTimedAlways == GroupSpec => []PreBrightIsTimed
  <1>1. GroupInit => (part = "auth" => Screen!P!Init)
    BY PartBegins, AuthIsProved
  <1>2. [GroupNext]_groupVars =>
           /\ part = "auth" => (part = "auth")' /\ [Screen!P!Next]_Screen!P!vars
           /\ ~(part = "auth") => ~(part = "auth")'
    BY PartSteps, AuthIsProved
  <1>3. Screen!P!Spec => []Screen!P!PreBrightIsTimed
    BY Screen!PreBrightIsNeverLeftLit
  <1>4. (part = "auth" => Screen!P!PreBrightIsTimed) => PreBrightIsTimed
    BY AuthIsProved DEF PreBrightIsTimed
  <1> QED
    BY <1>1, <1>2, <1>3, <1>4, PTL DEF GroupSpec, Screen!P!Spec

\* ScreenOffOnlyWhileClose: at rest, a screen that the proximity sensor turned off belongs to a
\* held lock, however an unlock met the screen-off task (CanTransitTo's lock check); its sensor says
\* close, unless an unlock or a call came in the middle of a close event
\* (RunningLockMgr::ProximityLockOn and the sensor's callbacks).
THEOREM ScreenOffOnlyWhileCloseAlways == GroupSpec => []ScreenOffOnlyWhileClose
  <1>1. GroupInit => (part = "proximity" => Screen!X!Init)
    BY PartBegins, SensorIsProved
  <1>2. [GroupNext]_groupVars =>
           /\ part = "proximity" => (part = "proximity")' /\ [Screen!X!Next]_Screen!X!vars
           /\ ~(part = "proximity") => ~(part = "proximity")'
    BY PartSteps, SensorIsProved
  <1>3. Screen!X!Spec => []Screen!X!ScreenOffOnlyWhileClose
    BY Screen!ProximityScreenOffIsUndone
  <1>4. (part = "proximity" => Screen!X!ScreenOffOnlyWhileClose) => ScreenOffOnlyWhileClose
    BY SensorIsProved DEF ScreenOffOnlyWhileClose
  <1> QED
    BY <1>1, <1>2, <1>3, <1>4, PTL DEF GroupSpec, Screen!X!Spec

\* NoticePrecedesDim: as long as there is time for it and the clients were not told yet, the next
\* notice of the screen-off-pre controller comes remainTime before the dimming, for all times
\* that are whole numbers and any clients, unless two schedules overlapped or an old notice was
\* kept (ScreenOffPreController).
THEOREM NoticePrecedesDimAlways == GroupSpec => []NoticePrecedesDim
  <1>1. GroupInit => (part = "notice" => Screen!N!Init)
    BY PartBegins, NoticeIsProved
  <1>2. [GroupNext]_groupVars =>
           /\ part = "notice" => (part = "notice")' /\ [Screen!N!Next]_Screen!N!vars
           /\ ~(part = "notice") => ~(part = "notice")'
    BY PartSteps, NoticeIsProved
  <1>3. Screen!Whole
    BY TimesAssumption DEF Screen!Whole
  <1>4. Screen!N!Spec => []Screen!N!NoticePrecedesDim
    BY <1>3, Screen!NoticeComesFirst
  <1>5. (part = "notice" => Screen!N!NoticePrecedesDim) => NoticePrecedesDim
    BY NoticeIsProved DEF NoticePrecedesDim
  <1> QED
    BY <1>1, <1>2, <1>4, <1>5, PTL DEF GroupSpec, Screen!N!Spec

\* InputIsHeard: a device whose screen is off, or is being turned off, gets every input event,
\* and an awake one at rest one a second, whichever transitions fail, as long as the input
\* service accepted the subscriptions (WakeupController::SetState's renewal).
THEOREM InputIsHeardAlways == GroupSpec => []InputIsHeard
  <1>1. GroupInit => (part = "input" => Screen!I!Init)
    BY PartBegins, InputIsProved
  <1>2. [GroupNext]_groupVars =>
           /\ part = "input" => (part = "input")' /\ [Screen!I!Next]_Screen!I!vars
           /\ ~(part = "input") => ~(part = "input")'
    BY PartSteps, InputIsProved
  <1>3. Screen!I!Spec => []Screen!I!InputIsHeard
    BY Screen!EveryInputIsHeard
  <1>4. (part = "input" => Screen!I!InputIsHeard) => InputIsHeard
    BY InputIsProved DEF InputIsHeard
  <1> QED
    BY <1>1, <1>2, <1>3, <1>4, PTL DEF GroupSpec, Screen!I!Spec

\* DeadClientsHoldNothing: a dead client whose calls and obituaries are handled leaves no block,
\* and when all are gone no filter and no forced time-out, for any clients and block types
\* (ClientDeathRecipientManager, the recipients of the service).
THEOREM DeadClientsHoldNothingAlways == GroupSpec => []DeadClientsHoldNothing
  <1>1. GroupInit => (part = "tokens" => Client!T!Init)
    BY PartBegins, TokensIsProved
  <1>2. [GroupNext]_groupVars =>
           /\ part = "tokens" => (part = "tokens")' /\ [Client!T!Next]_Client!T!vars
           /\ ~(part = "tokens") => ~(part = "tokens")'
    BY PartSteps, TokensIsProved
  <1>3. Client!Distinct
    BY BlockTypesAssumption DEF Client!Distinct, Client!Fto, Client!T!Prox, Tokens!Prox
  <1>4. Client!T!Spec => []Client!T!DeadClientsHoldNothing
    BY <1>3, Client!TokensOfTheDeadAreRemoved
  <1>5. (part = "tokens" => Client!T!DeadClientsHoldNothing) => DeadClientsHoldNothing
    BY TokensIsProved DEF DeadClientsHoldNothing
  <1> QED
    BY <1>1, <1>2, <1>4, <1>5, PTL DEF GroupSpec, Client!T!Spec

\* LocksAreRecovered: once the client has dealt with every death of the service, the service has
\* the client's running locks and each has a proxy that works, for any locks and any number of
\* restarts, unless a lock was created during a recovery or the recovery gave up
\* (RecoverRunningLocks, RunningLock::Recover).
THEOREM LocksAreRecoveredAlways == GroupSpec => []LocksAreRecovered
  <1>1. GroupInit => (part = "library" => Client!B!Init)
    BY PartBegins, LibraryIsProved
  <1>2. [GroupNext]_groupVars =>
           /\ part = "library" => (part = "library")' /\ [Client!B!Next]_Client!B!vars
           /\ ~(part = "library") => ~(part = "library")'
    BY PartSteps, LibraryIsProved
  <1>3. Client!ServiceIsStarted
    BY StartsAssumption DEF Client!ServiceIsStarted
  <1>4. Client!B!Spec => []Client!B!LocksAreRecovered
    BY <1>3, Client!ClientLocksAreRecovered
  <1>5. (part = "library" => Client!B!LocksAreRecovered) => LocksAreRecovered
    BY LibraryIsProved DEF LocksAreRecovered
  <1> QED
    BY <1>1, <1>2, <1>4, <1>5, PTL DEF GroupSpec, Client!B!Spec

\* ClientReconnects: once the client was told of every death of the service, the proxy its next call
\* uses is that of the service that runs now, for any number of restarts and however the obituaries
\* are delayed (PowerMgrClient::ResetProxy and GetPowerMgrProxy).
THEOREM ClientReconnectsAlways == GroupSpec => []ClientReconnects
  <1>1. GroupInit => (part = "library" => Client!B!Init)
    BY PartBegins, LibraryIsProved
  <1>2. [GroupNext]_groupVars =>
           /\ part = "library" => (part = "library")' /\ [Client!B!Next]_Client!B!vars
           /\ ~(part = "library") => ~(part = "library")'
    BY PartSteps, LibraryIsProved
  <1>3. Client!ServiceIsStarted
    BY StartsAssumption DEF Client!ServiceIsStarted
  <1>4. Client!B!Spec => []Client!B!ClientReconnects
    BY <1>3, Client!ClientFindsService
  <1>5. (part = "library" => Client!B!ClientReconnects) => ClientReconnects
    BY LibraryIsProved DEF ClientReconnects
  <1> QED
    BY <1>1, <1>2, <1>4, <1>5, PTL DEF GroupSpec, Client!B!Spec

\* ListenersAreCurrent: whenever no notification is on its way, a listener of the screen locks knows
\* whether its display is locked, unless it registered while it was and nothing happened since; and
\* no listener of a dead client is left once its obituary is handled (RunningLockCallbackManager).
THEOREM ListenersAreCurrentAlways == GroupSpec => []ListenersAreCurrent
  <1>1. GroupInit => (part = "listeners" => Client!L!Init)
    BY PartBegins, LockedIsProved
  <1>2. [GroupNext]_groupVars =>
           /\ part = "listeners" => (part = "listeners")' /\ [Client!L!Next]_Client!L!vars
           /\ ~(part = "listeners") => ~(part = "listeners")'
    BY PartSteps, LockedIsProved
  <1>3. Client!AllIsNoDisplay
    BY DisplaysAssumption DEF Client!AllIsNoDisplay, Client!L!All, Locked!All
  <1>4. Client!L!Spec => []Client!L!ListenersAreCurrent
    BY <1>3, Client!ListenersKnowTheirLocks
  <1>5. (part = "listeners" => Client!L!ListenersAreCurrent) => ListenersAreCurrent
    BY LockedIsProved DEF ListenersAreCurrent
  <1> QED BY <1>1, <1>2, <1>4, <1>5, PTL DEF GroupSpec, Client!L!Spec

\* ToldWhileRegistered: a power-state or power-mode listener is called only while it is in the
\* table; a dead client's entry has an obituary or task that will remove it, unless the dead object
\* refused the recipient of a registration that was handled late, which leaves that one entry; and a
\* script's shutdown function is called only while its reference is held.
THEOREM ToldWhileRegisteredAlways == GroupSpec => []ToldWhileRegistered
  <1>1. GroupInit => (part = "callbacks" => Client!K!Init)
    BY PartBegins, RegistryIsProved
  <1>2. [GroupNext]_groupVars =>
           /\ part = "callbacks" => (part = "callbacks")' /\ [Client!K!Next]_Client!K!vars
           /\ ~(part = "callbacks") => ~(part = "callbacks")'
    BY PartSteps, RegistryIsProved
  <1>3. Client!K!Spec => []Client!K!ToldWhileRegistered
    BY Client!CallbacksHearWhileRegistered
  <1>4. GroupInit => (part = "scriptEvent" => ClientEvents!S!Init)
    BY PartBegins, EventIsProved
  <1>5. [GroupNext]_groupVars =>
           /\ part = "scriptEvent" => (part = "scriptEvent")' /\ [ClientEvents!S!Next]_ClientEvents!S!vars
           /\ ~(part = "scriptEvent") => ~(part = "scriptEvent")'
    BY PartSteps, EventIsProved
  <1>6. ClientEvents!S!Spec => []ClientEvents!S!CalledWhileHeld
    BY ClientEvents!ScriptFunctionsAreHeld
  <1>7. (part = "callbacks" => Client!K!ToldWhileRegistered)
         /\ (part = "scriptEvent" => ClientEvents!S!CalledWhileHeld)
         => ToldWhileRegistered
    BY RegistryIsProved, EventIsProved DEF ToldWhileRegistered
  <1> QED
    BY <1>1, <1>2, <1>3, <1>4, <1>5, <1>6, <1>7, PTL DEF GroupSpec, Client!K!Spec, ClientEvents!S!Spec

\* CallbackFollowsHdi: when every notice, retry and task has been carried out the running power
\* service has our callback, over any number of restarts of it and of the service manager, unless
\* one died while the listener's registration was being retried (RegisterHdiStatusListener).
THEOREM CallbackFollowsHdiAlways == GroupSpec => []CallbackFollowsHdi
  <1>1. GroupInit => (part = "hdi" => Outside!L!Init)
    BY PartBegins, LinkIsProved
  <1>2. [GroupNext]_groupVars =>
           /\ part = "hdi" => (part = "hdi")' /\ [Outside!L!Next]_Outside!L!vars
           /\ ~(part = "hdi") => ~(part = "hdi")'
    BY PartSteps, LinkIsProved
  <1>3. Outside!L!Spec => []Outside!L!CallbackFollowsHdi
    BY Outside!PowerServiceGetsTheCallback
  <1>4. (part = "hdi" => Outside!L!CallbackFollowsHdi) => CallbackFollowsHdi
    BY LinkIsProved DEF CallbackFollowsHdi
  <1> QED
    BY <1>1, <1>2, <1>3, <1>4, PTL DEF GroupSpec, Outside!L!Spec

\* SaverFollowsSettings: at rest the screen saver's timer is the one that the supply, the user
\* and the settings ask for, for every set of times, unless a change came that nobody watches
\* (the screen saver's subscriber and observers).
THEOREM SaverFollowsSettingsAlways == GroupSpec => []SaverFollowsSettings
  <1>1. GroupInit => (part = "saver" => Outside!V!Init)
    BY PartBegins, SaverIsProved
  <1>2. [GroupNext]_groupVars =>
           /\ part = "saver" => (part = "saver")' /\ [Outside!V!Next]_Outside!V!vars
           /\ ~(part = "saver") => ~(part = "saver")'
    BY PartSteps, SaverIsProved
  <1>3. Outside!V!Spec => []Outside!V!SaverFollowsSettings
    BY Outside!SaverTimerFollows
  <1>4. (part = "saver" => Outside!V!SaverFollowsSettings) => SaverFollowsSettings
    BY SaverIsProved DEF SaverFollowsSettings
  <1> QED
    BY <1>1, <1>2, <1>3, <1>4, PTL DEF GroupSpec, Outside!V!Spec

\* DisplayKnowsCover: settled with the switch subscribed to, the display service knows whether
\* the cover is open, over any number of its crashes and restarts of ours, unless the cover
\* overtook its own report or closed on a screen that was off (OnAddSystemAbility,
\* DoReportSwitchState).
THEOREM DisplayKnowsCoverAlways == GroupSpec => []DisplayKnowsCover
  <1>1. GroupInit => (part = "life" => Outside!E!Init)
    BY PartBegins, LifeIsProved
  <1>2. [GroupNext]_groupVars =>
           /\ part = "life" => (part = "life")' /\ [Outside!E!Next]_Outside!E!vars
           /\ ~(part = "life") => ~(part = "life")'
    BY PartSteps, LifeIsProved
  <1>3. Outside!E!Spec => []Outside!E!DisplayKnowsCover
    BY Outside!DisplayIsToldOfCover
  <1>4. (part = "life" => Outside!E!DisplayKnowsCover) => DisplayKnowsCover
    BY LifeIsProved DEF DisplayKnowsCover
  <1> QED
    BY <1>1, <1>2, <1>3, <1>4, PTL DEF GroupSpec, Outside!E!Spec

\* UserValueIsRestored: between mode changes a recoverable setting has the user's value in every
\* mode that leaves it alone, for any settings and policy, unless the change of mode met a crash,
\* a change that no observer saw, or InitPowerMode (PowerModePolicy).
THEOREM UserValueIsRestoredAlways == GroupSpec => []UserValueIsRestored
  <1>1. GroupInit => (part = "mode" => Outside!M!Init)
    BY PartBegins, ModeIsProved
  <1>2. [GroupNext]_groupVars =>
           /\ part = "mode" => (part = "mode")' /\ [Outside!M!Next]_Outside!M!vars
           /\ ~(part = "mode") => ~(part = "mode")'
    BY PartSteps, ModeIsProved
  <1>3. Outside!ModesAreGiven
    BY PolicyAssumption DEF Outside!ModesAreGiven, Mode!INIT_VALUE_FALSE, Mode!Modes,
           Outside!M!INIT_VALUE_FALSE, Outside!M!Modes
  <1>4. Outside!M!Spec => []Outside!M!UserValueIsRestored
    BY <1>3, Outside!ModesRestoreTheUser
  <1>5. (part = "mode" => Outside!M!UserValueIsRestored) => UserValueIsRestored
    BY ModeIsProved DEF UserValueIsRestored
  <1> QED
    BY <1>1, <1>2, <1>4, <1>5, PTL DEF GroupSpec, Outside!M!Spec

\* SwitchesFollowUser: once the observers' threads have run, the wake-up switches are those of the
\* active user, for any users and however often they change, unless a change came before its
\* observer or was overtaken (PowerMgrService's observers, SettingHelper).
THEOREM SwitchesFollowUserAlways == GroupSpec => []SwitchesFollowUser
  <1>1. GroupInit => (part = "settings" => Outside!U!Init)
    BY PartBegins, UserIsProved
  <1>2. [GroupNext]_groupVars =>
           /\ part = "settings" => (part = "settings")' /\ [Outside!U!Next]_Outside!U!vars
           /\ ~(part = "settings") => ~(part = "settings")'
    BY PartSteps, UserIsProved
  <1>3. Outside!U!Spec => []Outside!U!SwitchesFollowUser
    BY Outside!SwitchesFollow
  <1>4. (part = "settings" => Outside!U!SwitchesFollowUser) => SwitchesFollowUser
    BY UserIsProved DEF SwitchesFollowUser
  <1> QED
    BY <1>1, <1>2, <1>3, <1>4, PTL DEF GroupSpec, Outside!U!Spec

\* OffTimeFollowsSetting: once the observers' threads have run the display-off time is that of the row of
\* the supply and the user, if that holds a usable time and nobody overrides it, for any times and any
\* interleaving of the updates' reads, checks and assignments with the clients' overrides, unless the
\* last of them was overtaken (PowerStateMachine::DisplayOffTimeUpdateFunc, RestoreScreenOffTimeInner).
THEOREM OffTimeFollowsSettingAlways == GroupSpec => []OffTimeFollowsSetting
  <1>1. GroupInit => (part = "settings" => Outside!U!Init)
    BY PartBegins, UserIsProved
  <1>2. [GroupNext]_groupVars =>
           /\ part = "settings" => (part = "settings")' /\ [Outside!U!Next]_Outside!U!vars
           /\ ~(part = "settings") => ~(part = "settings")'
    BY PartSteps, UserIsProved
  <1>3. Outside!U!Spec => []Outside!U!OffTimeFollowsSetting
    BY Outside!OffTimeFollows
  <1>4. (part = "settings" => Outside!U!OffTimeFollowsSetting) => OffTimeFollowsSetting
    BY UserIsProved DEF OffTimeFollowsSetting
  <1> QED
    BY <1>1, <1>2, <1>3, <1>4, PTL DEF GroupSpec, Outside!U!Spec

\* MonitorsFollowSettings: once the updates have run, the wake-up monitors are those of the enabled
\* sources and these follow their switches, for any configuration, unless a subscription failed or an
\* update was overtaken (WakeupController::RegisterSettingsObserver, ChangeWakeupSourceConfig).
THEOREM MonitorsFollowSettingsAlways == GroupSpec => []MonitorsFollowSettings
  <1>1. GroupInit => (part = "wakeup" => Entry!W!Init)
    BY PartBegins, WakeupIsProved
  <1>2. [GroupNext]_groupVars =>
           /\ part = "wakeup" => (part = "wakeup")' /\ [Entry!W!Next]_Entry!W!vars
           /\ ~(part = "wakeup") => ~(part = "wakeup")'
    BY PartSteps, WakeupIsProved
  <1>3. Entry!W!Spec => []Entry!W!MonitorsFollowSettings
    BY Entry!WakeupMonitorsFollow
  <1>4. (part = "wakeup" => Entry!W!MonitorsFollowSettings) => MonitorsFollowSettings
    BY WakeupIsProved DEF MonitorsFollowSettings
  <1> QED
    BY <1>1, <1>2, <1>3, <1>4, PTL DEF GroupSpec, Entry!W!Spec

\* MonitorsFollowSources: once every update has run, the suspend monitors are those of the object of
\* the current user and supply, whatever its text, unless a subscription failed or an update was
\* overtaken (SuspendController::UpdateSuspendSources, PowerConnectStatus).
THEOREM MonitorsFollowSourcesAlways == GroupSpec => []MonitorsFollowSources
  <1>1. GroupInit => (part = "sources" => Entry!S!Init)
    BY PartBegins, SourcesIsProved
  <1>2. [GroupNext]_groupVars =>
           /\ part = "sources" => (part = "sources")' /\ [Entry!S!Next]_Entry!S!vars
           /\ ~(part = "sources") => ~(part = "sources")'
    BY PartSteps, SourcesIsProved
  <1>3. Entry!S!Spec => []Entry!S!MonitorsFollowSources
    BY Entry!SuspendMonitorsFollow
  <1>4. (part = "sources" => Entry!S!MonitorsFollowSources) => MonitorsFollowSources
    BY SourcesIsProved DEF MonitorsFollowSources
  <1> QED
    BY <1>1, <1>2, <1>3, <1>4, PTL DEF GroupSpec, Entry!S!Spec

\* InternalScreenFollowsCover: when every task has ended, the internal screen is on exactly when the
\* device is on and its cover open, and a device with a closed cover and no external screen is off,
\* for any number of worker threads, screens and events, as long as none acted on what had changed
\* since it looked (ExecSuspendMonitorByReason, NeedToSkipCurrentWakeup, OnDisconnect).
THEOREM InternalScreenFollowsCoverAlways == GroupSpec => []InternalScreenFollowsCover
  <1>1. GroupInit => (part = "cover" => Screen!C!Init)
    BY PartBegins, LidIsProved
  <1>2. [GroupNext]_groupVars =>
           /\ part = "cover" => (part = "cover")' /\ [Screen!C!Next]_Screen!C!vars
           /\ ~(part = "cover") => ~(part = "cover")'
    BY PartSteps, LidIsProved
  <1>3. Screen!WorkersAreOthers
    BY WorkersAssumption DEF Screen!WorkersAreOthers
  <1>4. Screen!C!Spec => []Screen!C!InternalScreenFollowsCover
    BY <1>3, Screen!InternalScreenFollows
  <1>5. (part = "cover" => Screen!C!InternalScreenFollowsCover) => InternalScreenFollowsCover
    BY LidIsProved DEF InternalScreenFollowsCover
  <1> QED
    BY <1>1, <1>2, <1>4, <1>5, PTL DEF GroupSpec, Screen!C!Spec

===============================================================================
