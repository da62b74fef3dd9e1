------------------------------ MODULE RunningLock ------------------------------
(***************************************************************************)
(* RunningLockMgr, its lock counters, RunningLockProxy and the time-out    *)
(* timers of RunningLockTimerHandler.  Every entry of the service holds    *)
(* PowerMgrService::lockMutex_ from end to end, so each is one action on   *)
(* the manager's state; what interleaves is the order of the calls, the    *)
(* expiry of a timer (whose callback may be waiting for lockMutex_ while   *)
(* other calls go first), the death of a client, and the answers of the    *)
(* HDI power service, which may refuse to hold or to give back a lock.     *)
(* Only the loops of RunningLockProxy over proxyMap_ are taken token by    *)
(* token, since the state machine may go to sleep under them.              *)
(*                                                                         *)
(* The manager's state is one record m and the functions of the manager    *)
(* are operators from m to m, so that one handler can apply several.       *)
(***************************************************************************)
EXTENDS Integers, FiniteSets

CONSTANTS
    Tokens,          \* the IRemoteObject tokens of clients, one per RunningLock object
    Procs,           \* client processes; a process stands for its pid and its uid
    TypeOf,          \* RunningLockParam.type of each token's lock
    OwnerOf,         \* the process that creates each token's lock
    NameOf,          \* RunningLockParam.name; two tokens may have the same
    CounterMod,      \* number of values of LockCounter::counter_ (2^32 in the code)
    ForceSleep,      \* the build has POWER_MANAGER_ENABLE_FORCE_SLEEP_BROADCAST
    AllowProxy,      \* whether ProxyRunningLock, ResetRunningLocks and UpdateWorkSource are called
    HoldMayFail,     \* whether the HDI may refuse HoldRunningLockExt
    UnholdMayFail    \* whether the HDI may refuse UnholdRunningLockExt

\* TASK stands for each of the six BACKGROUND_ types: all of them have a counter of their own
\* whose action is the HDI's.
Types == {"SCREEN", "TASK", "USER_IDLE", "COORDINATION", "PROXIMITY"}

\* The types whose action increases or decreases the counter of BACKGROUND_TASK.
Nested == {"USER_IDLE", "COORDINATION"}

\* The types whose action leaves a mark: the HDI holds the lock, the proximity sensor is enabled,
\* SetCoordinated(true) was called, the state machine was told of the first screen lock.
Marks == {"SCREEN", "TASK", "COORDINATION", "PROXIMITY"}

ASSUME TokensAssumption ==
    /\ IsFiniteSet(Tokens) /\ IsFiniteSet(Procs)
    /\ TypeOf \in [Tokens -> Types]
    /\ OwnerOf \in [Tokens -> Procs]
ASSUME CounterAssumption == CounterMod \in Nat /\ CounterMod > Cardinality(Tokens) + 1
ASSUME SwitchAssumption == {ForceSleep, AllowProxy, HoldMayFail, UnholdMayFail} \subseteq BOOLEAN

VARIABLES
    m,        \* the manager
    todo,     \* what a loop of RunningLockProxy, which holds lockMutex_, has still to do
    asleep,   \* GetState() is SLEEP or HIBERNATE
    due,      \* tokens whose timer callback has started and waits for lockMutex_
    forceTimer,   \* TIMER_ID_FORCE_RELEASE_LOCK is set
    toUnlock,     \* the locks that the task of that timer has still to unlock
    timed     \* history: tokens whose lock was last enabled by a Lock call with a time-out

vars == << m, todo, asleep, due, forceTimer, toUnlock, timed >>
forced == << forceTimer, toUnlock >>

-------------------------------------------------------------------------------
LockStates == {"none", "DISABLE", "ENABLE", "PROXIED"}

WorkSourceStates == {"absent", "plain", "proxied"}

Managers ==
    [ lock    : [Tokens -> LockStates],             \* runningLocks_; "none" is not registered
      counter : [Types -> 0 .. CounterMod - 1],     \* lockCounters_
      active  : [Marks -> BOOLEAN],                 \* what the last activate_ left behind
      screens : SUBSET Tokens,                      \* unSceneLockLists_
      wks     : [Tokens -> [Procs -> WorkSourceStates]],  \* proxyMap_: the work sources of a token
      cnt     : [Tokens -> Nat],                    \* proxyMap_: how many of them are proxied
      timer   : SUBSET Tokens ]                     \* runninglockTimerMap_

\* What a loop does for one token t; p is the process that is proxied.
LoopSteps == [ op : {"ProxyAll", "ProxyOne", "UnproxyAll", "UnproxyOne", "Reset"}, t : Tokens, p : Procs ]

TypeOK ==
    /\ m \in Managers
    /\ todo \subseteq LoopSteps
    /\ asleep \in BOOLEAN
    /\ due \subseteq Tokens
    /\ forceTimer \in BOOLEAN /\ toUnlock \subseteq Tokens
    /\ timed \subseteq Tokens

Registered(mm, t) == mm.lock[t] # "none"

-------------------------------------------------------------------------------
(* LockCounter: ok says whether the HDI complies, if the handler reaches it. *)

Up(mm, type) == (mm.counter[type] + 1) % CounterMod

\* A mutant of Down: the counter is signed.
Down_Signed(mm, type) == mm.counter[type] - 1

Down(mm, type) == (mm.counter[type] - 1) % CounterMod

\* A mutant of IncreaseTask: the count is kept when the HDI refuses.
IncreaseTask_KeepsCount(mm, ok) ==
    [ mm EXCEPT !.counter["TASK"] = Up(mm, "TASK"), !.active["TASK"] = @ \/ (ok /\ Up(mm, "TASK") = 1) ]

\* Increase on the BACKGROUND_TASK counter: the first lock is passed on to the HDI.
IncreaseTask(mm, ok) ==
    IF Up(mm, "TASK") = 1 /\ ~ok THEN mm
    ELSE [ mm EXCEPT !.counter["TASK"] = Up(mm, "TASK"), !.active["TASK"] = @ \/ Up(mm, "TASK") = 1 ]

DecreaseTask(mm, ok) ==
    IF Down(mm, "TASK") = 0 /\ ~ok THEN mm
    ELSE [ mm EXCEPT !.counter["TASK"] = Down(mm, "TASK"), !.active["TASK"] = @ /\ Down(mm, "TASK") # 0 ]

\* The action of a counter that goes from 0 to 1 or from 1 to 0 reaches the HDI.
ReachesHdiUp(mm, type) ==
    /\ type \in Nested \cup {"TASK"}
    /\ type \in Nested => Up(mm, type) = 1
    /\ Up(mm, "TASK") = 1

ReachesHdiDown(mm, type) ==
    /\ type \in Nested \cup {"TASK"}
    /\ type \in Nested => Down(mm, type) = 0
    /\ Down(mm, "TASK") = 0

\* A COORDINATION lock calls SetCoordinated whatever the HDI answers.
Increase(mm, type, ok) ==
    LET first == Up(mm, type) = 1
        acted == IF type \in Nested /\ first THEN IncreaseTask(mm, ok) ELSE mm
        fails == ReachesHdiUp(mm, type) /\ ~ok
    IN  IF type = "TASK" THEN IncreaseTask(mm, ok)
        ELSE [ acted EXCEPT !.counter[type] = IF fails THEN @ ELSE Up(mm, type),
                            !.active = IF first /\ type \in Marks THEN [ @ EXCEPT ![type] = TRUE ] ELSE @ ]

Decrease(mm, type, ok) ==
    LET last  == Down(mm, type) = 0
        acted == IF type \in Nested /\ last THEN DecreaseTask(mm, ok) ELSE mm
        fails == ReachesHdiDown(mm, type) /\ ~ok
    IN  IF type = "TASK" THEN DecreaseTask(mm, ok)
        ELSE [ acted EXCEPT !.counter[type] = IF fails THEN @ ELSE Down(mm, type),
                            !.active = IF last /\ type \in Marks THEN [ @ EXCEPT ![type] = FALSE ] ELSE @ ]

-------------------------------------------------------------------------------
(* RunningLockMgr *)

\* A COORDINATION lock is refused while the device sleeps.
IsValidType(type) == asleep => type # "COORDINATION"

\* A mutant of ValidateLockForEnable: a lock that is enabled is enabled again.
ValidateLockForEnable_Twice(mm, t) ==
    Registered(mm, t) /\ mm.lock[t] # "PROXIED" /\ IsValidType(TypeOf[t])

ValidateLockForEnable(mm, t) ==
    /\ Registered(mm, t)
    /\ mm.lock[t] # "PROXIED"
    /\ IsValidType(TypeOf[t])
    /\ mm.lock[t] # "ENABLE"

Lock(mm, t, ok) ==
    LET up == Increase(mm, TypeOf[t], ok)
    IN  IF ~ValidateLockForEnable(mm, t) THEN mm
        ELSE IF ReachesHdiUp(mm, TypeOf[t]) /\ ~ok THEN up
        ELSE [ up EXCEPT !.lock[t] = "ENABLE",
                         !.screens = IF TypeOf[t] = "SCREEN" THEN @ \cup {t} ELSE @ ]

\* RunningLockProxy::UpdateProxyState(..., false): no work source is proxied any more.
UpdateProxyState(mm, t) ==
    [ mm EXCEPT !.wks[t] = [ p \in Procs |-> IF @[p] = "absent" THEN "absent" ELSE "plain" ],
                !.cnt[t] = 0 ]

\* u is the token of the lock that t, or t's name, designates.  A proxied lock is not enabled, but
\* it is not DISABLE either: its counter is decreased once more.
UnLock(mm, t, u, ok) ==
    LET told == IF mm.lock[u] = "PROXIED" /\ u = t THEN UpdateProxyState(mm, t) ELSE mm
        down == Decrease(told, TypeOf[u], ok)
    IN  IF mm.lock[u] = "DISABLE" THEN told
        ELSE IF ReachesHdiDown(told, TypeOf[u]) /\ ~ok THEN down
        ELSE [ down EXCEPT !.lock[u] = "DISABLE", !.screens = @ \ {u} ]

\* RunningLockProxy::RemoveRunningLock and the erasure from runningLocks_: an unlock that failed
\* does not stop it, and the timer is not unregistered.
ReleaseLock(mm, t, ok) ==
    [ UnLock(mm, t, t, ok) EXCEPT !.lock[t] = "none",
                                  !.wks[t] = [ p \in Procs |-> "absent" ],
                                  !.cnt[t] = 0 ]

-------------------------------------------------------------------------------
(* RunningLockProxy: PROXIMITY locks are not in proxyMap_. *)

InProxyMap(mm, t) == Registered(mm, t) /\ TypeOf[t] # "PROXIMITY"

UnlockInnerByProxy(mm, t, ok) ==
    IF mm.lock[t] = "DISABLE" THEN mm
    ELSE [ UnLock(mm, t, t, ok) EXCEPT !.lock[t] = "PROXIED" ]

LockInnerByProxy(mm, t, ok) ==
    IF mm.lock[t] # "PROXIED" THEN mm
    ELSE Lock([ mm EXCEPT !.lock[t] = "DISABLE" ], t, ok)

WorkSources(mm, t) == { p \in Procs : mm.wks[t][p] # "absent" }

Proxied(mm, t) == { p \in Procs : mm.wks[t][p] = "proxied" }

\* The work sources of t that are in S become s.
Mark(mm, t, S, s) ==
    [ mm EXCEPT !.wks[t] = [ p \in Procs |-> IF p \in S /\ @[p] # "absent" THEN s ELSE @[p] ] ]

\* A mutant of ProxyAll: the number of proxied work sources is not brought up to date.
ProxyAll_NoCount(mm, t, ok) == UnlockInnerByProxy(Mark(mm, t, Procs, "proxied"), t, ok)

\* The first loop of IncreaseProxyCnt, for one token of the process.
ProxyAll(mm, t, ok) ==
    LET marked == Mark(mm, t, Procs, "proxied")
    IN  UnlockInnerByProxy([ marked EXCEPT !.cnt[t] = Cardinality(WorkSources(mm, t)) ], t, ok)

\* The second loop, for one token that works for the process.
ProxyOne(mm, t, p, ok) ==
    LET marked == [ Mark(mm, t, {p}, "proxied") EXCEPT !.cnt[t] = @ + 1 ]
    IN  IF mm.wks[t][p] # "plain" THEN mm
        ELSE IF marked.cnt[t] = Cardinality(WorkSources(mm, t)) THEN UnlockInnerByProxy(marked, t, ok)
        ELSE marked

UnproxyAll(mm, t, ok) ==
    LockInnerByProxy([ Mark(mm, t, Procs, "plain") EXCEPT !.cnt[t] = 0 ], t, ok)

UnproxyOne(mm, t, p, ok) ==
    LET marked == [ Mark(mm, t, {p}, "plain") EXCEPT !.cnt[t] = IF @ = 0 THEN 0 ELSE @ - 1 ]
    IN  IF mm.wks[t][p] # "proxied" THEN mm
        ELSE IF marked.cnt[t] = Cardinality(WorkSources(mm, t)) - 1 THEN LockInnerByProxy(marked, t, ok)
        ELSE marked

\* RunningLockProxy::ResetRunningLocks: the count is cleared after the lock is restored.
ResetProxy(mm, t, ok) ==
    [ LockInnerByProxy(Mark(mm, t, Procs, "plain"), t, ok) EXCEPT !.cnt[t] = 0 ]

\* A loop over the tokens in S that are in proxyMap_; nothing is registered or released under it.
Loop(op, S, p) == { [ op |-> op, t |-> t, p |-> p ] : t \in { u \in S : InProxyMap(m, u) } }

OwnedBy(p) == { t \in Tokens : OwnerOf[t] = p }

\* The second loops skip the offload player's lock.
NotOffload == { t \in Tokens : NameOf[t] # "AudioOffloadBackgroundPlay" }

IncreaseProxyCnt(p) == Loop("ProxyAll", OwnedBy(p), p) \cup Loop("ProxyOne", NotOffload, p)

DecreaseProxyCnt(p) == Loop("UnproxyAll", OwnedBy(p), p) \cup Loop("UnproxyOne", NotOffload, p)

LoopBody(mm, x, ok) ==
    CASE x.op = "ProxyAll"   -> ProxyAll(mm, x.t, ok)
      [] x.op = "ProxyOne"   -> ProxyOne(mm, x.t, x.p, ok)
      [] x.op = "UnproxyAll" -> UnproxyAll(mm, x.t, ok)
      [] x.op = "UnproxyOne" -> UnproxyOne(mm, x.t, x.p, ok)
      [] x.op = "Reset"      -> ResetProxy(mm, x.t, ok)

\* RunningLockProxy::UpdateWorkSource: the lock is proxied or restored by comparing the new work
\* sources with the old, then the map is replaced.
UpdateWorkSource(mm, t, S, ok) ==
    LET new        == [ p \in Procs |-> IF p \notin S THEN "absent"
                                        ELSE IF mm.wks[t][p] = "absent" THEN "plain" ELSE mm.wks[t][p] ]
        proxyCount == Cardinality({ p \in Procs : new[p] = "proxied" })
        isProxyed  == mm.cnt[t] # 0 /\ mm.cnt[t] = Cardinality(WorkSources(mm, t))
        acted      == CASE isProxyed /\ Cardinality(S) > proxyCount      -> LockInnerByProxy(mm, t, ok)
                        [] ~isProxyed /\ S # {} /\ Cardinality(S) = proxyCount
                                                                          -> UnlockInnerByProxy(mm, t, ok)
                        [] OTHER                                          -> mm
    IN  IF InProxyMap(mm, t) THEN [ acted EXCEPT !.wks[t] = new, !.cnt[t] = proxyCount ] ELSE mm

-------------------------------------------------------------------------------
(* The entries of PowerMgrService, each under lockMutex_ *)

HoldAnswers == IF HoldMayFail THEN BOOLEAN ELSE {TRUE}

UnholdAnswers == IF UnholdMayFail THEN BOOLEAN ELSE {TRUE}

\* A loop that proxies gives locks back, the others take them again.
LoopAnswers(x) == IF x.op \in {"ProxyAll", "ProxyOne"} THEN UnholdAnswers ELSE HoldAnswers

\* The entry gets lockMutex_ and has given it back when it returns.
LockMutex == todo = {} /\ todo' = {}

CreateRunningLock(t) ==
    /\ LockMutex
    /\ ~Registered(m, t)
    /\ m' = [ m EXCEPT !.lock[t] = "DISABLE" ]
    /\ UNCHANGED << asleep, due, forced, timed >>

\* The timer is registered even when the lock was refused or already enabled, in place of an
\* earlier one.  Clients never pass a time-out for a PROXIMITY lock.
ServiceLock(t, timeout, ok) ==
    LET locked == Lock(m, t, ok)
    IN  /\ LockMutex
        /\ timeout => TypeOf[t] # "PROXIMITY"
        /\ m' = [ locked EXCEPT !.timer = IF timeout THEN @ \cup {t} ELSE @ ]
        /\ timed' = IF timeout THEN timed \cup {t}
                    ELSE IF locked.lock[t] # m.lock[t] THEN timed \ {t} ELSE timed
        /\ UNCHANGED << asleep, due, forced >>

\* The lock that t designates, or any lock with t's name when t is not registered (a client that
\* has not yet recovered its locks after a restart of the service).
Designated(t) ==
    IF Registered(m, t) THEN {t}
    ELSE { u \in Tokens : Registered(m, u) /\ NameOf[u] = NameOf[t] }

UnLockByToken(t, ok) ==
    LET unregistered == [ m EXCEPT !.timer = @ \ {t} ]
    IN  /\ LockMutex
        /\ \/ \E u \in Designated(t) : m' = UnLock(unregistered, t, u, ok)
           \/ Designated(t) = {} /\ m' = unregistered

ServiceUnLock(t, ok) ==
    /\ UnLockByToken(t, ok)
    /\ UNCHANGED << asleep, due, forced, timed >>

\* A token is never used again after its release: the model gives its name to a new one, for which
\* the timer of the old, whose callback would find nothing, does not count.
Forget(t) == due' = due \ {t} /\ timed' = timed \ {t}

ReleaseRunningLock(t, ok) ==
    /\ LockMutex
    /\ Registered(m, t)
    /\ m' = [ ReleaseLock(m, t, ok) EXCEPT !.timer = @ \ {t} ]
    /\ Forget(t)
    /\ UNCHANGED << asleep, forced >>

\* RunningLockDeathRecipient::OnRemoteDied.
ForceUnLock(t, ok) ==
    /\ LockMutex
    /\ Registered(m, t)
    /\ m' = [ ReleaseLock(UnLock(m, t, t, ok), t, ok) EXCEPT !.timer = @ \ {t} ]
    /\ Forget(t)
    /\ UNCHANGED << asleep, forced >>

\* The timer's thread starts a callback, one at a time; from here on unregistering is too late.
TimerFires(t) ==
    /\ due = {} /\ t \in m.timer
    /\ due' = {t}
    /\ UNCHANGED << m, todo, asleep, forced, timed >>

\* A mutant of TimerTask: the timer is unregistered and the lock left alone.
TimerTask_NoUnLock(t, ok) ==
    /\ LockMutex
    /\ t \in due
    /\ due' = due \ {t}
    /\ m' = UpdateWorkSource([ m EXCEPT !.timer = @ \ {t} ], t, {}, ok)
    /\ UNCHANGED << asleep, forced, timed >>

\* The callback has got lockMutex_.
TimerTask(t, ok) ==
    LET updated == UpdateWorkSource([ m EXCEPT !.timer = @ \ {t} ], t, {}, ok)
    IN  /\ LockMutex
        /\ t \in due
        /\ due' = due \ {t}
        /\ m' = IF Registered(m, t) THEN UnLock(updated, t, t, ok) ELSE updated
        /\ UNCHANGED << asleep, forced, timed >>

ServiceUpdateWorkSource(t, S, ok) ==
    /\ AllowProxy
    /\ LockMutex
    /\ Registered(m, t)
    /\ m' = UpdateWorkSource(m, t, S, ok)
    /\ UNCHANGED << asleep, due, forced, timed >>

\* ProxyRunningLocks is a loop of these.
ProxyRunningLock(isProxied, p) ==
    /\ AllowProxy
    /\ todo = {}
    /\ todo' = IF isProxied THEN IncreaseProxyCnt(p) ELSE DecreaseProxyCnt(p)
    /\ UNCHANGED << m, asleep, due, forced, timed >>

ResetRunningLocks ==
    /\ AllowProxy
    /\ todo = {}
    /\ todo' = UNION { Loop("Reset", OwnedBy(p), p) : p \in Procs }
    /\ UNCHANGED << m, asleep, due, forced, timed >>

\* One token of the loop; the loop over the process's own tokens is the first.
Iterate(x, ok) ==
    /\ x \in todo
    /\ x.op \in {"ProxyOne", "UnproxyOne"} => \A y \in todo : y.op \notin {"ProxyAll", "UnproxyAll"}
    /\ m' = LoopBody(m, x, ok)
    /\ todo' = todo \ {x}
    /\ UNCHANGED << asleep, due, forced, timed >>

\* The state machine goes to sleep or wakes up.
PowerStateChanges ==
    /\ asleep' = ~asleep
    /\ UNCHANGED << m, todo, due, forced, timed >>

-------------------------------------------------------------------------------
(* Force sleep: three seconds after COMMON_EVENT_ENTER_FORCE_SLEEP a task unlocks what is enabled *)
(* of type USER_IDLE.  It lists the locks under mutex_ and unlocks them one by one.               *)

HandleEnterForceSleep == forceTimer' = TRUE

\* A task that has started is not cancelled.
HandleExitForceSleep == forceTimer' = FALSE

OnReceiveEvent ==
    /\ ForceSleep
    /\ HandleEnterForceSleep \/ HandleExitForceSleep
    /\ UNCHANGED << m, todo, asleep, due, toUnlock, timed >>

\* GetEnabledRunningLocksByType.
Enabled(mm, type) == { t \in Tokens : mm.lock[t] = "ENABLE" /\ TypeOf[t] = type }

ForceSleepReleaseLock ==
    /\ forceTimer /\ toUnlock = {}
    /\ forceTimer' = FALSE
    /\ toUnlock' = Enabled(m, "USER_IDLE")
    /\ UNCHANGED << m, todo, asleep, due, timed >>

\* A lock that was released since it was listed is looked for by its name.
ForceUnLockByTypes(t, ok) ==
    /\ t \in toUnlock /\ toUnlock' = toUnlock \ {t}
    /\ UnLockByToken(t, ok)
    /\ UNCHANGED << asleep, due, forceTimer, timed >>

-------------------------------------------------------------------------------
Init ==
    /\ m = [ lock    |-> [ t \in Tokens |-> "none" ],
             counter |-> [ type \in Types |-> 0 ],
             active  |-> [ type \in Marks |-> FALSE ],
             screens |-> {},
             wks     |-> [ t \in Tokens |-> [ p \in Procs |-> "absent" ] ],
             cnt     |-> [ t \in Tokens |-> 0 ],
             timer   |-> {} ]
    /\ todo = {}
    /\ asleep = FALSE
    /\ due = {}
    /\ forceTimer = FALSE /\ toUnlock = {}
    /\ timed = {}

Next ==
    \/ \E t \in Tokens :
          \/ CreateRunningLock(t) \/ TimerFires(t)
          \/ \E ok \in HoldAnswers : \E timeout \in BOOLEAN : ServiceLock(t, timeout, ok)
          \/ \E ok \in UnholdAnswers :
                \/ ServiceUnLock(t, ok) \/ ReleaseRunningLock(t, ok) \/ ForceUnLock(t, ok)
                \/ TimerTask(t, ok) \/ ForceUnLockByTypes(t, ok)
          \/ \E ok \in HoldAnswers \cap UnholdAnswers, S \in SUBSET Procs : ServiceUpdateWorkSource(t, S, ok)
    \/ \E p \in Procs : ProxyRunningLock(TRUE, p) \/ ProxyRunningLock(FALSE, p)
    \/ ResetRunningLocks
    \/ \E x \in todo : \E ok \in LoopAnswers(x) : Iterate(x, ok)
    \/ PowerStateChanges \/ OnReceiveEvent \/ ForceSleepReleaseLock

Spec == Init /\ [][Next]_vars

-------------------------------------------------------------------------------
(* Properties *)

\* A lock whose state is ENABLE is in force: the HDI, the proximity sensor or the state machine was
\* told of its type and not told the contrary since, and for USER_IDLE and COORDINATION the HDI too.
\* Only the first and the last lock of a type reach them, so one count too many or too few, on any
\* path of unlock, time-out, release or death, breaks this for another client's lock.
EnabledIsHeld ==
    \A t \in Tokens : m.lock[t] = "ENABLE" =>
        /\ TypeOf[t] \in Marks => m.active[TypeOf[t]]
        /\ TypeOf[t] \in Nested => m.active["TASK"]

\* Nothing is held in vain: when no lock of a type is enabled any more, its action has been undone,
\* and the device may suspend.
NothingHeldInVain ==
    /\ \A type \in {"SCREEN", "PROXIMITY"} : m.active[type] => Enabled(m, type) # {}
    /\ m.active["TASK"] => \E type \in Nested \cup {"TASK"} : Enabled(m, type) # {}

\* A lock taken with a time-out has a timer, or a callback that waits for lockMutex_, as long as it
\* is enabled: no order of Lock, UnLock, Lock again and an expiring timer loses the time-out.
TimedLockHasTimer ==
    \A t \in timed : m.lock[t] = "ENABLE" => t \in m.timer \cup due

\* The number of proxied work sources that the proxy keeps is the number of flags it has set, although
\* UnLock resets both behind the back of the loops that count them.
ProxyCountMatches == \A t \in Tokens : m.cnt[t] = Cardinality(Proxied(m, t))

================================================================================
