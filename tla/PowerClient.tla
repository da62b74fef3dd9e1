----------------------------- MODULE PowerClient -----------------------------
(***************************************************************************)
(* The client library: PowerMgrClient and its RunningLock objects, and the *)
(* adapter that answers its calls in the service.  The service may die and *)
(* be started again at any time; the client then connects again and        *)
(* creates its running locks anew.                                         *)
(***************************************************************************)
EXTENDS Naturals, FiniteSets, TLC

CONSTANTS
    Locks,
    CONNECT_RETRY_COUNT,
    MaxStarts   \* bound: starts of the service

VARIABLES
    up, start,   \* external: the service runs; how many times it was started
    created,     \* external: the running locks that this service has
    proxy,       \* proxy_: the start that it belongs to, 0 for nullptr
    obituaries,  \* external: deaths that the client has not been told of yet
    recovery,    \* for every start, the OnRemoteDied thread of its death
    locksMutex,  \* runningLocksMutex_: the recovery that holds it
    list,        \* runningLocks_, without those that have expired
    lock,        \* the RunningLock objects
    kind,        \* the kind of the calls that a thread of the application makes
    call,        \* the call it makes, or what the last one reported
    disturbed    \* history: a recovery gave up, or a lock came into the list after it

vars == << up, start, created, proxy, obituaries, recovery, locksMutex, list, lock, kind, call,
           disturbed >>
service == << up, start >>
library == << obituaries, recovery, locksMutex, list, lock, disturbed >>

Starts == 1..MaxStarts

\* The functions of the client, by where their answer comes from: the PowerErrors that the
\* service fills in, the result of the request itself, a value that the service fills in, an
\* asynchronous reply, or no answer.
Form(form, functions) == [ f \in functions |-> form ]
DeviceCalls ==
    Form("powerError", { "RebootDevice", "RebootDeviceForDeprecated", "ForceRebootDevice",
    "ShutDownDevice", "GetShutdownReason", "SetSuspendTag", "SuspendDevice", "WakeupDevice" })
    @@ Form("none", { "WakeupDeviceAsync" })

ScreenCalls ==
    Form("powerError", { "OverrideScreenOffTime", "RestoreScreenOffTime" }) @@ Form("result", {
    "RefreshActivity", "ForceSuspendDeviceIgnoringWakelock", "InterruptForceSuspend" }) @@
    Form("value", { "IsRunningLockTypeSupported", "IsScreenOn", "IsFoldScreenOn",
    "IsCollaborationScreenOn", "IsForceSleeping", "GetState" }) @@ Form("reply", {
    "ForceSuspendDevice" })

LockCalls ==
    Form("result", { "ProxyRunningLock", "ProxyRunningLocks", "ResetRunningLocks" })

CallbackCalls ==
    Form("result", { "RegisterPowerStateCallback", "UnRegisterPowerStateCallback",
    "RegisterSyncSleepCallback", "UnRegisterSyncSleepCallback",
    "RegisterSuspendTakeoverCallback", "UnRegisterSuspendTakeoverCallback",
    "RegisterSyncHibernateCallback", "UnRegisterSyncHibernateCallback",
    "RegisterPowerModeCallback", "UnRegisterPowerModeCallback", "RegisterScreenStateCallback",
    "UnRegisterScreenStateCallback", "RegisterRunningLockCallback",
    "UnRegisterRunningLockCallback", "SetDisplaySuspend" })

ModeCalls ==
    Form("reply", { "Hibernate" }) @@ Form("powerError", { "SetDeviceMode", "SetDeviceSubMode",
    "GetPowerConfig", "SetPowerConfig", "IsStandby" }) @@ Form("value", { "GetDeviceMode",
    "GetDeviceSubMode", "ShellDump" }) @@ Form("result", { "QueryRunningLockLists" })

TimingOutCalls ==
    Form("powerError", { "SetForceTimingOut", "LockScreenAfterTimingOut",
    "LockScreenAfterTimingOutWithAppid", "IsRunningLockEnabled", "RegisterUlsrCallback",
    "UnRegisterUlsrCallback", "RefreshActivityForReason", "SetPowerKeyFilteringStrategy" })

StrategyCalls ==
    Form("powerError", { "RegisterAsyncShutdownCallback", "UnRegisterAsyncShutdownCallback",
    "SetProxFilteringStrategy", "SetLidFilteringStrategy", "SetInterfaceCallFilteringStrategy",
    "RegisterRunningLockChangedCallback", "UnRegisterRunningLockChangedCallback" })

Calls ==
    DeviceCalls @@ ScreenCalls @@ LockCalls @@ CallbackCalls
    @@ ModeCalls @@ TimingOutCalls @@ StrategyCalls

\* What the adapter answers: a PowerErrors or a value of the service; the result ERR_OK,
\* whatever the service returned, or a failure that the service returned; an asynchronous reply.
DeviceAnswers ==
    Form("powerError", { "RebootDevice", "RebootDeviceForDeprecated", "ForceRebootDevice",
    "ShutDownDevice", "GetShutdownReason", "SetSuspendTag", "SuspendDevice", "WakeupDevice",
    "OverrideScreenOffTime", "RestoreScreenOffTime" }) @@ Form("oneway", { "WakeupDeviceAsync"
    }) @@ Form("dropped", { "RefreshActivity" }) @@ Form("value", { "GetState", "IsScreenOn",
    "IsFoldScreenOn", "IsCollaborationScreenOn" })

SuspendAnswers ==
    Form("reply", { "ForceSuspendDevice", "Hibernate" }) @@ Form("checked", {
    "ForceSuspendDeviceIgnoringWakelock", "InterruptForceSuspend" }) @@ Form("value", {
    "IsRunningLockTypeSupported" }) @@ Form("dropped", { "QueryRunningLockLists" })

LockAnswers ==
    Form("dropped", { "RegisterRunningLockCallback", "UnRegisterRunningLockCallback" }) @@
    Form("powerError", { "RegisterRunningLockChangedCallback",
    "UnRegisterRunningLockChangedCallback" }) @@ Form("checked", { "ProxyRunningLock",
    "ProxyRunningLocks", "ResetRunningLocks" })

CallbackAnswers ==
    Form("dropped", { "RegisterPowerStateCallback", "UnRegisterPowerStateCallback",
    "RegisterSyncSleepCallback", "UnRegisterSyncSleepCallback", "RegisterSyncHibernateCallback",
    "UnRegisterSyncHibernateCallback", "RegisterPowerModeCallback",
    "UnRegisterPowerModeCallback", "RegisterScreenStateCallback",
    "UnRegisterScreenStateCallback", "SetDisplaySuspend" }) @@ Form("checked", {
    "RegisterSuspendTakeoverCallback", "UnRegisterSuspendTakeoverCallback" })

ModeAnswers ==
    Form("powerError", { "SetDeviceMode", "SetDeviceSubMode", "IsStandby", "SetForceTimingOut",
    "LockScreenAfterTimingOut", "LockScreenAfterTimingOutWithAppid" }) @@ Form("value", {
    "GetDeviceMode", "GetDeviceSubMode", "ShellDump" })

StrategyAnswers ==
    Form("powerError", { "IsRunningLockEnabled", "RegisterUlsrCallback",
    "UnRegisterUlsrCallback", "RefreshActivityForReason", "SetPowerKeyFilteringStrategy",
    "RegisterAsyncShutdownCallback", "UnRegisterAsyncShutdownCallback",
    "SetProxFilteringStrategy", "SetLidFilteringStrategy", "SetInterfaceCallFilteringStrategy",
    "GetPowerConfig", "SetPowerConfig" }) @@ Form("value", { "IsForceSleeping" })

Answers ==
    DeviceAnswers @@ SuspendAnswers @@ LockAnswers @@ CallbackAnswers
    @@ ModeAnswers @@ StrategyAnswers

Kinds == { << Calls[f], Answers[f] >> : f \in DOMAIN Calls }
PowerError == << "powerError", "powerError" >>

Sent(k, p) == [ pc |-> "sent", kind |-> k, proxy |-> p, ok |-> FALSE ]
Returned(k, ok) == [ pc |-> "returned", kind |-> k, proxy |-> 0, ok |-> ok ]
NoRecovery == [ pc |-> "none", retryCount |-> 0, todo |-> {} ]

TypeOK ==
    /\ { up, disturbed } \subseteq BOOLEAN
    /\ start \in Starts /\ proxy \in 0..MaxStarts
    /\ created \subseteq Locks /\ list \subseteq Locks /\ obituaries \subseteq Starts
    /\ recovery \in [ Starts -> [ pc : { "none", "retry", "connected", "recover", "done" },
                                  retryCount : 0..CONNECT_RETRY_COUNT, todo : SUBSET Locks ] ]
    /\ locksMutex \subseteq Starts
    /\ lock \in [ Locks -> [ pc : { "none", "init", "made", "live" }, proxy : 0..MaxStarts ] ]
    /\ call \in [ pc : { "sent", "returned" }, kind : { kind, PowerError }, proxy : 0..MaxStarts,
                  ok : BOOLEAN ]

Init ==
    /\ up = TRUE /\ start = 1 /\ created = {}
    /\ proxy = 0 /\ obituaries = {} /\ recovery = [ n \in Starts |-> NoRecovery ]
    /\ locksMutex = {} /\ list = {} /\ lock = [ l \in Locks |-> [ pc |-> "none", proxy |-> 0 ] ]
    /\ call = Returned(PowerError, FALSE) /\ kind \in Kinds /\ disturbed = FALSE

-------------------------------------------------------------------------------
(* The service and its deaths *)

ServiceDies ==
    /\ up /\ up' = FALSE /\ created' = {}
    /\ obituaries' = obituaries \cup ({ proxy } \cap { start })
    /\ UNCHANGED << start, proxy, recovery, locksMutex, list, lock, call, disturbed >>

ServiceStarts ==
    /\ ~up /\ start < MaxStarts
    /\ up' = TRUE /\ start' = start + 1
    /\ UNCHANGED << created, proxy, library, call >>

\* A mutant of Proxy: a service that died as it was found, and refuses the death recipient, will do.
Proxy_Unwatched == IF proxy # 0 THEN proxy ELSE start

\* GetPowerMgrProxy, under mutex_: the proxy, or a new one if the service can be found and
\* accepts the death recipient.
Proxy == IF proxy # 0 THEN proxy ELSE IF up THEN start ELSE 0
GetPowerMgrProxy == proxy' = Proxy

\* A request through a proxy arrives if its service still runs.
Reaches(p) == up /\ p = start

\* PowerMgrDeathRecipient::OnRemoteDied and ResetProxy.
OnRemoteDied(n) ==
    /\ n \in obituaries /\ obituaries' = obituaries \ {n}
    /\ proxy' = IF proxy = n THEN 0 ELSE proxy
    /\ recovery' = [ recovery EXCEPT ![n].pc = "retry" ]
    /\ UNCHANGED << service, created, locksMutex, list, lock, call, disturbed >>

\* ... which tries to connect CONNECT_RETRY_COUNT times, and then gives up for good.
RetryConnect(n) ==
    LET count == recovery[n].retryCount + 1 IN
    /\ recovery[n].pc = "retry"
    /\ GetPowerMgrProxy
    /\ recovery' = [ recovery EXCEPT ![n] = [ @ EXCEPT !.retryCount = count,
                         !.pc = IF Proxy # 0 THEN "connected"
                                ELSE IF count = CONNECT_RETRY_COUNT THEN "done" ELSE "retry" ] ]
    /\ disturbed' = (disturbed \/ (Proxy = 0 /\ count = CONNECT_RETRY_COUNT))
    /\ UNCHANGED << service, created, obituaries, locksMutex, list, lock, call >>

\* RecoverRunningLocks holds runningLocksMutex_ throughout.
RecoverRunningLocks(n) ==
    /\ recovery[n].pc = "connected" /\ locksMutex = {} /\ locksMutex' = {n}
    /\ recovery' = [ recovery EXCEPT ![n].pc = "recover", ![n].todo = list ]
    /\ UNCHANGED << service, created, proxy, obituaries, list, lock, call, disturbed >>

\* A mutant of Recover: the lock keeps the proxy of the service that died.
Recover_OldProxy(n, l) ==
    /\ recovery[n].pc = "recover" /\ l \in recovery[n].todo
    /\ GetPowerMgrProxy
    /\ recovery' = [ recovery EXCEPT ![n].todo = @ \ {l} ]
    /\ created' = created \cup (IF Reaches(lock[l].proxy) THEN {l} ELSE {})
    /\ UNCHANGED << service, obituaries, locksMutex, list, lock, call, disturbed >>

\* One lock of the list: an expired one is skipped, RunningLock::Recover gives another the
\* new proxy and creates it at the service, whatever comes of that.
Recover(n, l) ==
    /\ recovery[n].pc = "recover" /\ l \in recovery[n].todo
    /\ IF l \notin list THEN
           /\ recovery' = [ recovery EXCEPT ![n].todo = @ \ {l} ]
           /\ UNCHANGED << created, proxy, lock, locksMutex >>
       ELSE IF Proxy = 0 THEN
           /\ recovery' = [ recovery EXCEPT ![n] = [ @ EXCEPT !.pc = "done", !.todo = {} ] ]
           /\ locksMutex' = {}
           /\ UNCHANGED << created, proxy, lock >>
       ELSE
           /\ GetPowerMgrProxy
           /\ recovery' = [ recovery EXCEPT ![n].todo = @ \ {l} ]
           /\ lock' = [ lock EXCEPT ![l].proxy = Proxy ]
           /\ created' = created \cup (IF Reaches(Proxy) THEN {l} ELSE {})
           /\ UNCHANGED locksMutex
    /\ UNCHANGED << service, obituaries, list, call, disturbed >>

RecoverEnds(n) ==
    /\ recovery[n].pc = "recover" /\ recovery[n].todo = {}
    /\ recovery' = [ recovery EXCEPT ![n].pc = "done" ] /\ locksMutex' = {}
    /\ UNCHANGED << service, created, proxy, obituaries, list, lock, call, disturbed >>

-------------------------------------------------------------------------------
(* Running locks *)

\* CreateRunningLock gets the proxy,
CreateRunningLock(l) ==
    /\ lock[l].pc = "none" /\ GetPowerMgrProxy
    /\ lock' = [ lock EXCEPT ![l] = IF Proxy = 0 THEN @ ELSE [ pc |-> "init", proxy |-> Proxy ] ]
    /\ UNCHANGED << service, created, obituaries, recovery, locksMutex, list, call, disturbed >>

\* creates the lock at the service, which may refuse it,
InitLock(l) ==
    /\ lock[l].pc = "init"
    /\ \/ /\ Reaches(lock[l].proxy) /\ created' = created \cup {l}
          /\ lock' = [ lock EXCEPT ![l].pc = "made" ]
       \/ /\ lock' = [ lock EXCEPT ![l] = [ pc |-> "none", proxy |-> 0 ] ]
          /\ UNCHANGED created
    /\ UNCHANGED << service, proxy, obituaries, recovery, locksMutex, list, call, disturbed >>

\* and enters it into the list.
PushLock(l) ==
    /\ lock[l].pc = "made" /\ locksMutex = {}
    /\ lock' = [ lock EXCEPT ![l].pc = "live" ]
    /\ list' = list \cup {l}
    /\ disturbed' = (disturbed \/ (recovery[lock[l].proxy].pc = "done"))
    /\ UNCHANGED << service, created, proxy, obituaries, recovery, locksMutex, call >>

\* RunningLock::~RunningLock: proxy_ is a weak pointer, which is gone when the client has
\* dropped the proxy.
Release(l) ==
    /\ lock[l].pc = "live"
    /\ created' = IF lock[l].proxy = proxy /\ Reaches(proxy) THEN created \ {l} ELSE created
    /\ lock' = [ lock EXCEPT ![l] = [ pc |-> "none", proxy |-> 0 ] ]
    /\ list' = list \ {l}
    /\ UNCHANGED << service, proxy, obituaries, recovery, locksMutex, call, disturbed >>

-------------------------------------------------------------------------------
(* Calls *)

\* RunningLock::Lock, UnLock, IsUsed and UpdateWorkSource use the lock's own proxy.
UseLock(l) ==
    /\ lock[l].pc = "live" /\ call.pc = "returned"
    /\ \E done \in BOOLEAN :
          /\ done => lock[l].proxy = proxy /\ Reaches(proxy) /\ l \in created
          /\ call' = Returned(PowerError, done)
    /\ UNCHANGED << service, created, proxy, library >>

\* The forwarding functions of PowerMgrClient, by the kind of their answer.
CallService ==
    /\ call.pc = "returned" /\ GetPowerMgrProxy
    /\ call' = IF Proxy = 0 THEN Returned(kind, FALSE) ELSE Sent(kind, Proxy)
    /\ UNCHANGED << service, created, library >>

\* Whether a call of the kind reports success when the service has carried it out or refused it.
Success(k, done) == IF k[2] = "dropped" THEN TRUE ELSE done /\ k[2] # "oneway"

ServiceAnswers(done) ==
    /\ call.pc = "sent" /\ Reaches(call.proxy)
    /\ call' = Returned(call.kind, Success(call.kind, done))
    /\ UNCHANGED << service, created, proxy, library >>

\* The service has died: the answer is the one the client began with.
CallFails ==
    /\ call.pc = "sent" /\ ~Reaches(call.proxy)
    /\ call' = Returned(call.kind, FALSE)
    /\ UNCHANGED << service, created, proxy, library >>

\* PowerMgrStubAsync::WaitForAsyncReply gives up after 100 ms, with asyncReply_ = ERR_OK.
WaitForAsyncReply ==
    /\ call.pc = "sent" /\ call.kind[1] = "reply"
    /\ call' = Returned(call.kind, TRUE)
    /\ UNCHANGED << service, created, proxy, library >>

Step ==
    \/ ServiceDies \/ ServiceStarts
    \/ \E n \in Starts : \/ OnRemoteDied(n) \/ RetryConnect(n) \/ RecoverRunningLocks(n)
                         \/ RecoverEnds(n) \/ \E l \in Locks : Recover(n, l)
    \/ \E l \in Locks : CreateRunningLock(l) \/ InitLock(l) \/ PushLock(l) \/ Release(l) \/ UseLock(l)
    \/ CallService
    \/ \E done \in BOOLEAN : ServiceAnswers(done)
    \/ CallFails \/ WaitForAsyncReply

Next == Step /\ UNCHANGED kind

Spec == Init /\ [][Next]_vars

-------------------------------------------------------------------------------
(* Once the client has dealt with every death of the service, the locks that  *)
(* the service has are those the client has, each with a proxy that works:    *)
(* none is left behind at a dead service or leaked at a new one, however      *)
(* deaths, recoveries and the creation and release of locks overlap           *)
(* (OnRemoteDied, RecoverRunningLocks, RunningLock::Recover and Release).     *)
LocksAreRecovered ==
    LET settled == /\ up /\ obituaries = {} /\ ~disturbed
                   /\ \A n \in Starts : recovery[n].pc \in { "none", "done" }
                   /\ \A l \in Locks : lock[l].pc \in { "none", "live" }
    IN settled => /\ created = list
                  /\ \A l \in list : lock[l].proxy = proxy /\ proxy = start

(* Once the client has been told of every death of the service, the next call *)
(* it makes goes to the service that runs: it never keeps the proxy of a dead *)
(* service whose death nobody will report, nor does the late obituary of an   *)
(* earlier service take the proxy of the present one away (GetPowerMgrProxy,  *)
(* ResetProxy).                                                               *)
ClientReconnects == up /\ obituaries = {} => Proxy = start

==============================================================================
