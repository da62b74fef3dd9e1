----------------------------- MODULE ScriptCalls -----------------------------
(***************************************************************************)
(* The script (NAPI) interface to the client library.  A synchronous call  *)
(* runs on the script's thread and throws what the library returns; an     *)
(* asynchronous one is queued, executed on a worker and completed on the   *)
(* script's thread, where its promise is settled or its callback called.   *)
(* Workers share PowerMgrClient::error_.  The shutdown callback of a       *)
(* thread is called through an event of the script's thread.               *)
(***************************************************************************)
EXTENDS Naturals

CONSTANTS
    Calls,     \* the calls that may be in progress
    MaxRefs,   \* a bound on the references to script functions made for the shutdown callback
    MaxEvents  \* a bound on the events that the script's thread has yet to run

VARIABLES
    reachable,     \* GetPowerMgrProxy finds the service
    error,         \* PowerMgrClient::error_ is not ERR_OK
    calls,         \* the calls, each of Call
    ref,           \* the number of callbackRef_ (env_ goes with it), 0 for nullptr
    refs,          \* how many references were made
    deleted,       \* the references that napi_delete_reference has freed
    registered,    \* the service has the shutdown callback
    stub,          \* where the service's call of OnAsyncShutdownOrReboot is
    events,        \* the number of the events it posted that are yet to run
    called         \* history: the references whose function was called once they were freed

asynchronous == << reachable, error, calls >>
shutdownCallback == << ref, refs, deleted, registered, stub, events, called >>
vars == << asynchronous, shutdownCallback >>

\* What a call does with what the library returns.
Synchronous == { "throws", "skips", "denial", "silent" }
Asynchronous == { "create", "createRunningLock", "setPowerMode", "isScreenOn",
                  "isTypeSupported" }
Call == [ pc : { "idle", "queued", "created", "executed", "settled", "lost" },
          kind : Synchronous \cup Asynchronous, form : { "promise", "callback" },
          err : BOOLEAN,      \* what is reported: an error
          done : BOOLEAN ]    \* the service did it; for a lock, there is an object to hand over

TypeOK ==
    /\ reachable \in BOOLEAN /\ error \in BOOLEAN
    /\ calls \in [ Calls -> Call ]
    /\ ref \in 0 .. MaxRefs /\ refs \in 0 .. MaxRefs /\ deleted \subseteq 1 .. refs
    /\ called \subseteq deleted
    /\ registered \in BOOLEAN /\ events \in 0 .. MaxEvents
    /\ stub \in { "returned", "entered", "waiting" }

Idle == [ pc |-> "idle", kind |-> "isScreenOn", form |-> "promise", err |-> FALSE, done |-> FALSE ]

Init ==
    /\ reachable = TRUE
    /\ error = FALSE
    /\ calls = [ c \in Calls |-> Idle ]
    /\ ref = 0 /\ refs = 0 /\ deleted = {} /\ called = {}
    /\ registered = FALSE
    /\ stub = "returned"
    /\ events = 0

-------------------------------------------------------------------------------
(* Calls.  The service, once reached, does what it is asked or refuses. *)

Settle(c, kind, form, err, done) ==
    calls' = [ calls EXCEPT ![c] = [ pc |-> "settled", kind |-> kind, form |-> form,
                                     err |-> err, done |-> done ] ]

\* A call that ends on the script's thread.  Parameters of the wrong type or range are thrown
\* before the library is called (wrong).
SyncCall(c, kind) ==
    \E wrong, done \in BOOLEAN :
        /\ done => reachable /\ ~wrong
        /\ Settle(c, kind, "promise", wrong \/ (kind # "silent" /\ ~done), done)

\* PowerNapi: wakeup, suspend and hibernate throw every error, as do the calls on the power
\* configuration, and setScreenOffTime, isStandby, refreshActivity and
\* setPowerKeyFilteringStrategy.
DeviceCall(c) == SyncCall(c, "throws")
ConfigCall(c) == SyncCall(c, "throws")
ScreenCall(c) == SyncCall(c, "throws")

\* PowerNapi::RebootOrShutdown throws every error but ERR_SKIP_FUNCTION_CALL.
RebootOrShutdown(c) ==
    \/ SyncCall(c, "throws")
    \/ reachable /\ Settle(c, "skips", "promise", FALSE, FALSE)

\* RunningLockNapi: hold and unhold throw a missing permission and pass over other refusals, and
\* over an object without a lock.
LockCall(c) ==
    \/ SyncCall(c, "denial")
    \/ Settle(c, "denial", "promise", FALSE, FALSE)

\* The deprecated Power and RunningLockInterface drop what the library returns.
DeprecatedShutdown(c) == SyncCall(c, "silent")
DeprecatedDeviceCall(c) == SyncCall(c, "silent")
DeprecatedLockCall(c) == SyncCall(c, "silent")

\* AsyncWork queues the work, unless that fails: then unique_ptr frees the call's data, and its
\* promise or callback never hears of it.
AsyncWork(c, kind, form) ==
    \E pc \in { "queued", "lost" } :
        calls' = [ calls EXCEPT ![c] = [ Idle EXCEPT !.pc = pc, !.kind = kind, !.form = form ] ]

\* An asynchronous call: parameters of the wrong type are thrown at once.
AsyncCall(c, kind) ==
    \/ Settle(c, kind, "promise", TRUE, FALSE)
    \/ \E form \in { "promise", "callback" } : AsyncWork(c, kind, form)

SetPowerMode(c) == AsyncCall(c, "setPowerMode")
Create(c) == AsyncCall(c, "create")
CreateRunningLock(c) == AsyncCall(c, "createRunningLock")
IsScreenOn(c) == AsyncCall(c, "isScreenOn")
IsRunningLockTypeSupported(c) == AsyncCall(c, "isTypeSupported")

ScriptCall(c) ==
    /\ calls[c].pc \in { "idle", "settled", "lost" }
    /\ \/ DeviceCall(c) \/ ConfigCall(c) \/ ScreenCall(c) \/ RebootOrShutdown(c) \/ LockCall(c)
       \/ DeprecatedShutdown(c) \/ DeprecatedDeviceCall(c) \/ DeprecatedLockCall(c)
       \/ SetPowerMode(c) \/ Create(c) \/ CreateRunningLock(c)
       \/ IsScreenOn(c) \/ IsRunningLockTypeSupported(c)
    /\ UNCHANGED << reachable, error, shutdownCallback >>

\* A worker is through with the library.
Called(c, pc, done, error1) ==
    calls' = [ calls EXCEPT ![c].pc = pc, ![c].done = done, ![c].err = error1 ]

\* The worker: SetDeviceMode returns its error, ERR_CONNECTION_FAIL without a proxy.
ExecuteSetPowerMode(c) ==
    /\ calls[c].pc = "queued" /\ calls[c].kind = "setPowerMode"
    /\ \E done \in BOOLEAN : (done => reachable) /\ Called(c, "executed", done, ~done)
    /\ UNCHANGED << reachable, error, shutdownCallback >>

\* The worker: IsScreenOn is false without a proxy, and nothing says so.
ExecuteIsScreenOn(c) ==
    /\ calls[c].pc = "queued" /\ calls[c].kind = "isScreenOn"
    /\ Called(c, "executed", reachable, FALSE)
    /\ UNCHANGED << reachable, error, shutdownCallback >>

\* The worker: which types RunningLockInterface supports needs no service.
ExecuteIsTypeSupported(c) ==
    /\ calls[c].pc = "queued" /\ calls[c].kind = "isTypeSupported"
    /\ Called(c, "executed", TRUE, FALSE)
    /\ UNCHANGED << reachable, error, shutdownCallback >>

\* PowerMgrClient::CreateRunningLock: without a proxy it returns nullptr and sets no error; when
\* RunningLock::Init fails it returns nullptr and sets error_.
ClientCreateRunningLock(c, pc) ==
    \E done \in BOOLEAN :
        /\ done => reachable
        /\ calls' = [ calls EXCEPT ![c].pc = pc, ![c].done = done ]
        /\ error' = (error \/ (reachable /\ ~done))

\* The worker of RunningLockInterface: a type it does not support is not even asked for.
ExecuteCreateRunningLock(c) ==
    /\ calls[c].pc = "queued" /\ calls[c].kind = "createRunningLock"
    /\ \/ ClientCreateRunningLock(c, "executed")
       \/ Called(c, "executed", FALSE, FALSE) /\ UNCHANGED error
    /\ UNCHANGED << reachable, shutdownCallback >>

\* The worker of RunningLockNapi, AsyncData::CreateRunningLock: an unsupported type of lock gets
\* an object without a proxy; otherwise the library is asked, and then for its error.
ExecuteCreate(c) ==
    /\ calls[c].pc = "queued" /\ calls[c].kind = "create"
    /\ \/ ClientCreateRunningLock(c, "created")
       \/ Called(c, "executed", TRUE, FALSE) /\ UNCHANGED error
    /\ UNCHANGED << reachable, shutdownCallback >>

\* GetError takes the error away, so that another call which was refused does not find it.
ExecuteGetError(c) ==
    /\ calls[c].pc = "created"
    /\ calls' = [ calls EXCEPT ![c].pc = "executed", ![c].err = ~calls[c].done /\ error ]
    /\ error' = FALSE
    /\ UNCHANGED << reachable, shutdownCallback >>

\* The callback of RunningLockInterface is given undefined for an error, whatever happened; its
\* promise is rejected when there is no object.
Report(call) ==
    IF call.kind # "createRunningLock" THEN call.err ELSE call.form = "promise" /\ ~call.done

\* The script's thread: the call is settled and its data freed.
Complete(c) ==
    /\ calls[c].pc = "executed"
    /\ Settle(c, calls[c].kind, calls[c].form, Report(calls[c]), calls[c].done)
    /\ UNCHANGED << reachable, error, shutdownCallback >>

\* The service goes and comes back.
ServiceRestarts ==
    /\ reachable' = ~reachable
    /\ UNCHANGED << error, calls, shutdownCallback >>

-------------------------------------------------------------------------------
(* The shutdown callback. *)

\* ReleaseCallback and CreateCallback, each under callbackMutex_.
ReleaseCallback == deleted' = deleted \cup ({ ref } \ { 0 })
CreateCallback == refs < MaxRefs /\ refs' = refs + 1 /\ ref' = refs + 1

\* The old reference is gone and the new one made whatever the service answers.
RegisterShutdownCallback ==
    /\ ReleaseCallback /\ CreateCallback
    /\ registered' \in { registered, reachable \/ registered }
    /\ UNCHANGED << asynchronous, stub, events, called >>

UnRegisterShutdownCallback ==
    /\ ReleaseCallback /\ ref' = 0
    /\ registered' \in { registered, registered /\ ~reachable }
    /\ UNCHANGED << asynchronous, refs, stub, events, called >>

\* OnAsyncShutdownOrReboot, on a thread of the IPC: it gives up without an env_, posts the event,
\* and waits for it for SHUTDOWN_CALLBACK_TIMEOUT.
OnAsyncShutdownOrReboot ==
    /\ registered /\ stub = "returned" /\ events < MaxEvents
    /\ stub' = IF ref = 0 THEN "returned" ELSE "entered"
    /\ UNCHANGED << asynchronous, ref, refs, deleted, registered, events, called >>

PostEvent ==
    /\ stub = "entered"
    /\ events' = IF ref = 0 THEN events ELSE events + 1
    /\ stub' = IF ref = 0 THEN "returned" ELSE "waiting"
    /\ UNCHANGED << asynchronous, ref, refs, deleted, registered, called >>

\* The event, on the script's thread: the function is called under callbackMutex_, if there
\* still is one, and the waiter notified (it waits for the last event that was posted).
OnShutdownOrReboot ==
    /\ events > 0
    /\ events' = events - 1
    /\ called' = called \cup ({ ref } \cap deleted)
    /\ stub' = IF stub = "waiting" /\ events = 1 THEN "returned" ELSE stub
    /\ UNCHANGED << asynchronous, ref, refs, deleted, registered >>

WaitTimesOut ==
    /\ stub = "waiting"
    /\ stub' = "returned"
    /\ UNCHANGED << asynchronous, ref, refs, deleted, registered, events, called >>

-------------------------------------------------------------------------------
Next ==
    \/ \E c \in Calls : \/ ScriptCall(c) \/ ExecuteSetPowerMode(c) \/ ExecuteIsScreenOn(c)
                        \/ ExecuteIsTypeSupported(c)
                        \/ ExecuteCreateRunningLock(c) \/ ExecuteCreate(c)
                        \/ ExecuteGetError(c) \/ Complete(c)
    \/ ServiceRestarts
    \/ RegisterShutdownCallback \/ UnRegisterShutdownCallback
    \/ OnAsyncShutdownOrReboot \/ PostEvent \/ OnShutdownOrReboot \/ WaitTimesOut

Spec == Init /\ [][Next]_vars

-------------------------------------------------------------------------------
(* Properties *)

\* The comment of AsyncData::CreateRunningLock on what the script may rely on: "this object is
\* not-null when return ERR_OK".
CreatedIsNotNull ==
    \A c \in Calls : calls[c].pc = "settled" /\ calls[c].kind = "create" /\ ~calls[c].err => calls[c].done

\* A script's function is called for a shutdown only while its reference is held: an event that
\* was posted before the script unregistered or replaced it does not call it.
CalledWhileHeld == called = {}

===============================================================================
