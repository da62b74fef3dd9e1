---------------------------- MODULE ForceSuspend ----------------------------
(***************************************************************************)
(* ForceSuspendDeviceIgnoringWakelock and InterruptForceSuspend: the call  *)
(* puts the state machine to SLEEP, has an ffrt task tell the registered   *)
(* sync sleep callbacks, waits for that task on forceSuspendWaitCv_ and    *)
(* then asks the HDI to suspend; an interrupt wakes the waiter and rolls   *)
(* the state back.  Compiled with FORCE_SUSPEND_IGNORING_WAKELOCK.         *)
(***************************************************************************)
EXTENDS Naturals, FiniteSets

CONSTANTS
    Callers,      \* threads in ForceSuspendDeviceIgnoringWakelock
    Interrupters, \* threads in InterruptForceSuspend
    MaxCalls      \* a bound on the number of calls, each its own callbacks task

VARIABLES
    state,            \* the power state
    suspended,        \* the HDI has suspended the device
    suspendMutex,     \* the owner of PowerMgrService::suspendMutex_, as a set
    pending,          \* forceSuspendCallbackPending_
    finished,         \* forceSuspendCallbackFinished_
    skipHdi,          \* forceSuspendSkipHdi_
    forceSleeping,    \* onForceSleep
    pc,               \* where each caller and interrupter is
    call,             \* history: the number of the call in progress or of the last one
    interrupted,      \* history: the calls whose interrupter was told ERR_OK
    tasks             \* the callbacks tasks and wake-up tasks that are to run, as records

vars == << state, suspended, suspendMutex, pending, finished, skipHdi, forceSleeping, pc, call,
           interrupted, tasks >>

waitFlags == << pending, finished, skipHdi >>

CallerLabels == { "idle", "inactive", "sleep", "start", "wait", "hdi", "undo" }
InterrupterLabels == { "idle", "rollback" }
Task == [ kind : {"sleep"}, of : 1 .. MaxCalls, at : { "callbacks", "finish" } ]
        \cup [ kind : {"wakeup"}, of : 1 .. MaxCalls, at : { "callbacks" } ]

TypeOK ==
    /\ state \in { "AWAKE", "INACTIVE", "SLEEP" }
    /\ suspendMutex \in SUBSET Callers /\ Cardinality(suspendMutex) <= 1
    /\ { suspended, pending, finished, skipHdi, forceSleeping } \subseteq BOOLEAN
    /\ pc \in [ Callers \cup Interrupters -> CallerLabels \cup InterrupterLabels ]
    /\ call \in 0 .. MaxCalls
    /\ interrupted \subseteq 1 .. MaxCalls
    /\ tasks \subseteq Task

Init ==
    /\ state = "AWAKE"
    /\ suspended = FALSE
    /\ suspendMutex = {}
    /\ pending = FALSE
    /\ finished = FALSE
    /\ skipHdi = FALSE
    /\ forceSleeping = FALSE
    /\ pc = [ t \in Callers \cup Interrupters |-> "idle" ]
    /\ call = 0
    /\ interrupted = {}
    /\ tasks = {}

GoTo(t, label) == pc' = [ pc EXCEPT ![t] = label ]

Return(c) ==
    /\ suspendMutex' = {}
    /\ GoTo(c, "idle")

-------------------------------------------------------------------------------
(* The call *)

\* A shutdown in progress refuses the call before anything has changed.
ForceSuspendDeviceIgnoringWakelock(c) ==
    /\ pc[c] = "idle" /\ suspendMutex = {} /\ call < MaxCalls
    /\ suspendMutex' = {c}
    /\ call' = call + 1
    /\ GoTo(c, "inactive")
    /\ UNCHANGED << state, suspended, waitFlags, forceSleeping, interrupted, tasks >>

\* SetState(INACTIVE, force); it fails when the display does.
EnterInactive(c) ==
    /\ pc[c] = "inactive"
    /\ \/ /\ state' = "INACTIVE"
          /\ GoTo(c, "sleep")
          /\ UNCHANGED suspendMutex
       \/ Return(c) /\ UNCHANGED state
    /\ UNCHANGED << suspended, waitFlags, forceSleeping, call, interrupted, tasks >>

\* SetState(SLEEP, force), or the rollback of the first step.
EnterSleep(c) ==
    /\ pc[c] = "sleep"
    /\ \/ /\ state' = "SLEEP"
          /\ forceSleeping' = TRUE
          /\ GoTo(c, "start")
          /\ UNCHANGED suspendMutex
       \/ /\ state' = "AWAKE"
          /\ Return(c)
          /\ UNCHANGED forceSleeping
    /\ UNCHANGED << suspended, waitFlags, call, interrupted, tasks >>

StartForceSuspendCallbacks(c) ==
    /\ pc[c] = "start"
    /\ skipHdi' = FALSE
    /\ pending' = TRUE
    /\ finished' = FALSE
    /\ tasks' = tasks \cup {[ kind |-> "sleep", of |-> call, at |-> "callbacks" ]}
    /\ GoTo(c, "wait")
    /\ UNCHANGED << state, suspended, suspendMutex, forceSleeping, call, interrupted >>

\* A mutant of WaitForceSuspendCallbacks: a finished task hides the interruption.
WaitForceSuspendCallbacks_FinishedFirst(c) ==
    /\ pc[c] = "wait" /\ (skipHdi \/ finished)
    /\ pending' = FALSE
    /\ skipHdi' = FALSE
    /\ \/ finished /\ GoTo(c, "hdi") /\ UNCHANGED suspendMutex
       \/ ~finished /\ Return(c)
    /\ UNCHANGED << state, suspended, finished, forceSleeping, call, interrupted, tasks >>

WaitForceSuspendCallbacks(c) ==
    /\ pc[c] = "wait" /\ (skipHdi \/ finished)
    /\ pending' = FALSE
    /\ skipHdi' = FALSE
    /\ \/ skipHdi /\ Return(c)
       \/ ~skipHdi /\ GoTo(c, "hdi") /\ UNCHANGED suspendMutex
    /\ UNCHANGED << state, suspended, finished, forceSleeping, call, interrupted, tasks >>

\* ForceSuspendEx suspends the device, or fails.
DoHdiForceSuspendEx(c) ==
    /\ pc[c] = "hdi"
    /\ \/ suspended' = TRUE /\ Return(c)
       \/ GoTo(c, "undo") /\ UNCHANGED << suspended, suspendMutex >>
    /\ UNCHANGED << state, waitFlags, forceSleeping, call, interrupted, tasks >>

\* RollbackForceSuspendState and ScheduleWakeupAfterInterrupt.
RollbackForceSuspendAfterCallbacks(c) ==
    /\ pc[c] = "undo"
    /\ state' = "AWAKE"
    /\ tasks' = tasks \cup {[ kind |-> "wakeup", of |-> call, at |-> "callbacks" ]}
    /\ Return(c)
    /\ UNCHANGED << suspended, waitFlags, forceSleeping, call, interrupted >>

-------------------------------------------------------------------------------
(* InterruptForceSuspendCallback *)

InterruptForceSuspendCallback(i) ==
    /\ pc[i] = "idle" /\ pending
    /\ skipHdi' = TRUE
    /\ interrupted' = interrupted \cup {call}
    /\ GoTo(i, "rollback")
    /\ UNCHANGED << state, suspended, suspendMutex, pending, finished, forceSleeping, call, tasks >>

InterruptRollback(i) ==
    /\ pc[i] = "rollback"
    /\ state' = "AWAKE"
    /\ tasks' = tasks \cup {[ kind |-> "wakeup", of |-> call, at |-> "callbacks" ]}
    /\ GoTo(i, "idle")
    /\ UNCHANGED << suspended, suspendMutex, waitFlags, forceSleeping, call, interrupted >>

-------------------------------------------------------------------------------
(* The ffrt tasks *)

\* TriggerForceSuspendCallbacks: every sync sleep callback hears OnSyncSleep (sleepCbMutex_), or
\* FORCE_SUSPEND_MEM_CALLBACK_TIMEOUT_MS have passed; then forceSuspendCallbackFinished_.
TriggerForceSuspendCallbacks ==
    \E t \in tasks :
        /\ t.kind = "sleep" /\ t.at = "callbacks"
        /\ tasks' = (tasks \ {t}) \cup {[ t EXCEPT !.at = "finish" ]}
        /\ UNCHANGED << state, suspended, suspendMutex, waitFlags, forceSleeping, pc, call,
                        interrupted >>

ForceSuspendCallbackFinished ==
    \E t \in tasks :
        /\ t.at = "finish"
        /\ tasks' = tasks \ {t}
        /\ finished' = TRUE
        /\ UNCHANGED << state, suspended, suspendMutex, pending, skipHdi, forceSleeping, pc, call,
                        interrupted >>

\* TriggerForceSuspendMemCallbacks(true): the callbacks hear OnSyncWakeup.
WakeupAfterInterrupt ==
    \E t \in tasks :
        /\ t.kind = "wakeup"
        /\ tasks' = tasks \ {t}
        /\ forceSleeping' = FALSE
        /\ UNCHANGED << state, suspended, suspendMutex, waitFlags, pc, call, interrupted >>

\* A wake-up source ends the suspend; WakeupDeviceInner sets AWAKE and tells the callbacks.
Wakeup ==
    /\ suspended
    /\ suspended' = FALSE
    /\ state' = "AWAKE"
    /\ forceSleeping' = FALSE
    /\ UNCHANGED << suspendMutex, waitFlags, pc, call, interrupted, tasks >>

-------------------------------------------------------------------------------
Call(c) == \/ EnterInactive(c) \/ EnterSleep(c) \/ StartForceSuspendCallbacks(c)
           \/ WaitForceSuspendCallbacks(c) \/ DoHdiForceSuspendEx(c)
           \/ RollbackForceSuspendAfterCallbacks(c)
Tasks == TriggerForceSuspendCallbacks \/ ForceSuspendCallbackFinished \/ WakeupAfterInterrupt

Next ==
    \/ \E c \in Callers : ForceSuspendDeviceIgnoringWakelock(c) \/ Call(c)
    \/ \E i \in Interrupters : InterruptForceSuspendCallback(i) \/ InterruptRollback(i)
    \/ Tasks
    \/ Wakeup

Fairness == /\ \A c \in Callers : WF_vars(Call(c))
            /\ WF_vars(Tasks)

Spec == Init /\ [][Next]_vars
FairSpec == Spec /\ Fairness

-------------------------------------------------------------------------------
(* Properties *)

\* A call whose interrupter was told ERR_OK does not suspend the device: it never gets past
\* WaitForceSuspendCallbacks to ForceSuspendEx, whatever its callbacks task does meanwhile.
InterruptedIsNotSuspended ==
    call \in interrupted => \A c \in Callers : pc[c] \notin { "hdi", "undo" }

==============================================================================
