---------------------------- MODULE ShutdownDialog ----------------------------
(***************************************************************************)
(* The long press of the power key: its subscription with retries, the     *)
(* connection to the system UI and the ffrt task that asks it for the      *)
(* power dialog, against the system UI's disconnection, and the flag by    *)
(* which a key-up after a long press is not taken for a screen-off.        *)
(***************************************************************************)
EXTENDS Naturals

CONSTANTS
    INIT_LONG_PRESS_RETRY,  \* shutdown_dialog.cpp: 3
    MaxTasks                \* a bound on the connections and tasks that are under way

VARIABLES
    subscribed,     \* longPressId_ is a subscription
    retryCount,     \* g_retryCount
    retryTask,      \* a retry is waiting for its RETRY_TIME
    forbid,         \* isShutdownDialogForbid_
    remote,         \* g_remoteObject is set
    connecting,     \* connections that have been asked for
    tasks,          \* show tasks: how many are to send, and how many have sent and are to set the flags
    isDialogShow,   \* g_isDialogShow
    longPressShow,  \* g_longPressShow
    overtaken       \* history: a disconnection came between a task's request and its flags

vars == << subscribed, retryCount, retryTask, forbid, remote, connecting, tasks, isDialogShow,
           longPressShow, overtaken >>

subscription == << subscribed, retryCount, retryTask >>
flags == << isDialogShow, longPressShow >>

TypeOK ==
    /\ { subscribed, retryTask, forbid, remote, isDialogShow, longPressShow, overtaken }
       \subseteq BOOLEAN
    /\ retryCount \in 1 .. INIT_LONG_PRESS_RETRY + 1
    /\ connecting \in 0 .. MaxTasks
    /\ tasks \in [ send : 0 .. MaxTasks, set : 0 .. MaxTasks ]

Init ==
    /\ subscribed = FALSE
    /\ retryCount = 1
    /\ retryTask = TRUE
    /\ forbid = FALSE
    /\ remote = FALSE
    /\ connecting = 0
    /\ tasks = [ send |-> 0, set |-> 0 ]
    /\ isDialogShow = FALSE
    /\ longPressShow = FALSE
    /\ overtaken = FALSE

UnderWay == connecting + tasks.send + tasks.set

-------------------------------------------------------------------------------
\* At start-up and RETRY_TIME after a failure, INIT_LONG_PRESS_RETRY times.
KeyMonitorInit ==
    /\ retryTask
    /\ \/ /\ subscribed' = TRUE
          /\ retryTask' = FALSE
          /\ UNCHANGED retryCount
       \/ /\ UNCHANGED subscribed
          /\ retryTask' = (retryCount <= INIT_LONG_PRESS_RETRY)
          /\ retryCount' = IF retryTask' THEN retryCount + 1 ELSE retryCount
    /\ UNCHANGED << forbid, remote, connecting, tasks, flags, overtaken >>

\* Behind SetPowerKeyFilteringStrategy.
SetShutdownDialogForbid ==
    /\ forbid' \in BOOLEAN
    /\ UNCHANGED << subscription, remote, connecting, tasks, flags, overtaken >>

\* A forbidden dialog is skipped once.  A dialog that is shown is asked for again through the
\* remote object it has, if there is one; otherwise the system UI is connected.
StartDialog ==
    /\ subscribed /\ UnderWay < MaxTasks
    /\ \/ /\ forbid
          /\ forbid' = FALSE
          /\ UNCHANGED << connecting, tasks >>
       \/ /\ ~forbid /\ isDialogShow
          /\ tasks' = IF remote THEN [ tasks EXCEPT !.send = @ + 1 ] ELSE tasks
          /\ UNCHANGED << forbid, connecting >>
       \/ /\ ~forbid /\ ~isDialogShow
          /\ connecting' = connecting + 1
          /\ UNCHANGED << forbid, tasks >>
    /\ UNCHANGED << subscription, remote, flags, overtaken >>

\* With the system UI's remote object, or without one when the connection failed.
OnAbilityConnectDone ==
    /\ connecting > 0
    /\ connecting' = connecting - 1
    /\ \/ /\ remote' = TRUE
          /\ tasks' = [ tasks EXCEPT !.send = @ + 1 ]
       \/ UNCHANGED << remote, tasks >>
    /\ UNCHANGED << subscription, forbid, flags, overtaken >>

\* SendRequest is answered, or fails.
ShowTaskSends ==
    /\ tasks.send > 0
    /\ \/ tasks' = [ tasks EXCEPT !.send = @ - 1, !.set = @ + 1 ]
       \/ tasks' = [ tasks EXCEPT !.send = @ - 1 ]
    /\ UNCHANGED << subscription, forbid, remote, connecting, flags, overtaken >>

ShowTaskSetsFlags ==
    /\ tasks.set > 0
    /\ tasks' = [ tasks EXCEPT !.set = @ - 1 ]
    /\ isDialogShow' = TRUE
    /\ longPressShow' = TRUE
    /\ UNCHANGED << subscription, forbid, remote, connecting, overtaken >>

\* A mutant of OnAbilityDisconnectDone: the dialog still counts as shown.
OnAbilityDisconnectDone_Shown ==
    /\ remote
    /\ longPressShow' = FALSE
    /\ remote' = FALSE
    /\ overtaken' = (overtaken \/ tasks.send + tasks.set > 0)
    /\ UNCHANGED << subscription, forbid, connecting, tasks, isDialogShow >>

OnAbilityDisconnectDone ==
    /\ remote
    /\ isDialogShow' = FALSE
    /\ longPressShow' = FALSE
    /\ remote' = FALSE
    /\ overtaken' = (overtaken \/ tasks.send + tasks.set > 0)
    /\ UNCHANGED << subscription, forbid, connecting, tasks >>

\* CheckDialogAndShuttingDown and CheckDialogFlag, called for a key: the press was a long one.
ResetLongPressFlag ==
    /\ longPressShow
    /\ longPressShow' = FALSE
    /\ UNCHANGED << subscription, forbid, remote, connecting, tasks, isDialogShow, overtaken >>

Next ==
    \/ KeyMonitorInit \/ SetShutdownDialogForbid \/ StartDialog \/ OnAbilityConnectDone
    \/ ShowTaskSends \/ ShowTaskSetsFlags \/ OnAbilityDisconnectDone \/ ResetLongPressFlag

Spec == Init /\ [][Next]_vars

-------------------------------------------------------------------------------
\* A long press can always bring the dialog up: while it counts as shown there is a remote object
\* to ask, unless a disconnection has overtaken a show task, which then sets g_isDialogShow for
\* good: every later long press finds "power dialog has been show" and no remote object.
DialogCanBeShown == isDialogShow /\ ~overtaken => remote

==============================================================================
