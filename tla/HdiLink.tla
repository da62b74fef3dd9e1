-------------------------------- MODULE HdiLink --------------------------------
(***************************************************************************)
(* The link to the power HDI: SystemSuspendController listens to the HDI   *)
(* service manager for the power service's starts and stops, keeps its     *)
(* interface, and registers the wake-up callback at every start.  The      *)
(* power service and the service manager may die and come back; the        *)
(* notices of a death and of the start after it arrive in that order, but  *)
(* late, and the listener's own registration is retried from a timer.      *)
(***************************************************************************)
EXTENDS Naturals, Sequences

CONSTANTS
    MaxStarts,   \* bound: starts of the power service
    MaxManagers, \* bound: starts of the service manager
    MaxRetries   \* bound: retries, notices and tasks that wait at a time

VARIABLES
    started,      \* the power manager's OnStart has run and OnStop has not
    listening,    \* its listener for the service manager, which OnStop leaves
    manager,      \* external: the running service manager (0: none)
    managers,     \* external: how often it has started
    hdi,          \* external: the running power service (0: none)
    starts,       \* external: how often it has started
    listener,     \* external: the service manager that has our listener
    status,       \* external: the listener's calls still to come, in order
    saNotices,    \* external: OnAddSystemAbility and OnRemoveSystemAbility still to come, in order
    hdiRemove,    \* isHdiRemove_
    retries,      \* tasks that will register the listener again
    tasks,        \* tasks that will register the callback
    interface,    \* powerInterface_: the power service it reaches (0: nullptr)
    callback,     \* external: the power service that has our callback
    unheard       \* history: a power service whose interface we had died while nobody listened

vars == << started, listening, manager, managers, hdi, starts, listener, status, saNotices, hdiRemove, retries,
           tasks, interface, callback, unheard >>
world == << manager, managers, hdi, starts >>

TypeOK ==
    /\ { started, listening, hdiRemove, unheard } \subseteq BOOLEAN
    /\ manager \in 0..MaxManagers /\ managers \in 0..MaxManagers /\ listener \in 0..MaxManagers
    /\ { hdi, starts, interface, callback } \subseteq 0..MaxStarts
    /\ status \in Seq({ "START", "STOP" }) /\ saNotices \in Seq({ "add", "remove" })
    /\ retries \in 0..MaxRetries + 1 /\ tasks \in Nat

Init ==
    /\ started = FALSE /\ listening = FALSE /\ manager = 1 /\ managers = 1 /\ hdi \in { 0, 1 } /\ starts = hdi
    /\ listener = 0 /\ status = << >> /\ saNotices = << >> /\ hdiRemove = FALSE
    /\ retries = 0 /\ tasks = 0 /\ interface = 0 /\ callback = 0 /\ unheard = FALSE

-------------------------------------------------------------------------------
(* SystemSuspendController *)

\* The manager may be gone or refuse; then a delayed task tries again.  A manager that takes the
\* listener tells it of a power service that runs already.
RegisterHdiStatusListener ==
    \/ /\ retries' = retries + 1 /\ UNCHANGED << listener, status >>
    \/ /\ manager # 0 /\ listener' = manager
       /\ status' = IF hdi # 0 THEN Append(status, "START") ELSE status
       /\ UNCHANGED retries

RetryTask ==
    /\ retries > 0 /\ retries <= MaxRetries
    /\ \/ /\ manager # 0 /\ listener' = manager /\ retries' = retries - 1
          /\ status' = IF hdi # 0 THEN Append(status, "START") ELSE status
       \/ UNCHANGED << listener, status, retries >>
    /\ UNCHANGED << started, listening, world, saNotices, hdiRemove, tasks, interface, callback, unheard >>

\* A mutant of StatusCallback: the stop of the power service keeps the old interface.
StatusCallback_KeepsInterface ==
    /\ status # << >> /\ status' = Tail(status)
    /\ tasks' = IF Head(status) = "START" THEN tasks + 1 ELSE tasks
    /\ UNCHANGED << started, listening, world, listener, saNotices, hdiRemove, retries, interface, callback, unheard >>

StatusCallback ==
    /\ status # << >> /\ status' = Tail(status)
    /\ IF Head(status) = "START" THEN tasks' = tasks + 1 /\ UNCHANGED interface
       ELSE interface' = 0 /\ UNCHANGED tasks
    /\ UNCHANGED << started, listening, world, listener, saNotices, hdiRemove, retries, callback, unheard >>

\* What GetPowerInterface returns: the interface it has, or a new one if both services are there.
GetPowerInterface == IF interface = 0 /\ manager # 0 THEN hdi ELSE interface

\* Every use of the HDI gets the interface.
UseInterface ==
    /\ started /\ GetPowerInterface # interface /\ interface' = GetPowerInterface
    /\ UNCHANGED << started, listening, world, listener, status, saNotices, hdiRemove, retries, tasks, callback, unheard >>

\* The call of a dead power service is lost.
RegisterPowerHdiCallback ==
    /\ tasks > 0 /\ tasks' = tasks - 1 /\ interface' = GetPowerInterface
    /\ callback' = IF GetPowerInterface = hdi /\ hdi # 0 THEN hdi ELSE callback
    /\ UNCHANGED << started, listening, world, listener, status, saNotices, hdiRemove, retries, unheard >>

UnRegisterPowerHdiCallback ==
    /\ interface' = GetPowerInterface
    /\ callback' = IF GetPowerInterface = hdi THEN 0 ELSE callback

-------------------------------------------------------------------------------
(* PowerMgrService *)

OnStart ==
    /\ ~started /\ started' = TRUE /\ listening' = TRUE
    /\ retries + tasks + Len(saNotices) + Len(status) < MaxRetries /\ RegisterHdiStatusListener
    /\ saNotices' = IF manager # 0 THEN Append(saNotices, "add") ELSE saNotices
    /\ UNCHANGED << world, hdiRemove, tasks, interface, callback, unheard >>

OnStop ==
    /\ started /\ started' = FALSE /\ UnRegisterPowerHdiCallback
    /\ UNCHANGED << listening, world, listener, status, saNotices, hdiRemove, retries, tasks, unheard >>

ResetHandle == interface' = 0

OnRemoveSystemAbility ==
    /\ saNotices # << >> /\ Head(saNotices) = "remove" /\ saNotices' = Tail(saNotices)
    /\ IF hdiRemove THEN UNCHANGED interface ELSE ResetHandle
    /\ hdiRemove' = TRUE
    /\ UNCHANGED << started, listening, world, listener, status, retries, tasks, callback, unheard >>

OnAddSystemAbilityInner ==
    /\ saNotices # << >> /\ Head(saNotices) = "add" /\ saNotices' = Tail(saNotices)
    /\ IF hdiRemove THEN retries < MaxRetries /\ RegisterHdiStatusListener
       ELSE UNCHANGED << listener, status, retries >>
    /\ hdiRemove' = FALSE
    /\ UNCHANGED << started, listening, world, tasks, interface, callback, unheard >>

-------------------------------------------------------------------------------
(* The services die and come back *)

Notify(s) == IF manager # 0 /\ listener = manager THEN Append(status, s) ELSE status

HdiStarts ==
    /\ hdi = 0 /\ starts < MaxStarts /\ manager # 0 /\ starts' = starts + 1 /\ hdi' = starts'
    /\ status' = Notify("START")
    /\ UNCHANGED << started, listening, manager, managers, listener, saNotices, hdiRemove, retries, tasks, interface, callback, unheard >>

HdiDies ==
    /\ hdi # 0 /\ hdi' = 0 /\ callback' = 0 /\ status' = Notify("STOP")
    /\ unheard' = (unheard \/ (interface = hdi /\ manager # 0 /\ listener # manager))
    /\ UNCHANGED << started, listening, manager, managers, starts, listener, saNotices, hdiRemove, retries, tasks, interface >>

ManagerDies ==
    /\ manager # 0 /\ manager' = 0
    /\ saNotices' = IF listening THEN Append(saNotices, "remove") ELSE saNotices
    /\ UNCHANGED << started, listening, managers, hdi, starts, listener, status, hdiRemove, retries, tasks, interface, callback, unheard >>

ManagerStarts ==
    /\ manager = 0 /\ managers < MaxManagers /\ managers' = managers + 1 /\ manager' = managers'
    /\ saNotices' = IF listening THEN Append(saNotices, "add") ELSE saNotices
    /\ UNCHANGED << started, listening, hdi, starts, listener, status, hdiRemove, retries, tasks, interface, callback, unheard >>

Next ==
    \/ OnStart \/ OnStop \/ OnRemoveSystemAbility \/ OnAddSystemAbilityInner
    \/ RetryTask \/ StatusCallback \/ UseInterface \/ RegisterPowerHdiCallback
    \/ HdiStarts \/ HdiDies \/ ManagerDies \/ ManagerStarts

Spec == Init /\ [][Next]_vars

-------------------------------------------------------------------------------
(* When every notice, retry and task has been carried out, the power service  *)
(* that runs has our callback, and the interface we keep reaches no dead one: *)
(* after any number of restarts of the power service and of the service       *)
(* manager, however late they were noticed, unless one died while the         *)
(* listener's registration was still being retried                            *)
(* (RegisterHdiStatusListener, StatusCallback, ResetHandle,                   *)
(* OnAddSystemAbilityInner).                                                  *)
CallbackFollowsHdi ==
    started /\ manager # 0 /\ saNotices = << >> /\ status = << >> /\ retries = 0 /\ tasks = 0 /\ ~unheard =>
        /\ callback = hdi
        /\ interface \in { 0, hdi }

==============================================================================
