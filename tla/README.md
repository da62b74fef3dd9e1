# Power manager: TLA+ models, model checking and proofs

This directory holds a formal model of the OpenHarmony power manager service (the
repository around it): the modules, the TLC configurations, the TLAPS proofs.
`PROJECT.json` lists the components, the runs, the mutants, the lines that each definition
models, the hazards the properties are aimed at, the findings and the theorems.

## 1. The system

The service decides whether the device is awake, dim, screen-off or asleep, and who may
keep it from sleeping. Its parts, the state they keep, and how they meet:

| Part | State | Operations | Meets |
|---|---|---|---|
| `PowerStateMachine` | `currentState_`, `settingStateFlag_`, `stateMutex_`, two inactivity timers, `forceTimingOut_`, `displayOffTime_`, lock-screen switches, pre-bright state | `SetState`, refresh, wake-up, suspend, `ResetInactiveTimer`, `SetDisplayOffTime`, `SetForceTimingOut` | called by the service, by both controllers and by its own timers; calls the display, the HDI, the listeners |
| `RunningLockMgr`, `RunningLockProxy`, `RunningLockTimerHandler`, `RunningLockCallbackManager` | locks by token, one counter per type, proxied work sources, time-out timers, listeners by display | create, lock, unlock, release, proxy, unproxy, update work source, forced release | the first and last lock of a type reach the HDI, the sensor or the state machine |
| `SuspendController`, its sources and monitors | `sleepTime_`, `sleepType_`, the sleep timer, `onForceSleep`, a monitor per source | monitors, `StartSleepTimer`, `StopSleep`, `HandleAction`, forced suspend and its interruption, suspend tags | drives `SetState(INACTIVE)`, later `SetState(SLEEP)`, then the HDI |
| `WakeupController`, its sources and monitors | a monitor per source, the input subscription | `HandleWakeup`, key, switch and input events | stops the sleep, wakes the HDI, `SetState(AWAKE)` |
| `DeviceStateAction` | flags around a powerkey screen-off, a condition variable | display on/off, cancel a screen-off | the display service |
| `SystemSuspendController` | `allowSleepTask_`, the HDI proxy, listener and callback | `Suspend`, `Wakeup`, `AllowAutoSleep`, `DisallowAutoSleep` | the HDI power service, which dies and comes back |
| `ShutdownController`, `ShutdownDialog` | `started_`, callbacks in three priorities, the dialog's flags | reboot, shutdown, take-over, long press | clients that may never answer; the system UI |
| `HibernateController` | `hibernating_`, the prepare task | hibernate | clients, the state machine, the HDI |
| `PowerModeModule`, `PowerModePolicy` | mode, back-up of the user's settings | set mode, restart | the settings |
| `SettingHelper` and its observers | a row per setting and user, update threads | change, switch of user | off time, wake-up switches, sources |
| `ProximityController`, screen-off-pre, screen saver | sensor marks, notice task, saver timer | sensor events, resets, supply events | the state machine, common events |
| Callback holders, `MultiInvokerHelper`, death recipients | tables by client token | register, call, obituary | clients that die at any moment |
| `PowerMgrService` | `suspendMutex_`, `wakeupMutex_`, `screenMutex_`, `lockMutex_`, `shutdownMutex_`; ready and boot flags | the IPC entries, start, stop, boot | all of the above; the services it waits for |
| Client library, script framework | the proxy, the running locks, `error_`, promises | calls, recovery after a restart | the service, over IPC |

What is hard here:

* *Concurrency.* `SetState` runs under `stateMutex_`, but `ResetInactiveTimer`,
  `StartSleepTimer` and `StopSleep` do not, and the queue's tasks arrive after they may
  have been cancelled: an FFRT task that has started cannot be stopped. Observers run their
  update functions on threads of their own and read, change and write back one object.
* *Ordering.* A refresh races with the time-out that dims the screen; a wake-up with the
  sleep task that has decided to suspend; an automatic sleep with a forced one; a key press
  with the screen-off it interrupts; cover events with one another.
* *Failure.* The display and the HDI may refuse; clients die with locks held or calls on
  their way, the HDI, the display service and the power manager itself crash and come back.
* *Time-outs.* Shutdown, hibernate, ULSR, the key press and the shutdown callback all wait
  with a limit for something that may come after it.
* *Counting.* A lock type is passed on only on 0 to 1 and 1 to 0, two types nest in a
  third one's counter; the multi invoker helper counts keys within clients within parameters.

What makes it correct: the state changes only along the allowed transitions and agrees with
the display; a time-out that was overtaken has no effect; there always is a timer that will
turn the screen off; every call returns; an enabled lock is in force and nothing is held in
vain; an awake device is not suspended by a task that came late; what is derived from
settings, supply, cover and users follows them; a client that dies leaves nothing behind; a
service that comes back gets back what it had; whoever was told that something begins is told
that it is over; a client finds the service again after every restart.

The core models follow the default of `powermgr.gni`. Parts that only some products build
are modelled as those products build them: hibernation (S4), forced suspend ignoring wake
locks, suspend with tag (ULSR), external screens, charging-type settings, multi-screen locks,
the force-sleep broadcasts, the screen saver.

## 2. Modules

### The core: one shared access per step

* `PowerState`: the transition rules as constant operators (`forbidMap_`,
  `allowMapByReason_`, `CanTransitTo`, `MatchState`, `NeedNotify`). Reasons are grouped by
  what the rules tell apart; the conditions on sensors that `CanTransitTo` puts on double
  click, pickup and proximity are left out, as no operation of the core has these reasons.
* `PowerStateMachine`: client threads and the FFRT queue, interleaved at every access to
  shared state. `SetState` is `SetStateLock`, `TransitCheck`, `StateAction`,
  `ActionCancelTimers`, `DimArm`, `DimCheck`, `Commit`, `SetStateExit`; `ResetInactiveTimer`
  is `ResetCas`, `ResetCancel`, `ResetArm`. A timer's handle is `null`, `armed` or
  `running`; cancelling a running task only takes its handle away, which is what
  `CheckFFRTTaskAvailability` looks at. `overtaken` is a history variable.
* `RunningLock`: every entry holds `lockMutex_` from end to end, so it is one action on
  the record `m`; the functions of the manager are operators from `m` to `m`. Only the
  loops of the proxy take one step per token, and nobody else enters before they end
  (`todo`, `LockMutex`). A timer's callback that has started (`due`) waits for the mutex. The HDI's answers are chosen
  freely within the instance's switches. The counter wraps at `CounterMod`.
* `SuspendController`: the way into and out of SLEEP over the state machine, the sleep
  timer and the HDI. Here AWAKE also stands for DIM, and the screen is on exactly when the
  state is AWAKE: that is `StateMatchesDisplay`, proved of `PowerStateMachine`.
  `forceWanted` is a history variable.
* `PowerStateMachineProofs`, `SuspendControllerProofs`, `RunningLockProofs`: the theorems.

### The components around it

Each has its threads, callbacks, timers and clients as actors of its own, and of the core
only what it touches: `SetState` is one step where the component never looks inside.

| Module | Models | Promise (property) |
|---|---|---|
| `PowerKey` | the power key's monitors and their hand-shake in `DeviceStateAction` | `CancelIsAnswered`; `InterruptingPressIsIgnored` (violated) |
| `Shutdown` | reboot and shutdown with take-over, callbacks, the two time-outs of a forced reboot, the detached thread | `ForcedRebootHappens` |
| `ShutdownDialog` | long press, its retries, the system UI's connection | `DialogCanBeShown` |
| `ForceSuspend` | `ForceSuspendDeviceIgnoringWakelock` and `InterruptForceSuspend` | `InterruptedIsNotSuspended` |
| `Ulsr` | suspend tag, `UlsrCallbackHolder`, its timer and wake-up | `HigherPriorityFirst` |
| `Hibernate` | hibernation, its prepare task, roll-back | `HibernateIsAnswered` |
| `PowerMode` | modes, policies, back-up, crash and restart | `UserValueIsRestored` |
| `Settings` | rows, observers, update threads, users; off time and its override | `SwitchesFollowUser`, `OffTimeFollowsSetting` |
| `WakeupMonitors` | the wake-up source object, its switches and monitors | `MonitorsFollowSettings` |
| `SuspendSources` | the suspend source object by user and supply, its monitors | `MonitorsFollowSources` |
| `InputWakeup` | the input subscription around `SetState`, input wake-ups, the wake-up action | `InputIsHeard` |
| `Cover` | lid, switch and external screens | `InternalScreenFollowsCover` |
| `ServiceLife` | start, stop, boot, the services waited for, the switch action | `DisplayKnowsCover` |
| `HdiLink` | the HDI's connection, listener, retries, callback | `CallbackFollowsHdi` |
| `PreBright` | the pre-bright wake-up and its timer | `PreBrightIsTimed` |
| `Proximity` | the proximity lock, the sensor's thread, the delayed screen-off | `ScreenOffOnlyWhileClose` |
| `ScreenOffPre` | the notice before the screen is dimmed, over counted ticks | `NoticePrecedesDim` |
| `ScreenSaver` | the saver's timer by supply and user | `SaverFollowsSettings` |
| `LockListeners` | the listeners of screen locks by display | `ListenersAreCurrent` |
| `Callbacks` | state, mode, sleep and take-over callbacks and their deaths | `ToldWhileRegistered` |
| `ClientTokens` | what is undone when a client dies | `DeadClientsHoldNothing` |
| `MultiInvoker` | the counters behind `LockScreenAfterTimingOut` | `ImplementsClaims` |
| `PowerClient` | the client library and the IPC adapter, restarts of the service | `LocksAreRecovered`, `ClientReconnects` |
| `ScriptCalls` | the script framework's calls and its shutdown callback | `CalledWhileHeld` (part of `ToldWhileRegistered`); `CreatedIsNotNull` (violated) |

`Claims` is an abstract specification: a parameter departs from its default as long as some
key of some client asks for that. `MultiInvoker`, which only counts, implements it
(`C == INSTANCE Claims`, `C!Spec` as a property): the counters of a client's keys and of the
clients never drift from the claims, through calls, repeated calls and deaths in any order.

Some properties hold only as long as a disturbance that the code does not handle has not
happened. Such a module has a history variable (`disturbed`, `late`, `overlap`, `overtaken`,
`missed`, ...) whose comment and whose only assignments name the disturbance; section 5 lists
them. Everything else that can interleave is covered.

### Instances for TLC

`MCPowerStateMachine`, `MCRunningLock` and `MCSuspendController` instantiate the core;
`MCStateMachine` has two instances of the state machine, with different operations, that a
behaviour chooses between. `MCProgress` gathers what must eventually happen, `Components` the components. Both have a
variable `part` that says whose behaviour a behaviour is: one disjunct of the initial
predicate and of the next-state relation per component. In `Components` the parts take turns
in a pool of variables `v1 .. v24`, which the `INSTANCE ... WITH` of a part maps to its own;
a state space is then the sum of the parts' and not their product. `Components` is still
parameterised: every bound and every set of actors is a constant, which `components.cfg` gives
a value (`MCComponents` has those that a configuration file cannot spell) and the theorems
leave open. For the parts whose
properties say nothing of the states after a disturbance, the steps that set its history variable
are left out (the conjuncts `~v15'` and the like): it would never be reset.

Operators named `X_...` with a comment "A mutant of X" are not part of the model: each is a
plausible bug in X, which the property it is paired with in `PROJECT.json` must catch.

### Abstractions worth knowing

* Time is not counted, except in `ScreenOffPre`. A timer that is armed may fire at any
  moment; `recentRefresh` stands for the 100 ms throttle; delays of the sleep timer show as a
  free choice where the code compares tick counts. The power mode, which may set the sleep time
  below zero at any moment, is a free choice in `StartSleepTimer`.
* In `PowerStateMachine` the SCREEN lock counter is one bit and its calls hold `lockMutex_`;
  `RunningLock` models the counter itself.
* A process in `RunningLock` stands for its pid and its uid, as proxies are keyed by both
  and work sources by uid. `TASK` stands for the six BACKGROUND types alike.
* A JSON object of the settings is a function from sources to actions, or text that does not
  parse. A row is a value; that the settings application may be missing is a row that cannot
  be read.
* The calls of `PowerClient` and `ScriptCalls` are grouped by what they do with an answer:
  report it, check it, drop it.
* Permissions, logging, system events and dump are left out: they change no modelled state.

## 3. Runs

| Run | Properties | Instance | Result |
|---|---|---|---|
| `state_machine` | `TypeOK`, `StateMatchesDisplay`, `OvertakenTaskIsDropped`, `TransitionsAreAllowed`; `AwakeAtRestHasTimer` | 2 clients; refresh, wake-up, suspend, display-off time, lock-screen switch, and a display that may fail; or refresh, wake-up, suspend, screen lock, forced time-out, for the timer | holds, 6.2 M states |
| `lock_core` | `EnabledIsHeld`, `NothingHeldInVain`, `TimedLockHasTimer` | 4 locks of 4 types, 2 processes, forced release; HDI may refuse to hold | holds, 487 k states |
| `lock_proxy` | `TypeOK`, `ProxyCountMatches` | 2 TASK locks, 2 processes, proxying | holds, 2.3 M states |
| `sleep_path` | `AwakeIsNotAutoSuspended`, `SleepTimeHasTimer` | 2 clients, all operations, AUTO and FORCE, key and lid; `SetState` may fail | holds, 6.0 M states |
| `progress` | `EveryCallReturns`, `ScreenGoesOff`, `CancelIsAnswered`, `ForcedRebootHappens` | state machine with 2 clients in three choices of operations, power key, shutdown with 3 callers and a client that may never answer; fairness | holds, 72 k states |
| `components` | the promises of the table above, `TypesOK`, `ImplementsClaims` | see below | holds, 2.4 M states |
| `psm_force_timing_out` | `ForcedTimeoutHasTimer` | 2 clients; screen lock, forced time-out | violated |
| `psm_dim_interrupted` | `InterruptedDimIsUndone` | 2 clients; refresh | violated |
| `lock_proxied_unlock` | `EnabledIsHeld` | as `lock_proxy` | violated |
| `force_suspend_lost` | `ForceSuspendIsCarriedOut` | 2 clients; wake-up, suspend, forced suspend | violated |
| `powerkey_press_lost` | `InterruptingPressIsIgnored` | the power key, with waits that do not time out | violated |
| `script_create` | `CreatedIsNotNull` | two calls of a script; the service restarts | violated |

Why the bounds are enough to mean something: two clients and the queue give every race the
code has between a caller inside `SetState`, a caller outside of it and a time-out; the
theorems below remove the bound for the safety properties. Four locks give
each kind of counter action, three of them meeting in the BACKGROUND_TASK counter, and two
with the same name. Two locks and two processes give a token whose work sources are partly
and wholly proxied. `CounterMod` must exceed the number of locks by two, so that a count
that wraps is never mistaken for one that is right.

In the run `components` every part has the actors that race for what its property is about, such as
two callers and an interrupter over three forced suspends; two users and two values of each
setting with the user-switch handler; two cover tasks with an external
screen; two running locks over two starts of the service and a recovery that may give up; one
call of each client that outlives it in `Callbacks`; two starts
of the HDI and of its manager with two retries; two clients with two keys each in
`MultiInvoker`. `Settings` runs once per set in `SettingChanges`, of the changes that race for
one thing: a switch of users with the switches' rows or with the supply's row, the supply with that
row, the clients' calls with updates of the off time, two of which overlap in the build without
charging types. Every service that `ServiceLife` counts (ours, brightness, display)
starts once, so `MaxLives` = 4 is the first value with which one of them crashes, comes back and
settles. The constants `Max...Events`, `Max...Tasks`, `Max...Updates`,
`Max...Subscriptions`, `Max...Calls`, `Max...Starts` bound queues and counts that the code leaves
unbounded; what is proved holds for each value of them. The bounds leave room for the races: every
property has a mutant, a plausible bug at one of the lines it is about, that is caught within
them. Clients are symmetric in the core's safety
runs; the liveness run uses no symmetry.

The instance for `AwakeAtRestHasTimer` leaves out `SetDisplayOffTime`: with it the property fails
(it may switch automatic screen-off on after a `SetState(AWAKE)` has read "off" and before AWAKE
is assigned; section 5).

*Fairness.* The fair specifications assume weak fairness of each thread's next step and of each
armed timer (threads are scheduled, delayed tasks run) and strong fairness of taking a mutex:
the mutexes involved are `ffrt::mutex`, whose waiters are queued. In `PowerKey` the wait is
answered without its time-out; in `Shutdown` the time-outs of the callbacks and of the screen are what makes a forced
reboot go on: the threads they wait for need not end. Nothing is assumed of clients: they need neither call nor answer.

*Deadlock* is checked in the core's runs: clients may always call, so a state without successor
would be a real stop. `progress` and `components` switch it off: a device that has been
switched off does nothing more, and a part whose bounds are used up stops.

### What the violations show

1. `psm_dim_interrupted`: `EmplaceDim` reads the flag once; a refresh that raises it later
   is lost, DIM is committed and the screen-off timer has been cancelled by that refresh.
2. `psm_force_timing_out`: `SetForceTimingOut` returns early while DIM is being set; a
   `SetState(DIM)` that the screen lock has already blocked arms no timer, so none is left.
3. `lock_proxied_unlock`: `UnLock` of a PROXIED lock decreases the counter a second time;
   it wraps, and the next lock is ENABLE without the HDI having been asked.
4. `force_suspend_lost`: `StartSleepTimer` ignores a forced suspend behind a pending
   automatic one; `ForceSuspendDeviceInner` returns true.
5. `powerkey_press_lost`: `EndPowerkeyScreenOff` lowers `screenOffInterrupted_` before the
   key-down callback that waits in `TryToCancelScreenOff` has read it; the press is not
   recorded, and letting the key go turns the screen off.
6. `script_create`: without a proxy, `PowerMgrClient::CreateRunningLock` returns a null lock and
   sets no error; the script's `create` takes ERR_OK from `GetError` and succeeds with no object.

The findings in `PROJECT.json` quote what the code or its documents say.

## 4. Proofs

Eight modules hold theorems; `tlapm M.tla` checks each.

| Module | About |
|---|---|
| `PowerStateMachineProofs` | the state machine |
| `SuspendControllerProofs` | the way into and out of SLEEP |
| `RunningLockProofs` | the running locks' counters, their timers and the proxy |
| `SuspendWakeupProofs` | `ForceSuspend`, `Ulsr`, `Hibernate`, `SuspendSources`, `WakeupMonitors` |
| `ScreenProofs` | `PreBright`, `ShutdownDialog`, `InputWakeup`, `Proximity`, `ScreenOffPre`, `Cover` |
| `ClientProofs` | `ClientTokens`, `Callbacks`, `LockListeners`, `ScriptCalls`, `PowerClient` |
| `ServiceProofs` | `HdiLink`, `ScreenSaver`, `ServiceLife`, `PowerMode`, `Settings` |
| `ComponentsProofs` | `MultiInvoker` implements `Claims`; the components' theorems carried over to `Components` |

Every proof has the shape Init => Inv, Inv /\ [Next]_vars => Inv', Inv => property, with one
step per action. The invariants are conjunctions of named parts. The new ones of each component
were checked by TLC on the run's instance before they were proved.

### The core

The assumptions are the named ASSUMEs of the modules: the queue is not a client, `NoThread` is no
thread, the instance's operations are known ones. Clients may be any set, even infinite.

*PowerStateMachine.* `StateMatchesDisplay` is not inductive: while a thread is in
`SetState` the display and the state differ. `SafetyInv` says what holds at each line:
`MutexInv` (whoever is in `SetState` owns `stateMutex_`), `CallInv` (only the time-out asks
for DIM; the weak reset of `SetForceTimingOut` owns the mutex without calling `SetState`),
`PhaseInv` (state and display agree at `check`, `act` and `exit`; at `commit` the display is
already that of the target and the transition is still allowed), `OvertakenInv` (an overtaken
task no longer is the one its timer's handle names). From it: `TypeCorrect`,
`DisplayAgreement`, `StaleTimeoutsAreDropped`, and, with one more step lemma,
`AllowedTransitions`, an action property. A consequence worth knowing is the lemma
`MatchStateKeeps`: in the modelled part the correction in `MatchState` never has to act.

`AwakeDeviceHasTimer` needs an invariant of its own, `TimerInv`: while the device is AWAKE there
is an armed timer, or an expired task that waits or decides and has not been overtaken, or a
thread inside `ResetInactiveTimer`, or one leaving AWAKE, or a screen lock, or an `UnLock` about
to look at the state (`TimerIsComing`); and AWAKE is committed with a timer, even when a screen
lock seen by the action was given back meanwhile (`CommitHasTimer`). Two hypotheses, each necessary:
clients do not call `SetDisplayOffTime`, which may switch the automatic screen-off on behind a
`SetState(AWAKE)` that has seen it off, and the display does what it is told (see section 5).

*SuspendController.* `SleepInv` has two independent ideas. `AutoSuspendInv`:
`DisallowAutoSleep` comes before `StopSuspend`, both before AWAKE is assigned, and SLEEP
cannot be entered from AWAKE, so a late `StartSuspend` finds `allowSleepTask_` false.
`SleepTimeInv`: whenever `sleepTime_` is set, the timer is armed or some thread is at a
line from which it will arm the timer or clear `sleepTime_`. From it:
`NoAutoSuspendWhileAwake`, `SleepTimeIsNotLeftBehind`.

*RunningLock.* The counters pass on only the first and the last lock of a type, and USER_IDLE and
COORDINATION nest in the counter of BACKGROUND_TASK. So the invariant says what every counter
counts (`Agree`): the ENABLE locks of its type, plus one in BACKGROUND_TASK's for each nested type
in use, and a mark of the HDI, the sensor or the state machine exactly while the counter is not
zero. `IncreaseAgrees` and `DecreaseAgrees` carry it through the counter functions, `LockKeeps`,
`UnLockKeeps` and `ReleaseKeeps` through the manager's. Since a counter never exceeds the number
of locks by more than one, and `CounterMod` exceeds it by two, none wraps: that is a
consequence (`NoCounterWraps`), not a hypothesis. Then follow `EnabledLocksAreHeld` and
`NoLockIsHeldInVain`, for any finite set of locks and processes. Two
hypotheses: no proxying, as with it `EnabledIsHeld` is false (run `lock_proxied_unlock`), and an HDI
that gives back what it held (it may refuse to hold).

With proxying the counters may wrap, so nothing can be said of them; what is true then has an
invariant of its own. The loops of `RunningLockProxy` go from token to token under `lockMutex_`
(`todo` is what they still have to do), and each iteration touches one token: `ProxyAllKeeps`,
`ProxyOneKeeps`, `UnproxyAllKeeps`, `UnproxyOneKeeps`, `ResetKeeps` and `UpdateKeeps` say what one
iteration does to the flags and the count of its token, and that it leaves the others alone; the
`UnLock` inside resets both at once. From `ProxyInv`, without any hypothesis:
`LockTypesAreKept` and `ProxyCountsAreRight`. `NoTimeOutIsLost` needs only the HDI to give back
what it held: its invariant `TimedIsTimed` is about PROXIED locks too, as a loop may make them
ENABLE again.

### The components

A theorem of the component's own module is about its `Spec`, with every constant open; where it needs
something of a constant this is a hypothesis of the theorem. What makes each property inductive:

| Component | The strengthening |
|---|---|
| `ForceSuspend` | the pending flag is up only while a caller waits; an interrupted call is over or still waits with the flag that skips the HDI |
| `Ulsr` | one awaited teller, which holds the stage; at DONE nobody told of the ulsr is left without the wake-up |
| `Hibernate` | whoever was told is registered, and `prepared_` remembers it past the steps that may tell |
| `PreBright` | the property itself, with the threads' labels |
| `ShutdownDialog` | also the tasks that have still to show the dialog need the remote object |
| `InputWakeup` | what the monitor was last told: off whenever the device is, or is about to be, off |
| `Proximity` | a screen that the sensor turned off has a held lock or a wake-up task to come, as `CanTransitTo` refuses it without the lock (`OffIsHeld`: needs no excuse); the marks belong to a held lock; a timer that is set or has fired has a task or an away event that undoes it |
| `ScreenOffPre` | a schedule in progress carries the delay that ends `remainTime` before the dimming |
| `ClientTokens` | every block, filter and forced time-out has a recipient that is watched, an obituary that waits, or a call about to register it |
| `Callbacks` | a client has no more entries than recipients while it lives, than obituaries and tasks afterwards, plus one if a late registration's recipient was refused (`lateCall`); so registering twice leaves nothing behind |
| `LockListeners` | a pending notification says what is so now, and a listener was told right, is in the copy being told or has a notification not copied for yet; a client with listeners is watched, or its registration is about to have it watched |
| `ScriptCalls` | the held reference is not a deleted one |
| `PowerClient` | one obituary waits exactly when the proxy's service is dead, from which `ClientReconnects` follows; a lock's proxy is the current one or one whose death was told; a live lock with an old proxy has a recovery that will come to it |
| `HdiLink` | removals and starts of the service manager alternate in the notices, and the last one says whether it runs; a missing listener or callback has a retry, a notice or a task to come |
| `ScreenSaver` | the last supply event that waits is the supply's state; with no update under way the timer is the one for `plugStatus` |
| `ServiceLife` | the last switch event on its way is the cover's state; a display service that knows nothing, or the wrong thing, has a notice, a report, an event or a task to come; the boot and `OnAddSystemAbility` exclude one another |
| `PowerMode` | the user's value is in the settings or in the back-up, at each stage of a mode change (`AtPolicy`, `AtActions`, `InMode`), and what a restart will read is what there is |
| `Settings` | a thread of the observer, or the boot or switch of user that starts one, is to come whenever a switch or the off time is not the row's; an update thread that no other update and no client's call has overtaken carries the row's time and sees the override as it is (`TimeIsKept`, `TimeUpdatesAreAlone`); the observers are the current user's |
| `SuspendSources` | with no update to come the monitors are those of the object, or the thread under the mutex carries that object's list; the key is subscribed at most once, under the cached id; between cancelling and making anew there is none |
| `WakeupMonitors` | one thread per row changes the object, under the mutex and with the object as it is; with no thread to read a switch, the one that has read it knows its value, or source and switch agree |
| `Cover` | whenever the internal screen is not as the cover says, a task of the cover, a suspend, the end of a key's wake-up or the disconnection's step is to come; the timer's task is that of the last cover event, and a thread that wakes the device saw the cover open or a screen |
| `MultiInvoker` | both levels of counters count exactly what they stand for; the refinement of `Claims` follows step by step |

`ComponentsProofs` instantiates these modules with the variables and constants that `Components`
gives to its parts. `PartBegins` and `PartSteps` say that a behaviour of `GroupSpec` begins in the
initial state of its part and takes only steps of it, and that `part` never changes; a lemma
per component (`ForcedIsProved`, ...) says that the part's actions are those the theorem is
about. Hence the twenty-two theorems `<property>Always == GroupSpec => []<property>` and
`GroupImplementsClaims == GroupSpec => ImplementsClaims`: what the run `components` checks on
one instance holds for every value of the constants. The assumptions are those that `Components`
names: the block types are named unlike the other operations (`BlockTypesAssumption`), times are
whole numbers (`TimesAssumption`), every mode has a value for every switch (`PolicyAssumption`), the
service is started at least once (`StartsAssumption`), the cover's worker threads are none of the
others (`WorkersAssumption`), the number for all displays is no display's (`DisplaysAssumption`);
and those of `MultiInvoker`, finite sets of
clients and of keys.

### Only model-checked

* Liveness (`EveryCallReturns`, `ScreenGoesOff`, `CancelIsAnswered`, `ForcedRebootHappens`):
  fairness and ENABLED are outside of the prover's reach.
* `TypesOK`: of each component's types only those are proved that its invariant needs.

## 5. Behaviours met while modelling that no property covers

Each was read in the source; where a module covers the code, its property or its instance leaves
the case out.

*State machine.* The core's `SetState` leaves out a failed pre-bright authentication, which commits
AWAKE with the display off (`power_state_machine.cpp:357`; `PreBright` has the flow around it), and the
configuration that never sleeps from DIM (`:483`, `:503`, `:1547`). The time-out's look for a shutdown
dialog or a shutdown under way (`suspend_controller.cpp:584`) is left out: the model is of a device
that has neither, on which the screen must go off. `SetDisplayOffTime` enables automatic screen-off while a `SetState(AWAKE)` has
already seen it disabled (`power_state_machine.cpp:1883`). A display that refuses DIM and then also
INACTIVE leaves an AWAKE device without a timer: the expired task arms none. The first screen lock may come back
with the screen still DIM, because its refresh passes the 100 ms throttle (`:803`). A screen lock
taken after `SetState(INACTIVE)` has checked the locks does not stop it (`:1816`). A time-out
under `LockScreenAfterTimingOut(false)` has a reason for which no INACTIVE to SLEEP is allowed
(`:2529`). A stale authentication time-out ends the next pre-bright (`:660`, `:2178`).
`NotifyPowerStateChanged` holds its mutex during calls to clients (`:1261`).

*Running locks.* `ReleaseLock` erases a lock whose `UnLock` failed (`running_lock_mgr.cpp:401`);
`UnlockInnerByProxy` marks PROXIED whatever `UnLock` returned (`:826`); a COORDINATION lock is
told to the state action though the HDI refused it (`:322`); `UnLock` by name may find another
client's lock (`:343`); a late timer callback releases a lock that was taken again
(`power_mgr_service.cpp:1947`). A listener registered while the display is locked is not told,
and one registered while the last one's death recipient is being removed loses its own
(`:3581`). The sensor's thread may set the screen-off timer after the last proximity unlock
(`running_lock_mgr.cpp:1062`); its screen-off is then refused, but the close mark stays; an unlock during a call leaves a fold display on its second
screen (`:267`); a failed sensor subscription still takes the lock
(`proximity_controller_base.cpp:77`).

*Suspend.* `StopSleep` asks the state action to wake the HDI before its `SetState`, which the model
leaves out: an automatic suspend then lasts longer than in the code. The force task may run on a device that has been woken (`suspend_controller.cpp:904`),
`onForceSleep` is raised late (`:900`), sleep callbacks may follow the wake-up callbacks (`:122`),
an automatic `SuspendDevice` replaces the force task (`:911`). The callbacks task of an earlier
forced suspend may report "finished" to a later one. A key event between cancelling and making
the monitors anew is lost (`:330`, `:425`), `Init` keeps a stale subscription (`:248`), the
touch-pad cover's monitor subscribes an object that has been discarded (`:1421`), an empty source
list returns before the settings are observed (`:231`). A thread given up by the ULSR time-out
goes on telling clients, and a wake-up before the waiting task is marked as stopped is lost.

*Wake-up.* The sources are written back without `sourceUpdateMutex_`
(`wakeup_source_parser.cpp:62`); the lid's row is global while the object is a user's; disabling
the last source has no effect (`wakeup_controller.cpp:182`), a list without an enabled source at
`Init` leaves the settings unobserved (`:139`), and `Init` keeps a stale monitor
(`:152`). A failed input subscription is not tried again (`:118`); an event during
`SetState(INACTIVE)` neither refreshes nor wakes (`:725`); a stale kernel reason swallows presses
of the power key (`:1146`). Cover tasks are unordered, the external screens' listener uses a cover
state it read earlier (`power_mgr_service.cpp:2966`), and a disconnection's suspend may replace a
wake-up (`:3033`).

*Shutdown, hibernate, modes.* `HandleShutdown` takes no `shutdownMutex_`, so its check and
its setting of `started_` may be overtaken (`shutdown_controller.cpp:138`), and a second forced
reboot waits for the first one's callbacks and for its screen (`:166`, `:169`), which the model has and
`ForcedRebootHappens` excuses. The prepare thread of a hibernation outlives its
time-out. After a restart in a power-save mode no observers are registered
(`power_mode_module.cpp:80`), `recoverMap_` is erased without its mutex
(`power_mode_policy.cpp:219`), a crash inside `EnableMode` loses a back-up (`:368`).

*Settings, users.* The update of the display-off time reads, checks and assigns without a
lock. A change that comes while a client overrides, restores or another update runs may be lost
(`power_state_machine.cpp:1913` to `:1938`), and, in a build without charging types, so is one to the very
time that a client overrides with (`:1925`). The model has all of these; `lost` marks them, and the next
update that runs alone must make up for them. A user
switch between reading the user and subscribing is missed (`power_mgr_service.cpp:267`); a failed
registration of an observer is not repeated (`setting_helper.cpp:187`). The time from which the
screen saver is held off is a constant of `ScreenSaver`. The saver's timer is
not updated by a user switch, its supply changes before the subscription are missed, and a task
that has started publishes after activity (`screen_saver_timer_manager.cpp:86`).

*Clients.* A call that is handled after its client's obituary leaves its claim for ever
(`multi_invoker_helper.cpp:159`); one client's death removes another's screen-off block
(`power_state_machine.cpp:1385`); only the last client of `SetForceTimingOut` is watched
(`power_mgr_service.cpp:2728`); sleep and take-over callbacks have no death recipient; the entry of
a registration that was handled after its client died stays if the dead object refuses the recipient
(`power_state_machine.cpp:1195`; in the model, and allowed by `ToldWhileRegistered`). Recovery
gives up after `CONNECT_RETRY_COUNT` (`power_mgr_client.cpp:133`), a lock created during it is
missed (`:483`), a recovered lock is not locked again (`running_lock.cpp:74`). One-way calls
report success when the reply is late (`power_mgr_async_reply.cpp:56`), and the adapter drops
some refusals. `PowerMgrClient::error_` is shared by threads and taken away by `GetError`
(`power_mgr_client.cpp:790`), and is not set without a proxy (run
`script_create`). Replacing a script's shutdown function is one step in `ScriptCalls`, as its events run
on the script's own thread; only the look of the IPC thread at `env_` could tell. A script call that
cannot be queued never settles (`power_napi.cpp:532`); the deprecated `createRunningLock` callback
never gets an error (`runninglock_interface.cpp:306`); an unregistration that the service refuses
has already dropped the script's function (`power_napi.cpp:697`); the boot stage is set before the
parameters are checked (`:404`).

*Life of the service.* Re-initialisation subscribes the switch again (`power_mgr_service.cpp:690`),
`OnStop` leaves listeners behind (`:829`), the switch state is read before it is told
(`iswitch_action.cpp:80`), `ResetHandle` clears the manager under a running registration
(`system_suspend_controller.cpp:41`). A screen-state client that leaves ends the notices of the
others (`screen_off_pre_controller.cpp:75`), and overlapping schedules leave a task behind (`:135`).

## 6. Not modelled

Multi-user queries and customised events (no state of their own), the local suspend controller
(only its unit test creates it), dump, notification and factories, the ETS and CJ frameworks (the
same synchronous calls as the script framework), the power dialog and the shell tools, the
parsing of XML and JSON text, IPC marshalling, permissions, statistics. Of modelled components:
the dreaming state and the always-on display's doze, the decoupled display actions, the time
arithmetic of the automatic sleep, the adapters to products' plug-ins, `CopyDataForUpdateScene`.

What is left of the plan, in this order:

1. Proofs: the parts of `TypesOK` that the invariants do not contain.
2. An abstract specification of the power state (who may turn the screen on and off, and when
   a lock forbids it) that `PowerStateMachine` refines.
3. A composition of `RunningLock` with `PowerStateMachine` over the SCREEN counter.
