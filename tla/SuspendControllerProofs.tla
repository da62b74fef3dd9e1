----------------------- MODULE SuspendControllerProofs -----------------------
(***************************************************************************)
(* Proofs about SuspendController, for any number of client threads: the   *)
(* inductive invariant SleepInv is preserved by every step, one step per   *)
(* action, and implies the two properties of the sleep path.               *)
(***************************************************************************)
EXTENDS SuspendController, TLAPS

\* A call at its end is a call.
LEMMA NoCallType == NoCall \in Calls
BY DEF NoCall, Calls, OpNames, AllOps, SleepActions, Reasons

\* GoTo moves one thread and changes its call only when it becomes idle.
LEMMA GoToFacts ==
    ASSUME TypeOK, NEW th \in Threads, NEW label \in Labels, GoTo(th, label)
    PROVE  /\ pc' \in [Threads -> Labels] /\ call' \in [Threads -> Calls]
           /\ pc'[th] = label
           /\ call'[th] = IF label = "idle" THEN NoCall ELSE call[th]
           /\ \A o \in Threads : o # th => pc'[o] = pc[o] /\ call'[o] = call[o]
BY NoCallType DEF TypeOK, GoTo

\* Begin moves one thread and gives it a new call.
LEMMA BeginFacts ==
    ASSUME TypeOK, NEW th \in Threads, NEW label \in Labels, NEW opName \in OpNames,
           NEW action \in SleepActions, NEW reason \in Reasons,
           Begin(th, label, opName, action, reason)
    PROVE  /\ pc' \in [Threads -> Labels] /\ call' \in [Threads -> Calls]
           /\ pc'[th] = label
           /\ call'[th] = [ op |-> opName, action |-> action, reason |-> reason ]
           /\ \A o \in Threads : o # th => pc'[o] = pc[o] /\ call'[o] = call[o]
<1>1. [ op |-> opName, action |-> action, reason |-> reason ] \in Calls
  BY DEF Calls
<1> QED BY <1>1 DEF TypeOK, Begin

\* A thread never waits in "idle" at the end of a step of the queue, nor at any label but Done's.
LEMMA DoneLabel == ASSUME NEW th PROVE Done(th) \in {"taskEnd", "idle"} /\ (th = queue => Done(th) = "taskEnd")
BY DEF Done

\* The states that operations ask for.
LEMMA TargetStates == ASSUME NEW th PROVE Target(th) \in {"AWAKE", "SLEEP", "INACTIVE"}
BY DEF Target

\* The caller of SetState continues at one of these labels.
LEMMA AfterSetStateLabel ==
    ASSUME NEW th, NEW ok
    PROVE  /\ AfterSetState(th, ok) \in {"trigger", "awakeCheck", "start", "sleepCheck", "taskEnd", "idle"}
           /\ th = queue => AfterSetState(th, ok) # "idle"
           /\ AfterSetState(th, ok) = "awakeCheck" => call[th].op = "handleWakeup"
           /\ AfterSetState(th, ok) = "sleepCheck" => call[th].op = "handleAction"
           /\ AfterSetState(th, ok) = "trigger" => Waking(th) \/ call[th].op = "handleAction"
BY DoneLabel DEF AfterSetState, Waking

\* No reason takes an AWAKE device to SLEEP.
LEMMA AwakeNotToSleep == ASSUME NEW r PROVE ~CanTransitTo("AWAKE", "SLEEP", r)
BY DEF CanTransitTo, forbidMap_

-------------------------------------------------------------------------------
\* A step outside of SetState, of a thread that does not own stateMutex_: it may start automatic
\* suspend only while that is allowed, and disturbs nobody inside.
LEMMA OutsideStep ==
    ASSUME TypeOK, MutexInv, AutoSuspendInv,
           NEW th \in Threads, stateMutex # th, stateMutex' = stateMutex,
           currentState' = currentState, allowSleepTask' = allowSleepTask,
           autoSuspend' => autoSuspend \/ allowSleepTask,
           pc'[th] \notin {"allow", "disallow", "commit", "exit"},
           \A o \in Threads : o # th => pc'[o] = pc[o] /\ call'[o] = call[o]
    PROVE  MutexInv' /\ AutoSuspendInv'
<1>1. MutexInv'
  BY DEF MutexInv
<1>2. \A o \in Threads : o # th => Target(o)' = Target(o)
  BY DEF Target, Waking
<1>3. AutoSuspendInv'
  BY <1>2 DEF AutoSuspendInv
<1> QED BY <1>1, <1>3

\* A step that leaves sleepTime_, the timer and the queue's call alone keeps SleepTimeInv when the
\* thread that moves was not about to arm the timer or to clear sleepTime_.
LEMMA SleepTimeKept ==
    ASSUME TypeOK, SleepTimeInv, NEW th \in Threads,
           sleepTime' = sleepTime, handle' = handle, task' = task,
           pc[th] \notin {"arm", "clearSleep"},
           \A o \in Threads : o # th => pc'[o] = pc[o] /\ call'[o] = call[o],
           th = queue => pc'[th] # "idle" /\ (call[th].op # "handleAction" \/ call'[th].op = call[th].op)
    PROVE  SleepTimeInv'
BY DEF SleepTimeInv, SleepPending, Threads

\* A thread that goes on with its call, or ends it, keeps OpInv unless its new label is one of four.
LEMMA OpKept ==
    ASSUME OpInv, NEW th \in Threads, NEW label, pc'[th] = label,
           label \notin {"awakeCheck", "sleepCheck", "trigger", "armForce"},
           call'[th] = call[th] \/ call'[th] = NoCall,
           \A o \in Threads : o # th => pc'[o] = pc[o] /\ call'[o] = call[o]
    PROVE  OpInv'
BY DEF OpInv, NoCall, Waking

\* The steps of StopSleep and StartSleepTimer.
LEMMA TimerSteps ==
    ASSUME SleepInv, NEW th \in Threads,
           \/ StopSleepCancel(th) \/ StopSleepClear(th)
           \/ StartSleepTimer(th) \/ MarkSleepTime(th) \/ ArmSleepTimer(th)
    PROVE  SleepInv'
<1> USE DEF SleepInv
<1>1. CASE StopSleepCancel(th)
  <2>1. /\ pc' \in [Threads -> Labels] /\ call' \in [Threads -> Calls]
        /\ pc'[th] = "clearSleep" /\ call'[th] = call[th]
        /\ \A o \in Threads : o # th => pc'[o] = pc[o] /\ call'[o] = call[o]
    BY <1>1, GoToFacts DEF StopSleepCancel, Labels
  <2>2. TypeOK'
    BY <1>1, <2>1 DEF StopSleepCancel, TypeOK, HandleStates, hdi
  <2>3. \A o \in Threads : Target(o)' = Target(o)
    BY <2>1 DEF Target, Waking
  <2>4. MutexInv' /\ AutoSuspendInv'
    BY <1>1, <2>1, <2>3 DEF StopSleepCancel, MutexInv, AutoSuspendInv, hdi
  <2>5. SleepTimeInv'
    BY <1>1, <2>1 DEF StopSleepCancel, SleepTimeInv, SleepPending, Threads
  <2>o. OpInv'
    BY <2>1, OpKept
  <2> QED BY <2>2, <2>4, <2>5, <2>o
<1>2. CASE StopSleepClear(th)
  <2> DEFINE label == IF stateMutex = th THEN "exit"
                      ELSE CASE call[th].op = "wakeupDevice"     -> "lock"
                             [] call[th].op = "handleWakeup"     -> "hdiWakeup"
                             [] OTHER                            -> "start"
  <2>0. label \in Labels /\ label # "idle" /\ (label = "exit" <=> stateMutex = th)
        /\ label \in {"exit", "lock", "hdiWakeup", "start"}
    BY DEF Labels
  <2>a. GoTo(th, label)
    BY <1>2 DEF StopSleepClear
  <2> HIDE DEF label
  <2>1. /\ pc' \in [Threads -> Labels] /\ call' \in [Threads -> Calls]
        /\ pc'[th] = label /\ call'[th] = call[th]
        /\ \A o \in Threads : o # th => pc'[o] = pc[o] /\ call'[o] = call[o]
    BY <2>0, <2>a, GoToFacts
  <2>2. TypeOK'
    BY <1>2, <2>1 DEF StopSleepClear, TypeOK, hdi
  <2>3. \A o \in Threads : Target(o)' = Target(o)
    BY <2>1 DEF Target, Waking
  <2>4. MutexInv' /\ AutoSuspendInv'
    BY <1>2, <2>0, <2>1, <2>3 DEF StopSleepClear, MutexInv, AutoSuspendInv, hdi
  <2>5. SleepTimeInv'
    BY <1>2, <2>0, <2>1 DEF StopSleepClear, SleepTimeInv, SleepPending, Threads
  <2>o. OpInv'
    BY <2>0, <2>1, OpKept
  <2> QED BY <2>2, <2>4, <2>5, <2>o
<1>3. CASE StartSleepTimer(th)
  <2>1. PICK label \in {"mark", Done(th)} : GoTo(th, label)
    BY <1>3 DEF StartSleepTimer
  <2>2. label \in {"mark", "taskEnd", "idle"} /\ (th = queue => label # "idle")
    BY <2>1, DoneLabel
  <2>3. /\ pc' \in [Threads -> Labels] /\ call' \in [Threads -> Calls]
        /\ pc'[th] = label /\ call'[th] = IF label = "idle" THEN NoCall ELSE call[th]
        /\ \A o \in Threads : o # th => pc'[o] = pc[o] /\ call'[o] = call[o]
    BY <2>1, <2>2, GoToFacts DEF Labels
  <2>4. TypeOK'
    BY <1>3, <2>3 DEF StartSleepTimer, TypeOK, hdi, sleepVars
  <2>5. MutexInv' /\ AutoSuspendInv'
    <3>1. stateMutex # th
      BY <1>3 DEF StartSleepTimer, MutexInv
    <3> QED BY <1>3, <2>2, <2>3, <3>1, OutsideStep DEF StartSleepTimer, hdi
  <2>6. SleepTimeInv'
    BY <1>3, <2>2, <2>3, SleepTimeKept DEF StartSleepTimer, sleepVars
  <2>o. OpInv'
    BY <2>2, <2>3, OpKept
  <2> QED BY <2>4, <2>5, <2>6, <2>o
<1>4. CASE MarkSleepTime(th)
  <2>1. /\ pc' \in [Threads -> Labels] /\ call' \in [Threads -> Calls]
        /\ pc'[th] = "arm" /\ call'[th] = call[th]
        /\ \A o \in Threads : o # th => pc'[o] = pc[o] /\ call'[o] = call[o]
    BY <1>4, GoToFacts DEF MarkSleepTime, Labels
  <2>2. TypeOK'
    BY <1>4, <2>1 DEF MarkSleepTime, TypeOK, hdi, Calls
  <2>3. MutexInv' /\ AutoSuspendInv'
    <3>1. stateMutex # th
      BY <1>4 DEF MarkSleepTime, MutexInv
    <3> QED BY <1>4, <2>1, <3>1, OutsideStep DEF MarkSleepTime, hdi
  <2>4. SleepTimeInv'
    BY <1>4, <2>1 DEF MarkSleepTime, SleepTimeInv, SleepPending, Threads
  <2>o. OpInv'
    BY <2>1, OpKept
  <2> QED BY <2>2, <2>3, <2>4, <2>o
<1>5. CASE ArmSleepTimer(th)
  <2>0. Done(th) \in {"taskEnd", "idle"} /\ (th = queue => Done(th) = "taskEnd")
    BY DoneLabel
  <2>1. /\ pc' \in [Threads -> Labels] /\ call' \in [Threads -> Calls]
        /\ pc'[th] = Done(th) /\ call'[th] = IF Done(th) = "idle" THEN NoCall ELSE call[th]
        /\ \A o \in Threads : o # th => pc'[o] = pc[o] /\ call'[o] = call[o]
    BY <1>5, <2>0, GoToFacts DEF ArmSleepTimer, Labels
  <2>2. TypeOK'
    BY <1>5, <2>1 DEF ArmSleepTimer, TypeOK, hdi, Calls, Tasks, HandleStates
  <2>3. MutexInv' /\ AutoSuspendInv'
    <3>1. stateMutex # th
      BY <1>5 DEF ArmSleepTimer, MutexInv
    <3> QED BY <1>5, <2>0, <2>1, <3>1, OutsideStep DEF ArmSleepTimer, hdi
  <2>4. SleepTimeInv'
    BY <1>5, <2>0, <2>1 DEF ArmSleepTimer, SleepTimeInv, SleepPending, Threads
  <2>o. OpInv'
    BY <2>0, <2>1, OpKept
  <2> QED BY <2>2, <2>3, <2>4, <2>o
<1> QED BY <1>1, <1>2, <1>3, <1>4, <1>5

\* SetState from its mutex to its end.
LEMMA SetStateSteps ==
    ASSUME SleepInv, NEW th \in Threads,
           \/ SetState(th) \/ AllowAutoSleep(th) \/ DisallowAutoSleep(th)
           \/ Commit(th) \/ SetStateExit(th)
    PROVE  SleepInv'
<1> USE DEF SleepInv
<1>1. CASE SetState(th)
  <2>0. stateMutex = NoThread /\ pc[th] = "lock" /\ \A o \in Threads : stateMutex # o
    BY <1>1, ThreadsAssumption DEF SetState, Threads
  <2>1. PICK label \in Labels :
            /\ GoTo(th, label)
            /\ \/ /\ stateMutex' = th
                  /\ CanTransitTo(currentState, Target(th), call[th].reason)
                  /\ label = CASE Target(th) = "AWAKE" -> "disallow"
                               [] Target(th) = "SLEEP" -> "allow"
                               [] OTHER                -> "commit"
               \/ /\ stateMutex' = stateMutex
                  /\ label \in {"trigger", "awakeCheck", "start", "sleepCheck", "taskEnd", "idle"}
                  /\ th = queue => label # "idle"
                  /\ label = "awakeCheck" => call[th].op = "handleWakeup"
                  /\ label = "sleepCheck" => call[th].op = "handleAction"
                  /\ label = "trigger" => Waking(th) \/ call[th].op = "handleAction"
    BY <1>1, AfterSetStateLabel, TargetStates DEF SetState, Labels
  <2>2. /\ pc' \in [Threads -> Labels] /\ call' \in [Threads -> Calls]
        /\ pc'[th] = label /\ call'[th] = IF label = "idle" THEN NoCall ELSE call[th]
        /\ \A o \in Threads : o # th => pc'[o] = pc[o] /\ call'[o] = call[o]
    BY <2>1, GoToFacts
  <2>3. UNCHANGED << currentState, sleepVars, hdi, forceWanted >> /\ onForceSleep' \in BOOLEAN
    BY <1>1 DEF SetState, TypeOK, SetsForceSleep
  <2>4. TypeOK'
    BY <2>0, <2>1, <2>2, <2>3 DEF TypeOK, sleepVars, hdi
  <2>5. SleepTimeInv'
    <3>1. th = queue => label # "idle"
      BY <2>1, TargetStates
    <3> QED BY <2>0, <2>2, <2>3, <3>1, SleepTimeKept DEF sleepVars
  <2>6. CASE stateMutex' = th
    <3>0. /\ CanTransitTo(currentState, Target(th), call[th].reason)
          /\ label = CASE Target(th) = "AWAKE" -> "disallow"
                       [] Target(th) = "SLEEP" -> "allow"
                       [] OTHER                -> "commit"
      BY <2>0, <2>1, <2>6
    <3>1. /\ CanTransitTo(currentState, Target(th), call[th].reason)
          /\ \/ Target(th) = "AWAKE" /\ label = "disallow"
             \/ Target(th) = "SLEEP" /\ label = "allow"
             \/ Target(th) = "INACTIVE" /\ label = "commit"
      BY <3>0, TargetStates
    <3>2. Target(th)' = Target(th)
      BY <2>2, <3>1 DEF Target, Waking
    <3>3. MutexInv'
      BY <2>0, <2>2, <2>6, <3>1 DEF MutexInv
    <3>4. Target(th) = "SLEEP" => currentState # "AWAKE"
      BY <3>1, AwakeNotToSleep
    <3>5. AutoSuspendInv'
      BY <2>0, <2>2, <2>3, <2>6, <3>1, <3>2, <3>4 DEF AutoSuspendInv, hdi
    <3>o. OpInv'
      BY <2>2, <3>1, OpKept
    <3> QED BY <2>4, <2>5, <3>3, <3>5, <3>o
  <2>7. CASE stateMutex' # th
    <3>1. MutexInv' /\ AutoSuspendInv'
      BY <2>0, <2>1, <2>2, <2>3, <2>7, OutsideStep DEF hdi
    <3>o. OpInv'
      BY <2>1, <2>2, <2>7 DEF OpInv, Waking, NoCall
    <3> QED BY <2>4, <2>5, <3>1, <3>o
  <2> QED BY <2>6, <2>7
<1>2. CASE AllowAutoSleep(th)
  <2>1. /\ pc' \in [Threads -> Labels] /\ call' \in [Threads -> Calls]
        /\ pc'[th] = "commit" /\ call'[th] = call[th]
        /\ \A o \in Threads : o # th => pc'[o] = pc[o] /\ call'[o] = call[o]
    BY <1>2, GoToFacts DEF AllowAutoSleep, Labels
  <2>2. TypeOK'
    BY <1>2, <2>1 DEF AllowAutoSleep, TypeOK, sleepVars
  <2>3. \A o \in Threads : Target(o)' = Target(o)
    BY <2>1 DEF Target, Waking
  <2>4. MutexInv'
    BY <1>2, <2>1 DEF AllowAutoSleep, MutexInv
  <2>5. AutoSuspendInv'
    BY <1>2, <2>1, <2>3 DEF AllowAutoSleep, MutexInv, AutoSuspendInv
  <2>6. SleepTimeInv'
    BY <1>2, <2>1, SleepTimeKept DEF AllowAutoSleep, sleepVars
  <2>o. OpInv'
    BY <2>1, OpKept
  <2> QED BY <2>2, <2>4, <2>5, <2>6, <2>o
<1>3. CASE DisallowAutoSleep(th)
  <2>1. /\ pc' \in [Threads -> Labels] /\ call' \in [Threads -> Calls]
        /\ pc'[th] = "hdiWakeup" /\ call'[th] = call[th]
        /\ \A o \in Threads : o # th => pc'[o] = pc[o] /\ call'[o] = call[o]
    BY <1>3, GoToFacts DEF DisallowAutoSleep, Labels
  <2>2. TypeOK'
    BY <1>3, <2>1 DEF DisallowAutoSleep, TypeOK, sleepVars
  <2>3. \A o \in Threads : Target(o)' = Target(o)
    BY <2>1 DEF Target, Waking
  <2>4. MutexInv'
    BY <1>3, <2>1 DEF DisallowAutoSleep, MutexInv
  <2>5. AutoSuspendInv'
    BY <1>3, <2>1, <2>3 DEF DisallowAutoSleep, MutexInv, AutoSuspendInv
  <2>6. SleepTimeInv'
    BY <1>3, <2>1, SleepTimeKept DEF DisallowAutoSleep, sleepVars
  <2>o. OpInv'
    BY <2>1, OpKept
  <2> QED BY <2>2, <2>4, <2>5, <2>6, <2>o
<1>4. CASE Commit(th)
  <2>1. PICK label \in {"cancelSleep", "exit"} : GoTo(th, label)
    BY <1>4 DEF Commit
  <2>2. /\ pc' \in [Threads -> Labels] /\ call' \in [Threads -> Calls]
        /\ pc'[th] = label /\ call'[th] = call[th]
        /\ \A o \in Threads : o # th => pc'[o] = pc[o] /\ call'[o] = call[o]
    BY <2>1, GoToFacts DEF Labels
  <2>3. TypeOK'
    BY <1>4, <2>2, TargetStates DEF Commit, TypeOK, sleepVars, hdi, States
  <2>4. \A o \in Threads : Target(o)' = Target(o)
    BY <2>2 DEF Target, Waking
  <2>5. MutexInv'
    BY <1>4, <2>1, <2>2 DEF Commit, MutexInv
  <2>6. AutoSuspendInv'
    BY <1>4, <2>1, <2>2, <2>4 DEF Commit, MutexInv, AutoSuspendInv, hdi
  <2>7. SleepTimeInv'
    BY <1>4, <2>1, <2>2, SleepTimeKept DEF Commit, sleepVars
  <2>o. OpInv'
    BY <2>1, <2>2, OpKept
  <2> QED BY <2>3, <2>5, <2>6, <2>7, <2>o
<1>5. CASE SetStateExit(th)
  <2> DEFINE label == AfterSetState(th, TRUE)
  <2>0. label \in {"trigger", "awakeCheck", "start", "sleepCheck", "taskEnd", "idle"}
        /\ (th = queue => label # "idle") /\ label \in Labels /\ GoTo(th, label)
    BY <1>5, AfterSetStateLabel DEF SetStateExit, Labels
  <2>a. /\ label = "awakeCheck" => call[th].op = "handleWakeup"
        /\ label = "sleepCheck" => call[th].op = "handleAction"
        /\ label = "trigger" => Waking(th) \/ call[th].op = "handleAction"
    BY AfterSetStateLabel
  <2> HIDE DEF label
  <2>1. /\ pc' \in [Threads -> Labels] /\ call' \in [Threads -> Calls]
        /\ pc'[th] = label /\ call'[th] = IF label = "idle" THEN NoCall ELSE call[th]
        /\ \A o \in Threads : o # th => pc'[o] = pc[o] /\ call'[o] = call[o]
    BY <2>0, GoToFacts
  <2>2. TypeOK'
    BY <1>5, <2>1 DEF SetStateExit, TypeOK, sleepVars, hdi, SetsForceSleep
  <2>3. \A o \in Threads : stateMutex' # o
    BY <1>5, ThreadsAssumption DEF SetStateExit, Threads
  <2>4. MutexInv'
    BY <1>5, <2>0, <2>1, <2>3 DEF SetStateExit, MutexInv
  <2>5. AutoSuspendInv'
    BY <1>5, <2>3 DEF SetStateExit, AutoSuspendInv, hdi
  <2>6. SleepTimeInv'
    BY <1>5, <2>0, <2>1, SleepTimeKept DEF SetStateExit, sleepVars
  <2>o. OpInv'
    BY <2>0, <2>1, <2>a DEF OpInv, Waking, NoCall
  <2> QED BY <2>2, <2>4, <2>5, <2>6, <2>o
<1> QED BY <1>1, <1>2, <1>3, <1>4, <1>5

\* The calls to the HDI, the checks after them and the sync callbacks.
LEMMA OtherSteps ==
    ASSUME SleepInv, NEW th \in Threads,
           \/ HdiWakeup(th) \/ HdiSuspend(th) \/ AwakeCheck(th) \/ SleepCheck(th)
           \/ TriggerSyncSleepCallback(th) \/ ArmForceTask(th)
    PROVE  SleepInv'
<1> USE DEF SleepInv
<1>d. Done(th) \in {"taskEnd", "idle"} /\ (th = queue => Done(th) = "taskEnd")
  BY DoneLabel
<1>1. CASE HdiWakeup(th)
  <2>1. PICK label \in {"commit", "lock", "hdiSuspend", "start"} :
            GoTo(th, label) /\ (label = "commit" <=> stateMutex = th)
    BY <1>1 DEF HdiWakeup
  <2>2. /\ pc' \in [Threads -> Labels] /\ call' \in [Threads -> Calls]
        /\ pc'[th] = label /\ call'[th] = call[th]
        /\ \A o \in Threads : o # th => pc'[o] = pc[o] /\ call'[o] = call[o]
    BY <2>1, GoToFacts DEF Labels
  <2>3. TypeOK'
    BY <1>1, <2>2 DEF HdiWakeup, TypeOK, sleepVars
  <2>4. \A o \in Threads : Target(o)' = Target(o)
    BY <2>2 DEF Target, Waking
  <2>5. MutexInv'
    BY <1>1, <2>1, <2>2 DEF HdiWakeup, MutexInv
  <2>6. AutoSuspendInv'
    BY <1>1, <2>1, <2>2, <2>4 DEF HdiWakeup, MutexInv, AutoSuspendInv
  <2>7. SleepTimeInv'
    BY <1>1, <2>1, <2>2, SleepTimeKept DEF HdiWakeup, sleepVars
  <2>o. OpInv'
    BY <2>1, <2>2, OpKept
  <2> QED BY <2>3, <2>5, <2>6, <2>7, <2>o
<1>2. CASE HdiSuspend(th)
  <2>1. PICK label \in {Done(th)} : GoTo(th, label)
    BY <1>2 DEF HdiSuspend
  <2>2. label \in {"hdiSuspend", "trigger", "armForce", "taskEnd", "idle"} /\ (th = queue => label # "idle")
    BY <1>d, <2>1
  <2>3. /\ pc' \in [Threads -> Labels] /\ call' \in [Threads -> Calls]
        /\ pc'[th] = label /\ call'[th] = IF label = "idle" THEN NoCall ELSE call[th]
        /\ \A o \in Threads : o # th => pc'[o] = pc[o] /\ call'[o] = call[o]
    BY <2>1, <2>2, GoToFacts DEF Labels
  <2>4. TypeOK'
    BY <1>2, <2>3 DEF HdiSuspend, TypeOK, sleepVars
  <2>5. MutexInv' /\ AutoSuspendInv'
    <3>1. stateMutex # th
      BY <1>2 DEF HdiSuspend, MutexInv
    <3> QED BY <1>2, <2>2, <2>3, <3>1, OutsideStep DEF HdiSuspend, hdi
  <2>6. SleepTimeInv'
    BY <1>2, <2>2, <2>3, SleepTimeKept DEF HdiSuspend, sleepVars
  <2>o. OpInv'
    BY <2>1, <1>d, <2>2, <2>3, OpKept
  <2> QED BY <2>4, <2>5, <2>6, <2>o
<1>3. CASE AwakeCheck(th)
  <2>1. PICK label \in {"trigger", Done(th)} : GoTo(th, label)
    BY <1>3 DEF AwakeCheck
  <2>2. label \in {"hdiSuspend", "trigger", "armForce", "taskEnd", "idle"} /\ (th = queue => label # "idle")
    BY <1>d, <2>1
  <2>3. /\ pc' \in [Threads -> Labels] /\ call' \in [Threads -> Calls]
        /\ pc'[th] = label /\ call'[th] = IF label = "idle" THEN NoCall ELSE call[th]
        /\ \A o \in Threads : o # th => pc'[o] = pc[o] /\ call'[o] = call[o]
    BY <2>1, <2>2, GoToFacts DEF Labels
  <2>4. TypeOK'
    BY <1>3, <2>3 DEF AwakeCheck, TypeOK, sleepVars, hdi
  <2>5. MutexInv' /\ AutoSuspendInv'
    <3>1. stateMutex # th
      BY <1>3 DEF AwakeCheck, MutexInv
    <3> QED BY <1>3, <2>2, <2>3, <3>1, OutsideStep DEF AwakeCheck, hdi
  <2>6. SleepTimeInv'
    BY <1>3, <2>2, <2>3, SleepTimeKept DEF AwakeCheck, sleepVars
  <2>o. OpInv'
    BY <1>3, <2>1, <1>d, <2>2, <2>3 DEF AwakeCheck, OpInv, Waking, NoCall
  <2> QED BY <2>4, <2>5, <2>6, <2>o
<1>4. CASE SleepCheck(th)
  <2>1. PICK label \in {"hdiSuspend", "trigger", Done(th)} :
            GoTo(th, label) /\ (label = "trigger" => call[th].op # "forceTask")
    BY <1>4, <1>d DEF SleepCheck
  <2>a. label = "trigger" => call[th].op = "handleAction"
    BY <1>4, <2>1 DEF SleepCheck, OpInv
  <2>2. label \in {"hdiSuspend", "trigger", "armForce", "taskEnd", "idle"} /\ (th = queue => label # "idle")
    BY <1>d, <2>1
  <2>3. /\ pc' \in [Threads -> Labels] /\ call' \in [Threads -> Calls]
        /\ pc'[th] = label /\ call'[th] = IF label = "idle" THEN NoCall ELSE call[th]
        /\ \A o \in Threads : o # th => pc'[o] = pc[o] /\ call'[o] = call[o]
    BY <2>1, <2>2, GoToFacts DEF Labels
  <2>4. TypeOK'
    BY <1>4, <2>3 DEF SleepCheck, TypeOK, sleepVars, hdi
  <2>5. MutexInv' /\ AutoSuspendInv'
    <3>1. stateMutex # th
      BY <1>4 DEF SleepCheck, MutexInv
    <3> QED BY <1>4, <2>2, <2>3, <3>1, OutsideStep DEF SleepCheck, hdi
  <2>6. SleepTimeInv'
    BY <1>4, <2>2, <2>3, SleepTimeKept DEF SleepCheck, sleepVars
  <2>o. OpInv'
    BY <1>4, <1>d, <2>1, <2>a, <2>3 DEF OpInv, Waking, NoCall
  <2> QED BY <2>4, <2>5, <2>6, <2>o
<1>5. CASE TriggerSyncSleepCallback(th)
  <2>1. PICK label \in {"hdiSuspend", "armForce", Done(th)} :
            GoTo(th, label) /\ (label = "armForce" => ~Waking(th))
    BY <1>5, <1>d DEF TriggerSyncSleepCallback
  <2>a. label = "armForce" => call[th].op = "handleAction"
    BY <1>5, <2>1 DEF TriggerSyncSleepCallback, OpInv
  <2>2. label \in {"hdiSuspend", "trigger", "armForce", "taskEnd", "idle"} /\ (th = queue => label # "idle")
    BY <1>d, <2>1
  <2>3. /\ pc' \in [Threads -> Labels] /\ call' \in [Threads -> Calls]
        /\ pc'[th] = label /\ call'[th] = IF label = "idle" THEN NoCall ELSE call[th]
        /\ \A o \in Threads : o # th => pc'[o] = pc[o] /\ call'[o] = call[o]
    BY <2>1, <2>2, GoToFacts DEF Labels
  <2>4. TypeOK'
    BY <1>5, <2>3 DEF TriggerSyncSleepCallback, TypeOK, sleepVars, hdi
  <2>5. MutexInv' /\ AutoSuspendInv'
    <3>1. stateMutex # th
      BY <1>5 DEF TriggerSyncSleepCallback, MutexInv
    <3> QED BY <1>5, <2>2, <2>3, <3>1, OutsideStep DEF TriggerSyncSleepCallback, hdi
  <2>6. SleepTimeInv'
    BY <1>5, <2>2, <2>3, SleepTimeKept DEF TriggerSyncSleepCallback, sleepVars
  <2>o. OpInv'
    BY <1>5, <2>a, <2>2, <2>3 DEF TriggerSyncSleepCallback, OpInv, Waking, NoCall
  <2> QED BY <2>4, <2>5, <2>6, <2>o
<1>6. CASE ArmForceTask(th)
  <2>1. /\ pc' \in [Threads -> Labels] /\ call' \in [Threads -> Calls]
        /\ pc'[th] = Done(th) /\ call'[th] = IF Done(th) = "idle" THEN NoCall ELSE call[th]
        /\ \A o \in Threads : o # th => pc'[o] = pc[o] /\ call'[o] = call[o]
    BY <1>6, <1>d, GoToFacts DEF ArmForceTask, Labels
  <2>2. TypeOK'
    BY <1>6, <2>1 DEF ArmForceTask, TypeOK, hdi, Calls, Tasks, HandleStates, SleepActions
  <2>3. MutexInv' /\ AutoSuspendInv'
    <3>1. stateMutex # th
      BY <1>6 DEF ArmForceTask, MutexInv
    <3> QED BY <1>6, <1>d, <2>1, <3>1, OutsideStep DEF ArmForceTask, hdi
  <2>4. SleepTimeInv'
    BY <1>6, <1>d, <2>1 DEF ArmForceTask, OpInv, SleepTimeInv, SleepPending, Threads
  <2>o. OpInv'
    BY <1>d, <2>1, OpKept
  <2> QED BY <2>2, <2>3, <2>4, <2>o
<1> QED BY <1>1, <1>2, <1>3, <1>4, <1>5, <1>6

\* A thread that begins an operation outside of SetState.
LEMMA BeginStep ==
    ASSUME SleepInv, NEW th \in Threads, pc[th] = "idle",
           NEW label \in Labels \ {"idle", "allow", "disallow", "commit", "exit", "awakeCheck", "trigger", "armForce"},
           NEW opName \in OpNames, NEW action \in SleepActions, NEW reason \in Reasons,
           Begin(th, label, opName, action, reason),
           opName = "handleAction" => th = queue,
           label = "sleepCheck" => opName \in {"handleAction", "forceTask"},
           UNCHANGED << currentState, stateMutex, hdi, sleepTime >>,
           \/ UNCHANGED << handle, task >>
           \/ task' = task /\ (task.op = "handleAction" => th = queue /\ opName = "handleAction")
    PROVE  /\ MutexInv' /\ AutoSuspendInv' /\ OpInv' /\ SleepTimeInv'
           /\ pc' \in [Threads -> Labels] /\ call' \in [Threads -> Calls]
<1> USE DEF SleepInv
<1>1. /\ pc' \in [Threads -> Labels] /\ call' \in [Threads -> Calls]
      /\ pc'[th] = label
      /\ call'[th] = [ op |-> opName, action |-> action, reason |-> reason ]
      /\ \A o \in Threads : o # th => pc'[o] = pc[o] /\ call'[o] = call[o]
  BY BeginFacts
<1>2. stateMutex # th
  BY DEF MutexInv
<1>3. MutexInv' /\ AutoSuspendInv'
  BY <1>1, <1>2, OutsideStep DEF hdi
<1>4. OpInv'
  BY <1>1 DEF OpInv, Waking
<1>5. SleepTimeInv'
  <2>1. CASE UNCHANGED << handle, task >>
    BY <1>1, <2>1 DEF SleepTimeInv, SleepPending, Threads
  <2>2. CASE task' = task /\ (task.op = "handleAction" => th = queue /\ opName = "handleAction")
    BY <1>1, <2>2 DEF SleepTimeInv, SleepPending, Threads
  <2> QED BY <2>1, <2>2
<1> QED BY <1>1, <1>3, <1>4, <1>5

\* The calls of clients.
LEMMA CallSteps ==
    ASSUME SleepInv, NEW c \in Clients, ClientCall(c)
    PROVE  SleepInv'
<1> USE DEF SleepInv
<1>0. c \in Threads /\ c # queue
  BY ThreadsAssumption DEF Threads
<1>1. PICK label \in {"lock", "cancelSleep", "hdiWakeup"},
           opName \in AllOps \cup {"switchForced"}, action \in SleepActions :
               pc[c] = "idle" /\ Begin(c, label, opName, action, "APPLICATION")
  BY ActionsAssumption
     DEF ClientCall, SuspendDevice, ForceSuspendDevice, WakeupDevice, HandleWakeup, ControlListener,
         SuspendWhenScreenOff, AllOps, SleepActions
<1>2. UNCHANGED << currentState, stateMutex, sleepVars, hdi, onForceSleep >> /\ forceWanted' \in BOOLEAN
  BY DEF ClientCall, SuspendDevice, ForceSuspendDevice, WakeupDevice, HandleWakeup, ControlListener,
         SuspendWhenScreenOff, TypeOK
<1>3. /\ MutexInv' /\ AutoSuspendInv' /\ OpInv' /\ SleepTimeInv'
      /\ pc' \in [Threads -> Labels] /\ call' \in [Threads -> Calls]
  <2>1. label \in Labels \ {"idle", "allow", "disallow", "commit", "exit", "awakeCheck", "trigger", "armForce"}
        /\ label # "sleepCheck" /\ opName \in OpNames /\ opName # "handleAction" /\ "APPLICATION" \in Reasons
    BY DEF Labels, OpNames, AllOps, Reasons
  <2> QED BY <1>0, <1>1, <1>2, <2>1, BeginStep DEF sleepVars
<1>4. TypeOK'
  BY <1>2, <1>3 DEF TypeOK, sleepVars, hdi
<1> QED BY <1>3, <1>4

\* The tasks of the queue.
LEMMA QueueSteps ==
    ASSUME SleepInv, OffTimeout \/ SleepTimerFires \/ TaskEnd
    PROVE  SleepInv'
<1> USE DEF SleepInv
<1>0. queue \in Threads
  BY DEF Threads
<1>1. CASE OffTimeout
  <2>1. PICK action \in SleepActions : Begin(queue, "lock", "timeout", action, "TIMEOUT")
    BY <1>1, ActionsAssumption DEF OffTimeout
  <2>2. /\ MutexInv' /\ AutoSuspendInv' /\ OpInv' /\ SleepTimeInv'
        /\ pc' \in [Threads -> Labels] /\ call' \in [Threads -> Calls]
    <3>1. "lock" \in Labels \ {"idle", "allow", "disallow", "commit", "exit", "awakeCheck", "trigger", "armForce"}
          /\ "timeout" \in OpNames /\ "TIMEOUT" \in Reasons
      BY DEF Labels, OpNames, Reasons
    <3>2. pc[queue] = "idle" /\ UNCHANGED << currentState, stateMutex, sleepTime, hdi, handle, task >>
      BY <1>1 DEF OffTimeout, sleepVars
    <3> QED BY <1>0, <2>1, <3>1, <3>2, BeginStep
  <2>3. TypeOK'
    BY <1>1, <2>2 DEF OffTimeout, TypeOK, sleepVars, hdi
  <2> QED BY <2>2, <2>3
<1>2. CASE SleepTimerFires
  <2>1. PICK label \in {"sleepCheck", "taskEnd", "lock"} :
            /\ Begin(queue, label, task.op, task.action, task.reason)
            /\ label = "sleepCheck" => task.op = "forceTask"
    BY <1>2 DEF SleepTimerFires
  <2>2. /\ MutexInv' /\ AutoSuspendInv' /\ OpInv' /\ SleepTimeInv'
        /\ pc' \in [Threads -> Labels] /\ call' \in [Threads -> Calls]
    <3>1. label \in Labels \ {"idle", "allow", "disallow", "commit", "exit", "awakeCheck", "trigger", "armForce"}
          /\ task.op \in OpNames /\ task.action \in SleepActions /\ task.reason \in Reasons
      BY DEF Labels, OpNames, TypeOK, Tasks
    <3>2. pc[queue] = "idle" /\ UNCHANGED << currentState, stateMutex, sleepTime, hdi, task >>
      BY <1>2 DEF SleepTimerFires
    <3> QED BY <1>0, <2>1, <3>1, <3>2, BeginStep
  <2>3. TypeOK'
    BY <1>2, <2>2 DEF SleepTimerFires, TypeOK, HandleStates, hdi
  <2> QED BY <2>2, <2>3
<1>3. CASE TaskEnd
  <2>1. /\ pc' \in [Threads -> Labels] /\ call' \in [Threads -> Calls]
        /\ pc'[queue] = "idle" /\ call'[queue] = NoCall
        /\ \A o \in Threads : o # queue => pc'[o] = pc[o] /\ call'[o] = call[o]
    BY <1>0, <1>3, GoToFacts DEF TaskEnd, Labels
  <2>2. TypeOK'
    BY <1>3, <2>1 DEF TaskEnd, TypeOK, HandleStates, hdi
  <2>3. MutexInv' /\ AutoSuspendInv'
    <3>1. stateMutex # queue
      BY <1>0, <1>3 DEF TaskEnd, MutexInv
    <3> QED BY <1>0, <1>3, <2>1, <3>1, OutsideStep DEF TaskEnd, hdi
  <2>4. OpInv'
    BY <1>0, <2>1, OpKept
  <2>5. SleepTimeInv'
    <3>1. call'[queue].op = "none"
      BY <2>1 DEF NoCall
    <3>2. ASSUME sleepTime' PROVE SleepPending'
      <4>1. sleepTime /\ call[queue].op # "handleAction" /\ pc[queue] = "taskEnd"
        BY <1>3, <3>2 DEF TaskEnd, TypeOK
      <4>2. CASE handle = "armed" /\ task.op = "handleAction"
        BY <1>3, <4>2 DEF TaskEnd, SleepPending
      <4>3. CASE \E th \in Threads : pc[th] \in {"arm", "clearSleep"}
        BY <2>1, <4>1, <4>3 DEF SleepPending
      <4> QED BY <4>1, <4>2, <4>3 DEF SleepTimeInv, SleepPending
    <3> QED BY <3>1, <3>2 DEF SleepTimeInv
  <2> QED BY <2>2, <2>3, <2>4, <2>5
<1> QED BY <1>1, <1>2, <1>3

\* Stuttering.
LEMMA SleepStutter == ASSUME SleepInv, UNCHANGED vars PROVE SleepInv'
BY DEF vars, SleepInv, TypeOK, MutexInv, AutoSuspendInv, OpInv, SleepTimeInv, SleepPending, Target, Waking

\* The service starts AWAKE or INACTIVE, with nothing pending.
LEMMA SleepInit == Init => SleepInv
<1> SUFFICES ASSUME Init PROVE SleepInv
  OBVIOUS
<1>1. TypeOK
  BY NoCallType DEF Init, TypeOK, States, HandleStates, Tasks, SleepActions, Reasons, Labels
<1>2. MutexInv /\ AutoSuspendInv /\ OpInv /\ SleepTimeInv
  BY ThreadsAssumption
     DEF Init, MutexInv, AutoSuspendInv, OpInv, SleepTimeInv, SleepPending, Threads, NoCall, Waking
<1> QED BY <1>1, <1>2 DEF SleepInv

\* The inductive invariant holds in every reachable state.
THEOREM SleepTheorem == Spec => []SleepInv
<1>1. SleepInv /\ [Next]_vars => SleepInv'
  <2> SUFFICES ASSUME SleepInv, [Next]_vars PROVE SleepInv'
    OBVIOUS
  <2>1. ASSUME NEW th \in Threads, ThreadStep(th) PROVE SleepInv'
    BY <2>1, TimerSteps, SetStateSteps, OtherSteps DEF ThreadStep
  <2>2. ASSUME NEW c \in Clients, ClientCall(c) PROVE SleepInv'
    BY <2>2, CallSteps
  <2>3. CASE OffTimeout \/ SleepTimerFires \/ TaskEnd
    BY <2>3, QueueSteps
  <2>4. CASE UNCHANGED vars
    BY <2>4, SleepStutter
  <2> QED BY <2>1, <2>2, <2>3, <2>4 DEF Next
<1> QED BY <1>1, SleepInit, PTL DEF Spec

\* For any number of threads: an AWAKE device is never left in the HDI's automatic suspend, whatever
\* wake-ups overtake SetAutoSleep between its check of the state and its StartSuspend.
THEOREM NoAutoSuspendWhileAwake == Spec => []AwakeIsNotAutoSuspended
<1>1. SleepInv => AwakeIsNotAutoSuspended
  BY DEF SleepInv, AutoSuspendInv, AwakeIsNotAutoSuspended
<1> QED BY <1>1, SleepTheorem, PTL

\* For any number of threads: sleepTime_ is never left set without a sleep timer, so StartSleepTimer
\* cannot be turned away for ever.
THEOREM SleepTimeIsNotLeftBehind == Spec => []SleepTimeHasTimer
<1>1. SleepInv => SleepTimeHasTimer
  BY DEF SleepInv, SleepTimeInv, SleepPending, SleepTimeHasTimer, Quiet, Threads
<1> QED BY <1>1, SleepTheorem, PTL

==============================================================================
