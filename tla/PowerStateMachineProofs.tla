----------------------- MODULE PowerStateMachineProofs -----------------------
(* Proofs about PowerStateMachine for any set of clients, any choice of the operations they  *)
(* call and with a display that may or may not fail.                                        *)
EXTENDS PowerStateMachine, TLAPS

\* The record of an idle thread is a call.
LEMMA NoCallType == NoCall \in Calls
BY DEF NoCall, Calls, OpNames, States, Reasons

\* Calling SetState keeps pc and call in their types.
LEMMA CallSetStateType ==
    ASSUME TypeOK, NEW th \in Threads, NEW o \in OpNames, NEW s \in States, NEW r \in Reasons,
           NEW f \in BOOLEAN, CallSetState(th, o, s, r, f)
    PROVE  pc' \in [Threads -> Labels] /\ call' \in [Threads -> Calls]
BY DEF TypeOK, CallSetState, GoTo, Labels, Calls

\* Recording the result of SetState keeps call in its type.
LEMMA ResultType ==
    ASSUME TypeOK, NEW th \in Threads, NEW b \in BOOLEAN
    PROVE  [ call EXCEPT ![th].ok = b ] \in [Threads -> Calls]
BY DEF TypeOK, Calls

\* Beginning an operation keeps call in its type.
LEMMA BeginType ==
    ASSUME TypeOK, NEW th \in Threads, NEW o \in OpNames, NEW l \in Labels, Begin(th, o, l)
    PROVE  pc' \in [Threads -> Labels] /\ call' \in [Threads -> Calls]
BY NoCallType DEF TypeOK, Begin, GoTo, Calls

\* Returning from an operation keeps pc, call and the two service mutexes in their types.
LEMMA ReturnType ==
    ASSUME TypeOK, NEW th \in Threads, Return(th)
    PROVE  /\ pc' \in [Threads -> Labels] /\ call' \in [Threads -> Calls]
           /\ {screenMutex', lockMutex'} \subseteq Threads \cup {NoThread}
BY NoCallType DEF TypeOK, Return, GoTo, Labels

\* Every step keeps every variable in its type.
LEMMA TypeStep == TypeOK /\ [Next]_vars => TypeOK'
<1> SUFFICES ASSUME TypeOK, [Next]_vars PROVE TypeOK'
    OBVIOUS
<1> USE NoCallType DEF TypeOK, settings
<1>1. ASSUME NEW th \in Threads, ResetCas(th) PROVE TypeOK'
    BY <1>1 DEF ResetCas, GoTo, Labels, Flags
<1>2. ASSUME NEW th \in Threads, ResetCancel(th) PROVE TypeOK'
    BY <1>2 DEF ResetCancel, GoTo, Labels, CancelTimer, Timers, HandleStates
<1>3. ASSUME NEW th \in Threads, ResetArm(th) PROVE TypeOK'
    BY <1>3 DEF ResetArm, Return, GoTo, Labels, SetTimer, Timers, HandleStates
<1>4. ASSUME NEW th \in Threads, SetStateLock(th) PROVE TypeOK'
    BY <1>4 DEF SetStateLock, Return, GoTo, Labels, Calls, Flags
<1>5. ASSUME NEW th \in Threads, TransitCheck(th) PROVE TypeOK'
    BY <1>5 DEF TransitCheck, GoTo, Labels, Calls, MatchState, States
<1>6. ASSUME NEW th \in Threads, StateAction(th) PROVE TypeOK'
  <2>1. call' = call \/ call' = [ call EXCEPT ![th].ok = TRUE ]
    BY <1>6 DEF StateAction
  <2>2. pc' \in [Threads -> Labels]
    BY <1>6 DEF StateAction, GoTo, Labels
  <2>3. display' \in DisplayStates
    BY <1>6 DEF StateAction, DisplayOf, DisplayStates
  <2>4. QED
    BY <1>6, <2>1, <2>2, <2>3, ResultType DEF StateAction
<1>7. ASSUME NEW th \in Threads, ActionCancelTimers(th) PROVE TypeOK'
    BY <1>7 DEF ActionCancelTimers, GoTo, Labels, CancelTimer, Timers, HandleStates
<1>8. ASSUME NEW th \in Threads, DimArm(th) PROVE TypeOK'
    BY <1>8 DEF DimArm, GoTo, Labels, SetTimer, Timers, HandleStates
<1>9. ASSUME NEW th \in Threads, DimCheck(th) PROVE TypeOK'
  <2>1. call' = call \/ call' = [ call EXCEPT ![th].ok = FALSE ]
    BY <1>9 DEF DimCheck
  <2>2. pc' \in [Threads -> Labels]
    BY <1>9 DEF DimCheck, GoTo, Labels
  <2>3. display' \in DisplayStates
    BY <1>9 DEF DimCheck, DisplayStates
  <2>4. QED
    BY <1>9, <2>1, <2>2, <2>3, ResultType DEF DimCheck
<1>10. ASSUME NEW th \in Threads, Commit(th) PROVE TypeOK'
    BY <1>10 DEF Commit, GoTo, Labels, CancelTimer, Calls, Timers, HandleStates
<1>11. ASSUME NEW th \in Threads, SetStateExit(th) PROVE TypeOK'
    BY <1>11 DEF SetStateExit, Return, GoTo, Labels, Flags
<1>12. ASSUME NEW th \in Threads, StartSleepTimer(th) PROVE TypeOK'
    BY <1>12 DEF StartSleepTimer, Return, GoTo, Labels, SetTimer, Timers, HandleStates
<1>13. ASSUME NEW c \in Clients, RefreshActivity(c) PROVE TypeOK'
    BY <1>13 DEF RefreshActivity, Threads, Begin, GoTo, Labels, Calls, OpNames
<1>14. ASSUME NEW c \in Clients, EnterRefresh(c) PROVE TypeOK'
    BY <1>14 DEF EnterRefresh, Threads, Return, GoTo, Labels
<1>15. ASSUME NEW c \in Clients, RefreshBranch(c) PROVE TypeOK'
  <2>1. c \in Threads /\ call[c].op \in OpNames
    BY DEF Threads, Calls
  <2>2. CASE CallSetState(c, call[c].op, "AWAKE", "REFRESH", TRUE)
    <3>1. pc' \in [Threads -> Labels] /\ call' \in [Threads -> Calls]
      BY <2>1, <2>2, CallSetStateType DEF States, Reasons
    <3>2. QED
      BY <1>15, <3>1 DEF RefreshBranch
  <2>3. CASE GoTo(c, "cas") /\ UNCHANGED call
    BY <1>15, <2>1, <2>3 DEF RefreshBranch, GoTo, Labels
  <2>4. QED
    BY <1>15, <2>2, <2>3 DEF RefreshBranch
<1>16. ASSUME NEW c \in Clients, WakeupDevice(c) PROVE TypeOK'
    BY <1>16 DEF WakeupDevice, Threads, CallSetState, GoTo, Labels, Calls, OpNames, States, Reasons,
       CancelTimer, Timers, HandleStates
<1>17. ASSUME NEW c \in Clients, SuspendDevice(c) PROVE TypeOK'
    BY <1>17 DEF SuspendDevice, Threads, CallSetState, GoTo, Labels, Calls, OpNames, States, Reasons
<1>18. ASSUME NEW c \in Clients, NEW o \in {"screenLock", "screenUnlock"}, ScreenLockCall(c, o) PROVE TypeOK'
    BY <1>18 DEF ScreenLockCall, Threads, Begin, GoTo, Labels, Calls, OpNames
<1>19. ASSUME NEW c \in Clients, EnterLock(c) PROVE TypeOK'
    BY <1>19 DEF EnterLock, Threads, Return, GoTo, Labels
<1>20. ASSUME NEW c \in Clients, ResetIfAwake(c) PROVE TypeOK'
    BY <1>20 DEF ResetIfAwake, Threads, Return, GoTo, Labels
<1>21. ASSUME NEW c \in Clients, ForceTimingOutEffect(c) PROVE TypeOK'
  <2>1. c \in Threads
    BY DEF Threads
  <2>2. CASE GoTo(c, "cas") /\ stateMutex' = c /\ UNCHANGED << screenMutex, lockMutex, call >>
    BY <1>21, <2>1, <2>2 DEF ForceTimingOutEffect, GoTo, Labels
  <2>3. CASE /\ CallSetState(c, "forceOff", "AWAKE", "REFRESH", FALSE)
             /\ UNCHANGED << stateMutex, screenMutex, lockMutex >>
    <3>1. pc' \in [Threads -> Labels] /\ call' \in [Threads -> Calls]
      BY <2>1, <2>3, CallSetStateType DEF States, Reasons, OpNames
    <3>2. QED
      BY <1>21, <2>3, <3>1 DEF ForceTimingOutEffect
  <2>4. CASE Return(c) /\ UNCHANGED stateMutex
    BY <1>21, <2>1, <2>4, ReturnType DEF ForceTimingOutEffect
  <2>5. QED
    BY <1>21, <2>2, <2>3, <2>4 DEF ForceTimingOutEffect
<1>22. ASSUME NEW c \in Clients, NEW b \in BOOLEAN, SetDisplayOffTime(c, b) PROVE TypeOK'
    BY <1>22 DEF SetDisplayOffTime, Threads, Begin, GoTo, Labels, Calls, OpNames
<1>23. ASSUME NEW c \in Clients, NEW b \in BOOLEAN, SetForceTimingOut(c, b) PROVE TypeOK'
    BY <1>23 DEF SetForceTimingOut, Threads, Begin, GoTo, Labels, Calls, OpNames
<1>24. ASSUME NEW c \in Clients, NEW m \in LockScreenModes, LockScreenAfterTimingOut(c, m) PROVE TypeOK'
    BY <1>24 DEF LockScreenAfterTimingOut
<1>25. ASSUME NEW t \in Timers, Fire(t) PROVE TypeOK'
  <2>1. queue \in Threads
    BY DEF Threads
  <2>2. GetReasonBySuspendType(sleepReason) \in Reasons
    BY DEF GetReasonBySuspendType, Reasons
  <2>3. pc' \in [Threads -> Labels] /\ call' \in [Threads -> Calls]
    <3>1. CASE CallSetState(queue, "dimTask", "DIM", "TIMEOUT", FALSE)
      BY <2>1, <3>1, CallSetStateType DEF OpNames, States, Reasons
    <3>2. CASE Begin(queue, "offTask", "off")
      BY <2>1, <3>2, BeginType DEF OpNames, Labels
    <3>3. CASE CallSetState(queue, "sleepTask", "SLEEP", GetReasonBySuspendType(sleepReason), FALSE)
      BY <2>1, <2>2, <3>3, CallSetStateType DEF OpNames, States
    <3>4. QED
      BY <1>25, <3>1, <3>2, <3>3 DEF Fire
  <2>4. handle' \in [Timers -> HandleStates]
    BY <1>25 DEF Fire, HandleStates
  <2>5. QED
    BY <1>25, <2>3, <2>4 DEF Fire
<1>26. CASE OffTimeout
  <2>1. queue \in Threads /\ GetReasonBySuspendType("TIMEOUT") \in Reasons
    BY DEF Threads, GetReasonBySuspendType, Reasons
  <2>2. CASE /\ CallSetState(queue, "offTask", "INACTIVE", GetReasonBySuspendType("TIMEOUT"), FALSE)
             /\ UNCHANGED << screenMutex, lockMutex >>
    <3>1. pc' \in [Threads -> Labels] /\ call' \in [Threads -> Calls]
      BY <2>1, <2>2, CallSetStateType DEF OpNames, States
    <3>2. QED
      BY <1>26, <2>2, <3>1 DEF OffTimeout
  <2>3. CASE Return(queue)
    BY <1>26, <2>1, <2>3, ReturnType DEF OffTimeout
  <2>4. QED
    BY <1>26, <2>2, <2>3 DEF OffTimeout
<1>27. CASE TaskEnd
    BY <1>27 DEF TaskEnd, Threads, Labels, Timers, HandleStates
<1>28. CASE ThrottlePeriodEnds
    BY <1>28 DEF ThrottlePeriodEnds
<1>29. CASE UNCHANGED vars
    BY <1>29 DEF vars
<1>30. QED
    BY <1>1, <1>2, <1>3, <1>4, <1>5, <1>6, <1>7, <1>8, <1>9, <1>10, <1>11, <1>12, <1>13, <1>14,
       <1>15, <1>16, <1>17, <1>18, <1>19, <1>20, <1>21, <1>22, <1>23, <1>24, <1>25, <1>26, <1>27,
       <1>28, <1>29 DEF Next, ThreadStep, ClientStep, ClientCall, QueueStep

\* A time-out enters DIM from AWAKE only (allowMapByReason_).
LEMMA DimFromAwake ==
    ASSUME NEW s \in States, CanTransitTo(s, "DIM", "TIMEOUT") PROVE s = "AWAKE"
BY DEF CanTransitTo, allowMapByReason_, forbidMap_, States

\* SLEEP is entered from INACTIVE only: forbidMap_ has the other two states.
LEMMA SleepFromInactive ==
    ASSUME NEW s \in States, NEW r \in Reasons, CanTransitTo(s, "SLEEP", r)
    PROVE  s \in {"INACTIVE", "SLEEP"}
BY DEF CanTransitTo, forbidMap_, States

\* MatchState corrects nothing when state and display agree.
LEMMA MatchStateKeeps ==
    ASSUME TypeOK, Consistent, NEW s \in States PROVE MatchState(currentState, s, display) = currentState
BY DEF TypeOK, Consistent, MatchState, States, DisplayStates

\* The display a state asks for agrees with that state.
LEMMA DisplayOfState ==
    /\ DisplayOf("AWAKE") = "ON" /\ DisplayOf("DIM") = "DIM"
    /\ DisplayOf("INACTIVE") = "OFF" /\ DisplayOf("SLEEP") = "OFF"
BY DEF DisplayOf

\* Every step keeps the inductive invariant: one case per action, one step per conjunct.
LEMMA SafetyStep == SafetyInv /\ [Next]_vars => SafetyInv'
<1> SUFFICES ASSUME SafetyInv, [Next]_vars PROVE SafetyInv'
    OBVIOUS
<1>a. TypeOK /\ TypeOK'
    BY TypeStep DEF SafetyInv
<1>b. queue \in Threads /\ NoThread \notin Threads /\ Clients \subseteq Threads /\ queue \notin Clients
    BY ThreadsAssumption DEF Threads
<1> USE <1>b DEF settings
<1>1. ASSUME NEW th \in Threads, ResetCas(th) PROVE SafetyInv'
  <2>1. MutexInv'
    BY <1>1, <1>a DEF TypeOK, SafetyInv, MutexInv, InSetState, InReset, ResetCas, GoTo
  <2>2. CallInv'
    BY <1>1, <1>a DEF TypeOK, SafetyInv, CallInv, InSetState, ResetCas, GoTo
  <2>3. PhaseInv'
    BY <1>1, <1>a DEF TypeOK, SafetyInv, MutexInv, CallInv, PhaseInv, Phase, Consistent, SettingDim,
       Allowed, InSetState, InReset, ResetCas, GoTo
  <2>4. OvertakenInv'
    BY <1>1, <1>a DEF TypeOK, SafetyInv, OvertakenInv, ResetCas, GoTo
  <2>5. QED
    BY <1>a, <2>1, <2>2, <2>3, <2>4 DEF SafetyInv
<1>2. ASSUME NEW th \in Threads, ResetCancel(th) PROVE SafetyInv'
  <2>1. MutexInv'
    BY <1>2, <1>a DEF TypeOK, SafetyInv, MutexInv, InSetState, InReset, ResetCancel, GoTo,
       CancelTimer, Timers
  <2>2. CallInv'
    BY <1>2, <1>a DEF TypeOK, SafetyInv, CallInv, InSetState, ResetCancel, GoTo, CancelTimer, Timers
  <2>3. PhaseInv'
    BY <1>2, <1>a DEF TypeOK, SafetyInv, MutexInv, CallInv, PhaseInv, Phase, Consistent, SettingDim,
       Allowed, InSetState, InReset, ResetCancel, GoTo, CancelTimer, Timers
  <2>4. OvertakenInv'
    BY <1>2, <1>a DEF TypeOK, SafetyInv, OvertakenInv, ResetCancel, GoTo, CancelTimer, Timers
  <2>5. QED
    BY <1>a, <2>1, <2>2, <2>3, <2>4 DEF SafetyInv
<1>3. ASSUME NEW th \in Threads, ResetArm(th) PROVE SafetyInv'
  <2>1. MutexInv'
    BY <1>3, <1>a DEF TypeOK, SafetyInv, MutexInv, InSetState, InReset, ResetArm, Return, GoTo,
       SetTimer, Timers
  <2>2. CallInv'
    BY <1>3, <1>a DEF TypeOK, SafetyInv, CallInv, InSetState, InReset, MutexInv, PhaseInv, Phase,
       ResetArm, Return, GoTo, NoCall
  <2>3. PhaseInv'
    BY <1>3, <1>a, DisplayOfState DEF TypeOK, SafetyInv, MutexInv, CallInv, PhaseInv, Phase,
       Consistent, SettingDim, Allowed, InSetState, InReset, ResetArm, Return, GoTo
  <2>4. OvertakenInv'
    BY <1>3, <1>a DEF TypeOK, SafetyInv, OvertakenInv, ResetArm, Return, GoTo, SetTimer, Timers
  <2>5. QED
    BY <1>a, <2>1, <2>2, <2>3, <2>4 DEF SafetyInv
<1>4. ASSUME NEW th \in Threads, SetStateLock(th) PROVE SafetyInv'
  <2>1. MutexInv'
    BY <1>4, <1>a DEF TypeOK, SafetyInv, MutexInv, InSetState, InReset, SetStateLock, Return, GoTo
  <2>2. CallInv'
    BY <1>4, <1>a DEF TypeOK, SafetyInv, CallInv, InSetState, InReset, MutexInv, PhaseInv, Phase,
       SetStateLock, Return, GoTo, NoCall
  <2>3. PhaseInv'
    BY <1>4, <1>a DEF TypeOK, SafetyInv, MutexInv, CallInv, PhaseInv, Phase, Consistent, SettingDim,
       Allowed, InSetState, InReset, SetStateLock, Return, GoTo
  <2>4. OvertakenInv'
    BY <1>4, <1>a DEF TypeOK, SafetyInv, OvertakenInv, SetStateLock, Return, GoTo,
       CheckFFRTTaskAvailability,
                   CurrentTaskHasHandle, TimerOf, IsTimeoutReason
  <2>5. QED
    BY <1>a, <2>1, <2>2, <2>3, <2>4 DEF SafetyInv
<1>5. ASSUME NEW th \in Threads, TransitCheck(th) PROVE SafetyInv'
  <2>1. MutexInv'
    BY <1>5, <1>a DEF TypeOK, SafetyInv, MutexInv, InSetState, InReset, TransitCheck, GoTo
  <2>2. CallInv'
    BY <1>5, <1>a DEF TypeOK, SafetyInv, CallInv, InSetState, TransitCheck, GoTo
  <2>3. PhaseInv'
    <3>1. stateMutex = th /\ Consistent /\ call[th].state \in States
      BY <1>5, <1>a DEF TypeOK, SafetyInv, MutexInv, PhaseInv, Phase, TransitCheck, InSetState,
         Calls
    <3>2. MatchState(currentState, call[th].state, display) = currentState
      BY <1>a, <3>1, MatchStateKeeps
    <3>3. /\ stateMutex' = th /\ currentState' = currentState /\ display' = display
          /\ call'[th].state = call[th].state /\ call'[th].reason = call[th].reason
      BY <1>5, <1>a, <3>1, <3>2 DEF TypeOK, TransitCheck, Calls
    <3>4. CASE pc' = [ pc EXCEPT ![th] = "exit" ]
      BY <1>a, <1>b, <3>1, <3>3, <3>4 DEF TypeOK, PhaseInv, Phase, Consistent, InReset
    <3>5. CASE /\ pc' = [ pc EXCEPT ![th] = "act" ]
               /\ call' = [ call EXCEPT ![th].ok = FALSE ]
               /\ CheckState(currentState, call[th].state) /\ Allowed(th)
      <4>1. ~call'[th].ok
        BY <1>a, <3>5 DEF TypeOK, Calls
      <4>2. QED
        BY <1>a, <1>b, <3>1, <3>3, <3>5, <4>1 DEF TypeOK, PhaseInv, Phase, Consistent, Allowed,
           InReset
    <3>6. QED
      BY <1>5, <3>2, <3>4, <3>5 DEF TransitCheck, GoTo, Allowed, CheckState
  <2>4. OvertakenInv'
    BY <1>5, <1>a DEF TypeOK, SafetyInv, OvertakenInv, TransitCheck, GoTo
  <2>5. QED
    BY <1>a, <2>1, <2>2, <2>3, <2>4 DEF SafetyInv
<1>6. ASSUME NEW th \in Threads, StateAction(th) PROVE SafetyInv'
  <2>1. MutexInv'
    BY <1>6, <1>a DEF TypeOK, SafetyInv, MutexInv, InSetState, InReset, StateAction, GoTo
  <2>2. CallInv'
    BY <1>6, <1>a DEF TypeOK, SafetyInv, CallInv, InSetState, StateAction, GoTo, Calls
  <2>3. PhaseInv'
    <3> DEFINE s == call[th].state
    <3>1. /\ stateMutex = th /\ Consistent /\ Allowed(th) /\ CheckState(currentState, s)
          /\ ~call[th].ok /\ call[th].op # "forceOn" /\ (s = "DIM" => call[th].reason = "TIMEOUT")
          /\ s \in States /\ call[th].reason \in Reasons /\ currentState \in States
      BY <1>6, <1>a DEF TypeOK, SafetyInv, MutexInv, CallInv, PhaseInv, Phase, StateAction,
         InSetState, Calls
    <3>2. s = "DIM" => currentState = "AWAKE"
      BY <3>1, DimFromAwake DEF Allowed
    <3>3. s = "SLEEP" => currentState = "INACTIVE"
      BY <3>1, SleepFromInactive DEF Allowed, CheckState
    <3>4. /\ stateMutex' = th /\ currentState' = currentState
          /\ call'[th].state = s /\ call'[th].op = call[th].op /\ call'[th].reason = call[th].reason
      BY <1>6, <1>a, <3>1 DEF StateAction, TypeOK, Calls
    <3>5. Phase(th)'
      <4>1. CASE pc' = [ pc EXCEPT ![th] = "exit" ] /\ UNCHANGED display
        BY <1>a, <3>1, <3>4, <4>1 DEF TypeOK, Phase, Consistent, InReset
      <4>2. CASE s = "SLEEP" /\ pc' = [ pc EXCEPT ![th] = "commit" ] /\ UNCHANGED display
        BY <1>a, <3>1, <3>3, <3>4, <4>2, DisplayOfState DEF TypeOK, Phase, Consistent, Allowed,
           InReset
      <4>3. CASE s = "AWAKE" /\ pc' = [ pc EXCEPT ![th] = "cas" ] /\ display' = "ON"
        BY <1>a, <3>1, <3>4, <4>3 DEF TypeOK, Phase, Allowed, InReset
      <4>4. CASE s = "INACTIVE" /\ pc' = [ pc EXCEPT ![th] = "cancelTimers" ] /\ display' = "OFF"
        BY <1>a, <3>1, <3>4, <4>4 DEF TypeOK, Phase, Allowed, InReset
      <4>5. CASE /\ s = "DIM" /\ pc' = [ pc EXCEPT ![th] = "cancelTimers" ]
                 /\ \/ display' = "DIM" 
                    \/ UNCHANGED << display, call >> /\ ~call[th].ok
        BY <1>a, <3>1, <3>2, <3>4, <4>5 DEF TypeOK, Phase, Consistent, SettingDim, Allowed, InReset
      <4>6. QED
        BY <1>6, <3>1, <3>2, <3>3, <4>1, <4>2, <4>3, <4>4, <4>5, DisplayOfState DEF StateAction,
           GoTo, States
    <3>6. QED
      BY <1>b, <3>4, <3>5 DEF PhaseInv
  <2>4. OvertakenInv'
    BY <1>6, <1>a DEF TypeOK, SafetyInv, OvertakenInv, StateAction, GoTo
  <2>5. QED
    BY <1>a, <2>1, <2>2, <2>3, <2>4 DEF SafetyInv
<1>7. ASSUME NEW th \in Threads, ActionCancelTimers(th) PROVE SafetyInv'
  <2>1. MutexInv'
    BY <1>7, <1>a DEF TypeOK, SafetyInv, MutexInv, InSetState, InReset, ActionCancelTimers, GoTo,
       CancelTimer, Timers
  <2>2. CallInv'
    BY <1>7, <1>a DEF TypeOK, SafetyInv, CallInv, InSetState, ActionCancelTimers, GoTo, CancelTimer,
       Timers
  <2>3. PhaseInv'
    BY <1>7, <1>a, DisplayOfState DEF TypeOK, SafetyInv, MutexInv, CallInv, PhaseInv, Phase,
       Consistent, SettingDim, Allowed, InSetState, InReset, ActionCancelTimers, GoTo
  <2>4. OvertakenInv'
    BY <1>7, <1>a DEF TypeOK, SafetyInv, OvertakenInv, ActionCancelTimers, GoTo, CancelTimer, Timers
  <2>5. QED
    BY <1>a, <2>1, <2>2, <2>3, <2>4 DEF SafetyInv
<1>8. ASSUME NEW th \in Threads, DimArm(th) PROVE SafetyInv'
  <2>1. MutexInv'
    BY <1>8, <1>a DEF TypeOK, SafetyInv, MutexInv, InSetState, InReset, DimArm, GoTo, SetTimer,
       Timers
  <2>2. CallInv'
    BY <1>8, <1>a DEF TypeOK, SafetyInv, CallInv, InSetState, DimArm, GoTo, SetTimer, Timers
  <2>3. PhaseInv'
    BY <1>8, <1>a DEF TypeOK, SafetyInv, MutexInv, CallInv, PhaseInv, Phase, Consistent, SettingDim,
       Allowed, InSetState, InReset, DimArm, GoTo, SetTimer, Timers
  <2>4. OvertakenInv'
    BY <1>8, <1>a DEF TypeOK, SafetyInv, OvertakenInv, DimArm, GoTo, SetTimer, Timers
  <2>5. QED
    BY <1>a, <2>1, <2>2, <2>3, <2>4 DEF SafetyInv
<1>9. ASSUME NEW th \in Threads, DimCheck(th) PROVE SafetyInv'
  <2>1. MutexInv'
    BY <1>9, <1>a DEF TypeOK, SafetyInv, MutexInv, InSetState, InReset, DimCheck, GoTo
  <2>2. CallInv'
    BY <1>9, <1>a DEF TypeOK, SafetyInv, CallInv, InSetState, DimCheck, GoTo, Calls
  <2>3. PhaseInv'
    <3>1. stateMutex = th /\ SettingDim(th) /\ Allowed(th) /\ call[th].op # "forceOn"
      BY <1>9, <1>a DEF TypeOK, SafetyInv, MutexInv, CallInv, PhaseInv, Phase, DimCheck, InSetState
    <3>2. /\ stateMutex' = th /\ currentState' = currentState
          /\ call'[th].state = call[th].state /\ call'[th].op = call[th].op
          /\ call'[th].reason = call[th].reason
      BY <1>9, <1>a, <3>1 DEF DimCheck, TypeOK, Calls
    <3>3. CASE /\ pc' = [ pc EXCEPT ![th] = "cas" ] /\ display' \in {"ON", display}
               /\ call' = [ call EXCEPT ![th].ok = FALSE ]
      <4>1. ~call'[th].ok
        BY <1>a, <3>3 DEF TypeOK, Calls
      <4>2. QED
        BY <1>a, <1>b, <3>1, <3>2, <3>3, <4>1 DEF TypeOK, PhaseInv, Phase, SettingDim, InReset
    <3>4. CASE /\ pc' = [ pc EXCEPT ![th] = IF call[th].ok THEN "commit" ELSE "exit" ]
               /\ UNCHANGED << display, call >>
      BY <1>a, <1>b, <3>1, <3>2, <3>4, DisplayOfState
      DEF TypeOK, PhaseInv, Phase, SettingDim, Allowed, Consistent, InReset
    <3>5. QED
      BY <1>9, <3>3, <3>4 DEF DimCheck, GoTo
  <2>4. OvertakenInv'
    BY <1>9, <1>a DEF TypeOK, SafetyInv, OvertakenInv, DimCheck, GoTo
  <2>5. QED
    BY <1>a, <2>1, <2>2, <2>3, <2>4 DEF SafetyInv
<1>10. ASSUME NEW th \in Threads, Commit(th) PROVE SafetyInv'
  <2>1. MutexInv'
    BY <1>10, <1>a DEF TypeOK, SafetyInv, MutexInv, InSetState, InReset, Commit, GoTo, CancelTimer,
       Timers
  <2>2. CallInv'
    BY <1>10, <1>a DEF TypeOK, SafetyInv, CallInv, InSetState, Commit, GoTo, CancelTimer, Timers
  <2>3. PhaseInv'
    BY <1>10, <1>a, DisplayOfState DEF TypeOK, SafetyInv, MutexInv, CallInv, PhaseInv, Phase,
       Consistent, SettingDim, Allowed, InSetState, InReset, Commit, GoTo, States, Calls
  <2>4. OvertakenInv'
    BY <1>10, <1>a DEF TypeOK, SafetyInv, OvertakenInv, Commit, GoTo, CancelTimer, Timers
  <2>5. QED
    BY <1>a, <2>1, <2>2, <2>3, <2>4 DEF SafetyInv
<1>11. ASSUME NEW th \in Threads, SetStateExit(th) PROVE SafetyInv'
  <2>1. MutexInv'
    BY <1>11, <1>a DEF TypeOK, SafetyInv, MutexInv, InSetState, InReset, SetStateExit, Return, GoTo
  <2>2. CallInv'
    BY <1>11, <1>a DEF TypeOK, SafetyInv, CallInv, InSetState, InReset, MutexInv, PhaseInv, Phase,
       SetStateExit, Return, GoTo, NoCall
  <2>3. PhaseInv'
    BY <1>11, <1>a DEF TypeOK, SafetyInv, MutexInv, CallInv, PhaseInv, Phase, Consistent,
       SettingDim, Allowed, InSetState, InReset, SetStateExit, Return, GoTo
  <2>4. OvertakenInv'
    BY <1>11, <1>a DEF TypeOK, SafetyInv, OvertakenInv, SetStateExit, Return, GoTo
  <2>5. QED
    BY <1>a, <2>1, <2>2, <2>3, <2>4 DEF SafetyInv
<1>12. ASSUME NEW th \in Threads, StartSleepTimer(th) PROVE SafetyInv'
  <2>1. MutexInv'
    BY <1>12, <1>a DEF TypeOK, SafetyInv, MutexInv, InSetState, InReset, StartSleepTimer, Return,
       GoTo, SetTimer, Timers
  <2>2. CallInv'
    BY <1>12, <1>a DEF TypeOK, SafetyInv, CallInv, InSetState, InReset, MutexInv, PhaseInv, Phase,
       StartSleepTimer, Return, GoTo, NoCall
  <2>3. PhaseInv'
    BY <1>12, <1>a DEF TypeOK, SafetyInv, MutexInv, CallInv, PhaseInv, Phase, Consistent,
       SettingDim, Allowed, InSetState, InReset, StartSleepTimer, Return, GoTo, SetTimer, Timers
  <2>4. OvertakenInv'
    BY <1>12, <1>a DEF TypeOK, SafetyInv, OvertakenInv, StartSleepTimer, Return, GoTo, SetTimer,
       Timers
  <2>5. QED
    BY <1>a, <2>1, <2>2, <2>3, <2>4 DEF SafetyInv
<1>13. ASSUME NEW c \in Clients, RefreshActivity(c) PROVE SafetyInv'
  <2>1. MutexInv'
    BY <1>13, <1>a DEF TypeOK, SafetyInv, MutexInv, InSetState, InReset, RefreshActivity, Begin,
       GoTo, NoCall
  <2>2. CallInv'
    BY <1>13, <1>a DEF TypeOK, SafetyInv, CallInv, InSetState, RefreshActivity, Begin, GoTo, NoCall
  <2>3. PhaseInv'
    BY <1>13, <1>a DEF TypeOK, SafetyInv, MutexInv, CallInv, PhaseInv, Phase, Consistent,
       SettingDim, Allowed, InSetState, InReset, RefreshActivity, Begin, GoTo, NoCall
  <2>4. OvertakenInv'
    BY <1>13, <1>a DEF TypeOK, SafetyInv, OvertakenInv, RefreshActivity, Begin, GoTo, NoCall
  <2>5. QED
    BY <1>a, <2>1, <2>2, <2>3, <2>4 DEF SafetyInv
<1>14. ASSUME NEW c \in Clients, EnterRefresh(c) PROVE SafetyInv'
  <2>1. MutexInv'
    BY <1>14, <1>a DEF TypeOK, SafetyInv, MutexInv, InSetState, InReset, EnterRefresh, Return, GoTo
  <2>2. CallInv'
    BY <1>14, <1>a DEF TypeOK, SafetyInv, CallInv, InSetState, InReset, MutexInv, PhaseInv, Phase,
       EnterRefresh, Return, GoTo, NoCall
  <2>3. PhaseInv'
    BY <1>14, <1>a DEF TypeOK, SafetyInv, MutexInv, CallInv, PhaseInv, Phase, Consistent,
       SettingDim, Allowed, InSetState, InReset, EnterRefresh, Return, GoTo
  <2>4. OvertakenInv'
    BY <1>14, <1>a DEF TypeOK, SafetyInv, OvertakenInv, EnterRefresh, Return, GoTo
  <2>5. QED
    BY <1>a, <2>1, <2>2, <2>3, <2>4 DEF SafetyInv
<1>15. ASSUME NEW c \in Clients, RefreshBranch(c) PROVE SafetyInv'
  <2>1. MutexInv'
    BY <1>15, <1>a DEF TypeOK, SafetyInv, MutexInv, InSetState, InReset, RefreshBranch,
       CallSetState, GoTo
  <2>2. CallInv'
    BY <1>15, <1>a DEF TypeOK, SafetyInv, CallInv, InSetState, RefreshBranch, CallSetState, GoTo
  <2>3. PhaseInv'
    BY <1>15, <1>a DEF TypeOK, SafetyInv, MutexInv, CallInv, PhaseInv, Phase, Consistent,
       SettingDim, Allowed, InSetState, InReset, RefreshBranch, CallSetState, GoTo
  <2>4. OvertakenInv'
    BY <1>15, <1>a DEF TypeOK, SafetyInv, OvertakenInv, RefreshBranch, CallSetState, GoTo
  <2>5. QED
    BY <1>a, <2>1, <2>2, <2>3, <2>4 DEF SafetyInv
<1>16. ASSUME NEW c \in Clients, WakeupDevice(c) PROVE SafetyInv'
  <2>1. MutexInv'
    BY <1>16, <1>a DEF TypeOK, SafetyInv, MutexInv, InSetState, InReset, WakeupDevice, CallSetState,
       GoTo, CancelTimer, Timers
  <2>2. CallInv'
    BY <1>16, <1>a DEF TypeOK, SafetyInv, CallInv, InSetState, WakeupDevice, CallSetState, GoTo,
       CancelTimer, Timers
  <2>3. PhaseInv'
    BY <1>16, <1>a DEF TypeOK, SafetyInv, MutexInv, CallInv, PhaseInv, Phase, Consistent,
       SettingDim, Allowed, InSetState, InReset, WakeupDevice, CallSetState, GoTo, CancelTimer,
       Timers
  <2>4. OvertakenInv'
    BY <1>16, <1>a DEF TypeOK, SafetyInv, OvertakenInv, WakeupDevice, CallSetState, GoTo,
       CancelTimer, Timers
  <2>5. QED
    BY <1>a, <2>1, <2>2, <2>3, <2>4 DEF SafetyInv
<1>17. ASSUME NEW c \in Clients, SuspendDevice(c) PROVE SafetyInv'
  <2>1. MutexInv'
    BY <1>17, <1>a DEF TypeOK, SafetyInv, MutexInv, InSetState, InReset, SuspendDevice,
       CallSetState, GoTo
  <2>2. CallInv'
    BY <1>17, <1>a DEF TypeOK, SafetyInv, CallInv, InSetState, SuspendDevice, CallSetState, GoTo
  <2>3. PhaseInv'
    BY <1>17, <1>a DEF TypeOK, SafetyInv, MutexInv, CallInv, PhaseInv, Phase, Consistent,
       SettingDim, Allowed, InSetState, InReset, SuspendDevice, CallSetState, GoTo
  <2>4. OvertakenInv'
    BY <1>17, <1>a DEF TypeOK, SafetyInv, OvertakenInv, SuspendDevice, CallSetState, GoTo
  <2>5. QED
    BY <1>a, <2>1, <2>2, <2>3, <2>4 DEF SafetyInv
<1>18. ASSUME NEW c \in Clients, NEW o \in {"screenLock", "screenUnlock"}, ScreenLockCall(c, o) PROVE SafetyInv'
  <2>1. MutexInv'
    BY <1>18, <1>a DEF TypeOK, SafetyInv, MutexInv, InSetState, InReset, ScreenLockCall, Begin,
       GoTo, NoCall
  <2>2. CallInv'
    BY <1>18, <1>a DEF TypeOK, SafetyInv, CallInv, InSetState, ScreenLockCall, Begin, GoTo, NoCall
  <2>3. PhaseInv'
    BY <1>18, <1>a DEF TypeOK, SafetyInv, MutexInv, CallInv, PhaseInv, Phase, Consistent,
       SettingDim, Allowed, InSetState, InReset, ScreenLockCall, Begin, GoTo, NoCall
  <2>4. OvertakenInv'
    BY <1>18, <1>a DEF TypeOK, SafetyInv, OvertakenInv, ScreenLockCall, Begin, GoTo, NoCall
  <2>5. QED
    BY <1>a, <2>1, <2>2, <2>3, <2>4 DEF SafetyInv
<1>19. ASSUME NEW c \in Clients, EnterLock(c) PROVE SafetyInv'
  <2>1. MutexInv'
    BY <1>19, <1>a DEF TypeOK, SafetyInv, MutexInv, InSetState, InReset, EnterLock, Return, GoTo,
       NoCall
  <2>2. CallInv'
    BY <1>19, <1>a DEF TypeOK, SafetyInv, CallInv, InSetState, EnterLock, Return, GoTo, NoCall
  <2>3. PhaseInv'
    BY <1>19, <1>a DEF TypeOK, SafetyInv, MutexInv, CallInv, PhaseInv, Phase, Consistent,
       SettingDim, Allowed, InSetState, InReset, EnterLock, Return, GoTo, NoCall
  <2>4. OvertakenInv'
    BY <1>19, <1>a DEF TypeOK, SafetyInv, OvertakenInv, EnterLock, Return, GoTo, NoCall
  <2>5. QED
    BY <1>a, <2>1, <2>2, <2>3, <2>4 DEF SafetyInv
<1>20. ASSUME NEW c \in Clients, ResetIfAwake(c) PROVE SafetyInv'
  <2>1. MutexInv'
    BY <1>20, <1>a DEF TypeOK, SafetyInv, MutexInv, InSetState, InReset, ResetIfAwake, Return, GoTo
  <2>2. CallInv'
    BY <1>20, <1>a DEF TypeOK, SafetyInv, CallInv, InSetState, InReset, MutexInv, PhaseInv, Phase,
       ResetIfAwake, Return, GoTo, NoCall
  <2>3. PhaseInv'
    BY <1>20, <1>a DEF TypeOK, SafetyInv, MutexInv, CallInv, PhaseInv, Phase, Consistent,
       SettingDim, Allowed, InSetState, InReset, ResetIfAwake, Return, GoTo
  <2>4. OvertakenInv'
    BY <1>20, <1>a DEF TypeOK, SafetyInv, OvertakenInv, ResetIfAwake, Return, GoTo
  <2>5. QED
    BY <1>a, <2>1, <2>2, <2>3, <2>4 DEF SafetyInv
<1>21. ASSUME NEW c \in Clients, ForceTimingOutEffect(c) PROVE SafetyInv'
  <2>1. MutexInv'
    BY <1>21, <1>a DEF TypeOK, SafetyInv, MutexInv, InSetState, InReset, ForceTimingOutEffect,
       CallSetState, GoTo, Return
  <2>2. CallInv'
    BY <1>21, <1>a DEF TypeOK, SafetyInv, CallInv, InSetState, InReset, MutexInv, PhaseInv, Phase,
       ForceTimingOutEffect, Return, GoTo, NoCall, CallSetState
  <2>3. PhaseInv'
    BY <1>21, <1>a DEF TypeOK, SafetyInv, MutexInv, CallInv, PhaseInv, Phase, Consistent,
       SettingDim, Allowed, InSetState, InReset, ForceTimingOutEffect, CallSetState, GoTo, Return
  <2>4. OvertakenInv'
    BY <1>21, <1>a DEF TypeOK, SafetyInv, OvertakenInv, ForceTimingOutEffect, CallSetState, GoTo,
       Return
  <2>5. QED
    BY <1>a, <2>1, <2>2, <2>3, <2>4 DEF SafetyInv
<1>22. ASSUME NEW c \in Clients, NEW b \in BOOLEAN, SetDisplayOffTime(c, b) PROVE SafetyInv'
  <2>1. MutexInv'
    BY <1>22, <1>a DEF TypeOK, SafetyInv, MutexInv, InSetState, InReset, SetDisplayOffTime, Begin,
       GoTo, NoCall
  <2>2. CallInv'
    BY <1>22, <1>a DEF TypeOK, SafetyInv, CallInv, InSetState, SetDisplayOffTime, Begin, GoTo,
       NoCall
  <2>3. PhaseInv'
    BY <1>22, <1>a DEF TypeOK, SafetyInv, MutexInv, CallInv, PhaseInv, Phase, Consistent,
       SettingDim, Allowed, InSetState, InReset, SetDisplayOffTime, Begin, GoTo, NoCall
  <2>4. OvertakenInv'
    BY <1>22, <1>a DEF TypeOK, SafetyInv, OvertakenInv, SetDisplayOffTime, Begin, GoTo, NoCall
  <2>5. QED
    BY <1>a, <2>1, <2>2, <2>3, <2>4 DEF SafetyInv
<1>23. ASSUME NEW c \in Clients, NEW b \in BOOLEAN, SetForceTimingOut(c, b) PROVE SafetyInv'
  <2>1. MutexInv'
    BY <1>23, <1>a DEF TypeOK, SafetyInv, MutexInv, InSetState, InReset, SetForceTimingOut, Begin,
       GoTo, NoCall
  <2>2. CallInv'
    BY <1>23, <1>a DEF TypeOK, SafetyInv, CallInv, InSetState, SetForceTimingOut, Begin, GoTo,
       NoCall
  <2>3. PhaseInv'
    BY <1>23, <1>a DEF TypeOK, SafetyInv, MutexInv, CallInv, PhaseInv, Phase, Consistent,
       SettingDim, Allowed, InSetState, InReset, SetForceTimingOut, Begin, GoTo, NoCall
  <2>4. OvertakenInv'
    BY <1>23, <1>a DEF TypeOK, SafetyInv, OvertakenInv, SetForceTimingOut, Begin, GoTo, NoCall
  <2>5. QED
    BY <1>a, <2>1, <2>2, <2>3, <2>4 DEF SafetyInv
<1>24. ASSUME NEW c \in Clients, NEW m \in LockScreenModes, LockScreenAfterTimingOut(c, m) PROVE SafetyInv'
  <2>1. MutexInv'
    BY <1>24, <1>a DEF TypeOK, SafetyInv, MutexInv, InSetState, InReset, LockScreenAfterTimingOut
  <2>2. CallInv'
    BY <1>24, <1>a DEF TypeOK, SafetyInv, CallInv, InSetState, LockScreenAfterTimingOut
  <2>3. PhaseInv'
    BY <1>24, <1>a DEF TypeOK, SafetyInv, MutexInv, CallInv, PhaseInv, Phase, Consistent,
       SettingDim, Allowed, InSetState, InReset, LockScreenAfterTimingOut
  <2>4. OvertakenInv'
    BY <1>24, <1>a DEF TypeOK, SafetyInv, OvertakenInv, LockScreenAfterTimingOut
  <2>5. QED
    BY <1>a, <2>1, <2>2, <2>3, <2>4 DEF SafetyInv
<1>25. ASSUME NEW t \in Timers, Fire(t) PROVE SafetyInv'
  <2>1. MutexInv'
    BY <1>25, <1>a DEF TypeOK, SafetyInv, MutexInv, InSetState, InReset, Fire, Begin, GoTo, NoCall,
       CallSetState, GetReasonBySuspendType, Timers, IsTimeoutReason
  <2>2. CallInv'
    BY <1>25, <1>a DEF TypeOK, SafetyInv, CallInv, InSetState, Fire, Begin, GoTo, NoCall,
       CallSetState, GetReasonBySuspendType, Timers, IsTimeoutReason
  <2>3. PhaseInv'
    BY <1>25, <1>a DEF TypeOK, SafetyInv, MutexInv, CallInv, PhaseInv, Phase, Consistent,
       SettingDim, Allowed, InSetState, InReset, Fire, Begin, GoTo, NoCall, CallSetState,
       GetReasonBySuspendType, Timers, IsTimeoutReason
  <2>4. OvertakenInv'
    BY <1>25, <1>a DEF TypeOK, SafetyInv, OvertakenInv, Fire, Begin, GoTo, NoCall, CallSetState,
       GetReasonBySuspendType, Timers, IsTimeoutReason
  <2>5. QED
    BY <1>a, <2>1, <2>2, <2>3, <2>4 DEF SafetyInv
<1>26. CASE OffTimeout
  <2>1. MutexInv'
    BY <1>26, <1>a DEF TypeOK, SafetyInv, MutexInv, InSetState, InReset, OffTimeout, Return, GoTo,
       CallSetState, GetReasonBySuspendType, IsTimeoutReason
  <2>2. CallInv'
    BY <1>26, <1>a DEF TypeOK, SafetyInv, CallInv, InSetState, OffTimeout, Return, GoTo,
       CallSetState, GetReasonBySuspendType, IsTimeoutReason
  <2>3. PhaseInv'
    BY <1>26, <1>a DEF TypeOK, SafetyInv, MutexInv, CallInv, PhaseInv, Phase, Consistent,
       SettingDim, Allowed, InSetState, InReset, OffTimeout, Return, GoTo, CallSetState,
       GetReasonBySuspendType, IsTimeoutReason
  <2>4. OvertakenInv'
    BY <1>26, <1>a DEF TypeOK, SafetyInv, OvertakenInv, OffTimeout, Return, GoTo, CallSetState,
       GetReasonBySuspendType, IsTimeoutReason
  <2>5. QED
    BY <1>a, <2>1, <2>2, <2>3, <2>4 DEF SafetyInv
<1>27. CASE TaskEnd
  <2>1. MutexInv'
    BY <1>27, <1>a DEF TypeOK, SafetyInv, MutexInv, InSetState, InReset, TaskEnd, NoCall, Timers
  <2>2. CallInv'
    BY <1>27, <1>a DEF TypeOK, SafetyInv, CallInv, InSetState, TaskEnd, NoCall, Timers
  <2>3. PhaseInv'
    BY <1>27, <1>a DEF TypeOK, SafetyInv, MutexInv, CallInv, PhaseInv, Phase, Consistent,
       SettingDim, Allowed, InSetState, InReset, TaskEnd, NoCall, Timers
  <2>4. OvertakenInv'
    BY <1>27, <1>a DEF TypeOK, SafetyInv, OvertakenInv, TaskEnd, NoCall, Timers
  <2>5. QED
    BY <1>a, <2>1, <2>2, <2>3, <2>4 DEF SafetyInv
<1>28. CASE ThrottlePeriodEnds
  <2>1. MutexInv'
    BY <1>28, <1>a DEF TypeOK, SafetyInv, MutexInv, InSetState, InReset, ThrottlePeriodEnds
  <2>2. CallInv'
    BY <1>28, <1>a DEF TypeOK, SafetyInv, CallInv, InSetState, ThrottlePeriodEnds
  <2>3. PhaseInv'
    BY <1>28, <1>a DEF TypeOK, SafetyInv, MutexInv, CallInv, PhaseInv, Phase, Consistent,
       SettingDim, Allowed, InSetState, InReset, ThrottlePeriodEnds
  <2>4. OvertakenInv'
    BY <1>28, <1>a DEF TypeOK, SafetyInv, OvertakenInv, ThrottlePeriodEnds
  <2>5. QED
    BY <1>a, <2>1, <2>2, <2>3, <2>4 DEF SafetyInv
<1>29. CASE UNCHANGED vars
  <2>1. MutexInv'
    BY <1>29, <1>a DEF TypeOK, SafetyInv, MutexInv, InSetState, InReset, vars
  <2>2. CallInv'
    BY <1>29, <1>a DEF TypeOK, SafetyInv, CallInv, InSetState, vars
  <2>3. PhaseInv'
    BY <1>29, <1>a DEF TypeOK, SafetyInv, MutexInv, CallInv, PhaseInv, Phase, Consistent,
       SettingDim, Allowed, InSetState, InReset, vars
  <2>4. OvertakenInv'
    BY <1>29, <1>a DEF TypeOK, SafetyInv, OvertakenInv, vars
  <2>5. QED
    BY <1>a, <2>1, <2>2, <2>3, <2>4 DEF SafetyInv
<1>30. QED
    BY <1>1, <1>2, <1>3, <1>4, <1>5, <1>6, <1>7, <1>8, <1>9, <1>10, <1>11, <1>12, <1>13, <1>14,
       <1>15, <1>16, <1>17, <1>18, <1>19, <1>20, <1>21, <1>22, <1>23, <1>24, <1>25, <1>26, <1>27,
       <1>28, <1>29
    DEF Next, ThreadStep, ClientStep, ClientCall, QueueStep

-------------------------------------------------------------------------------
\* Both boot states, screen on and screen off, satisfy the invariant.
LEMMA SafetyInit == Init => SafetyInv
<1> SUFFICES ASSUME Init PROVE SafetyInv
    OBVIOUS
<1>1. TypeOK
    BY NoCallType DEF Init, TypeOK, States, DisplayStates, Flags, Timers, HandleStates,
       LockScreenModes, Labels
<1>2. \A th \in Threads : pc[th] = "idle" /\ call[th] = NoCall /\ stateMutex # th
    BY ThreadsAssumption DEF Init, Threads
<1>3. MutexInv /\ CallInv
    BY <1>2 DEF MutexInv, CallInv, InSetState, NoCall
<1>4. PhaseInv
    BY <1>2 DEF Init, PhaseInv, Consistent
<1>5. OvertakenInv
    BY <1>2 DEF Init, OvertakenInv, Threads
<1>6. QED
    BY <1>1, <1>3, <1>4, <1>5 DEF SafetyInv

\* The inductive invariant holds in every reachable state, whatever the clients call.
THEOREM SafetyTheorem == Spec => []SafetyInv
<1>1. QED
    BY SafetyInit, SafetyStep, PTL DEF Spec

\* Type correctness of the state machine: no step leaves a variable outside its type.
THEOREM TypeCorrect == Spec => []TypeOK
<1>1. SafetyInv => TypeOK
    BY DEF SafetyInv
<1>2. QED
    BY <1>1, SafetyTheorem, PTL

\* Between SetState calls the power state and the display agree (StateMatchesDisplay): SetState's
\* error paths never leave one of them behind.
THEOREM DisplayAgreement == Spec => []StateMatchesDisplay
<1>1. SafetyInv => StateMatchesDisplay
    BY DEF SafetyInv, PhaseInv, Consistent, StateMatchesDisplay
<1>2. QED
    BY <1>1, SafetyTheorem, PTL

\* A time-out task overtaken by ResetInactiveTimer is dropped by CheckFFRTTaskAvailability.
THEOREM StaleTimeoutsAreDropped == Spec => []OvertakenTaskIsDropped
<1>1. SafetyInv => OvertakenTaskIsDropped
    BY DEF SafetyInv, OvertakenInv, OvertakenTaskIsDropped
<1>2. QED
    BY <1>1, SafetyTheorem, PTL

\* Only Commit changes currentState_, and what TransitTo checked is still true there: the step
\* is allowed by CanTransitTo for the reason of the thread that owns stateMutex_.
LEMMA TransitionStep ==
    ASSUME SafetyInv, [Next]_vars, currentState' # currentState
    PROVE  \E th \in Threads :
               stateMutex = th /\ CanTransitTo(currentState, currentState', call[th].reason)
<1>1. ASSUME NEW th \in Threads, Commit(th)
      PROVE  stateMutex = th /\ CanTransitTo(currentState, currentState', call[th].reason)
    BY <1>1 DEF SafetyInv, MutexInv, PhaseInv, Phase, Allowed, InSetState, Commit
<1>2. ASSUME NEW th \in Threads, TransitCheck(th) PROVE FALSE
  <2>1. stateMutex = th /\ Consistent /\ call[th].state \in States /\ TypeOK
    BY <1>2 DEF SafetyInv, TypeOK, MutexInv, PhaseInv, Phase, TransitCheck, InSetState, Calls
  <2>2. currentState' = currentState
    BY <1>2, <2>1, MatchStateKeeps DEF TransitCheck
  <2>3. QED
    BY <2>2
<1>3. \E th \in Threads : Commit(th) \/ TransitCheck(th)
    BY DEF Next, vars, ThreadStep, ClientStep, ClientCall, QueueStep, ResetCas, ResetCancel,
       ResetArm,
           SetStateLock, StateAction, ActionCancelTimers, DimArm, DimCheck, SetStateExit,
           StartSleepTimer, RefreshActivity, EnterRefresh, RefreshBranch, ThrottlePeriodEnds,
           WakeupDevice, SuspendDevice, ScreenLockCall, EnterLock, SetDisplayOffTime, ResetIfAwake,
           SetForceTimingOut, ForceTimingOutEffect, LockScreenAfterTimingOut, Fire, OffTimeout, TaskEnd
<1>4. QED
    BY <1>1, <1>2, <1>3

\* Every change of the power state is one the transition rules allow (TransitionsAreAllowed).
THEOREM AllowedTransitions == Spec => TransitionsAreAllowed
<1>1. SafetyInv /\ [Next]_vars =>
        [ currentState' # currentState =>
            \E th \in Threads :
                stateMutex = th /\ CanTransitTo(currentState, currentState', call[th].reason) ]_vars
    BY TransitionStep
<1>2. QED
    BY <1>1, SafetyTheorem, PTL DEF Spec, TransitionsAreAllowed

-------------------------------------------------------------------------------
(* AwakeHasTimer.  SetDisplayOffTime may switch automatic screen-off on between   *)
(* the lines of a SetState(AWAKE) that has seen it off, and a display that        *)
(* refuses twice ends both timers: the theorem is about clients that do not call  *)
(* the one and a display that obeys.                                              *)

\* Some thread is in ResetInactiveTimer, which ends with an armed timer.
Resetting == \E th \in Threads : pc[th] \in InReset

\* A timer has expired and its task, which no reset has overtaken, waits for stateMutex_.
Waiting ==
    \/ pc[queue] = "off" /\ handle["OFF"] = "running"
    \/ pc[queue] = "lock" /\ call[queue].op = "dimTask" /\ handle["TIMEOUT"] = "running"
    \/ pc[queue] = "lock" /\ call[queue].op = "offTask" /\ handle["OFF"] = "running"

\* Such a task is about to find out whether a screen lock forbids what it asks for.
Deciding ==
    pc[queue] = "check" /\ call[queue].state \in {"DIM", "INACTIVE"} /\ IsTimeoutReason(call[queue].reason)

\* A thread is past the checks of SetState and goes on to another state than AWAKE.
Leaving == 
    \E th \in Threads :
        pc[th] \in {"act", "cancelTimers", "dimArm", "dimCheck", "commit"} /\ call[th].state # "AWAKE"

\* The last screen lock was given back and its UnLock has still to look at the state.
Unlocking == \E c \in Clients : pc[c] = "unlocked"

\* There is a timer, or will be one.
TimerIsComing == TimerArmed \/ Waiting \/ Resetting

\* A state's action that goes on has succeeded.
ActionSucceeded ==
    \A th \in Threads : pc[th] \in {"cancelTimers", "dimArm", "dimCheck"} => call[th].ok

\* AWAKE is committed with a timer, even under a screen lock that is given back meanwhile.
CommitHasTimer ==
    \A th \in Threads : pc[th] = "commit" /\ call[th].state = "AWAKE" => TimerIsComing

\* An AWAKE device has a timer or will get one, is about to leave AWAKE, or has a screen lock,
\* whose release resets the timer.
AwakeInv ==
    currentState = "AWAKE" =>
        screenLock \/ Unlocking \/ TimerIsComing \/ Deciding \/ Leaving

\* The inductive invariant of the timers, on top of SafetyInv.
TimerInv == autoOff /\ ActionSucceeded /\ CommitHasTimer /\ AwakeInv

\* Every step keeps the invariant of the timers.
LEMMA TimerStep ==
    ASSUME ~DisplayMayFail, "setDisplayOffTime" \notin Ops
    PROVE  SafetyInv /\ TimerInv /\ [Next]_vars => TimerInv'
<1> SUFFICES ASSUME SafetyInv, TimerInv, [Next]_vars PROVE TimerInv'
    OBVIOUS
<1>a. TypeOK /\ TypeOK'
    BY TypeStep DEF SafetyInv
<1>b. queue \in Threads /\ NoThread \notin Threads /\ Clients \subseteq Threads /\ queue \notin Clients
    BY ThreadsAssumption DEF Threads
<1> USE <1>b DEF settings
<1>1. ASSUME NEW th \in Threads, ResetCas(th) PROVE TimerInv'
  <2>1. autoOff'
    BY <1>1 DEF TimerInv, ResetCas
  <2>2. ActionSucceeded'
    BY <1>1, <1>a DEF TimerInv, ActionSucceeded, Calls, NoCall, TypeOK, GoTo, ResetCas
  <2>3. CommitHasTimer'
    BY <1>1, <1>a DEF TimerInv, CommitHasTimer, TimerIsComing, TimerArmed, Waiting, Resetting,
           InReset, InSetState, SafetyInv, MutexInv, NoCall, TypeOK, GoTo, ResetCas
  <2>4. AwakeInv'
    BY <1>1, <1>a DEF TimerInv, AwakeInv, Unlocking, Leaving, Deciding, TimerIsComing,
           TimerArmed, Waiting, Resetting, InReset, InSetState, SafetyInv, MutexInv, NoCall,
           TypeOK, GoTo, ResetCas
  <2>5. QED
    BY <2>1, <2>2, <2>3, <2>4 DEF TimerInv
<1>2. ASSUME NEW th \in Threads, ResetCancel(th) PROVE TimerInv'
  <2>1. autoOff'
    BY <1>2 DEF TimerInv, ResetCancel
  <2>2. ActionSucceeded'
    BY <1>2, <1>a DEF TimerInv, ActionSucceeded, Calls, NoCall, TypeOK, GoTo, ResetCancel,
           CancelTimer, Timers
  <2>3. CommitHasTimer'
    BY <1>2, <1>a DEF TimerInv, CommitHasTimer, TimerIsComing, TimerArmed, Waiting, Resetting,
           InReset, InSetState, SafetyInv, MutexInv, NoCall, TypeOK, GoTo, ResetCancel,
           CancelTimer, Timers
  <2>4. AwakeInv'
    BY <1>2, <1>a DEF TimerInv, AwakeInv, Unlocking, Leaving, Deciding, TimerIsComing,
           TimerArmed, Waiting, Resetting, InReset, InSetState, SafetyInv, MutexInv, NoCall,
           TypeOK, GoTo, ResetCancel, CancelTimer, Timers
  <2>5. QED
    BY <2>1, <2>2, <2>3, <2>4 DEF TimerInv
<1>3. ASSUME NEW th \in Threads, ResetArm(th) PROVE TimerInv'
  <2>1. autoOff'
    BY <1>3 DEF TimerInv, ResetArm
  <2>2. ActionSucceeded'
    BY <1>3, <1>a DEF TimerInv, ActionSucceeded, Calls, NoCall, TypeOK, GoTo, ResetArm, Return,
           SetTimer, Timers
  <2>3. CommitHasTimer'
    BY <1>3, <1>a DEF TimerInv, CommitHasTimer, TimerIsComing, TimerArmed, Waiting, Resetting,
           InReset, InSetState, SafetyInv, MutexInv, NoCall, TypeOK, GoTo, ResetArm, Return,
           SetTimer, Timers
  <2>4. AwakeInv'
    BY <1>3, <1>a DEF TimerInv, AwakeInv, Unlocking, Leaving, Deciding, TimerIsComing,
           TimerArmed, Waiting, Resetting, InReset, InSetState, SafetyInv, MutexInv, NoCall,
           TypeOK, GoTo, ResetArm, Return, SetTimer, Timers
  <2>5. QED
    BY <2>1, <2>2, <2>3, <2>4 DEF TimerInv
<1>4. ASSUME NEW th \in Threads, SetStateLock(th) PROVE TimerInv'
  <2>1. autoOff'
    BY <1>4 DEF TimerInv, SetStateLock
  <2>2. ActionSucceeded'
    BY <1>4, <1>a DEF TimerInv, ActionSucceeded, Calls, NoCall, TypeOK, GoTo, SetStateLock,
           Return, CheckFFRTTaskAvailability, CurrentTaskHasHandle, TimerOf, IsTimeoutReason
  <2>3. CommitHasTimer'
    BY <1>4, <1>a DEF TimerInv, CommitHasTimer, TimerIsComing, TimerArmed, Waiting, Resetting,
           InReset, InSetState, SafetyInv, MutexInv, NoCall, TypeOK, GoTo, SetStateLock, Return,
           CheckFFRTTaskAvailability, CurrentTaskHasHandle, TimerOf, IsTimeoutReason
  <2>4. AwakeInv'
    <3>1. CASE th # queue
      BY <1>4, <1>a, <3>1 DEF TimerInv, AwakeInv, Unlocking, Leaving, Deciding, TimerIsComing,
             TimerArmed, Waiting, Resetting, InReset, NoCall, TypeOK, GoTo, SetStateLock,
             Return
    <3>2. CASE th = queue /\ Waiting
      <4>1. /\ CheckFFRTTaskAvailability(th, call[th].state, call[th].reason)
            /\ call[queue].state \in {"DIM", "INACTIVE"} /\ IsTimeoutReason(call[queue].reason)
        BY <1>4, <3>2 DEF SafetyInv, OvertakenInv, Waiting, SetStateLock, CheckFFRTTaskAvailability,
                     CurrentTaskHasHandle, TimerOf, IsTimeoutReason
      <4>2. Deciding'
        BY <1>4, <1>a, <3>2, <4>1 DEF SetStateLock, GoTo, TypeOK, Deciding
      <4>3. QED
        BY <4>2 DEF AwakeInv
    <3>3. CASE th = queue /\ ~Waiting
      BY <1>4, <1>a, <3>3 DEF TimerInv, AwakeInv, Unlocking, Leaving, Deciding, TimerIsComing,
             TimerArmed, Waiting, Resetting, InReset, NoCall, TypeOK, GoTo, SetStateLock,
             Return
    <3>4. QED
      BY <3>1, <3>2, <3>3
  <2>5. QED
    BY <2>1, <2>2, <2>3, <2>4 DEF TimerInv
<1>5. ASSUME NEW th \in Threads, TransitCheck(th) PROVE TimerInv'
  <2>1. autoOff'
    BY <1>5 DEF TimerInv, TransitCheck
  <2>2. ActionSucceeded'
    BY <1>5, <1>a DEF TimerInv, ActionSucceeded, Calls, NoCall, TypeOK, GoTo, TransitCheck
  <2>3. CommitHasTimer'
    BY <1>5, <1>a DEF TimerInv, CommitHasTimer, TimerIsComing, TimerArmed, Waiting, Resetting,
           InReset, InSetState, SafetyInv, MutexInv, NoCall, TypeOK, GoTo, TransitCheck
  <2>4. AwakeInv'
    <3>1. stateMutex = th /\ Consistent /\ call[th].state \in States
      BY <1>5, <1>a DEF TypeOK, SafetyInv, MutexInv, PhaseInv, Phase, TransitCheck,
             InSetState, Calls
    <3>2. currentState' = currentState
      BY <1>5, <1>a, <3>1, MatchStateKeeps DEF TransitCheck
    <3>3. CASE th = queue /\ Deciding /\ currentState = "AWAKE"
      <4>1. /\ MatchState(currentState, call[th].state, display) = "AWAKE"
            /\ CheckState("AWAKE", call[th].state)
        BY <1>a, <3>1, <3>3, MatchStateKeeps DEF CheckState, Deciding
      <4>2. CanTransitTo("AWAKE", call[th].state, call[th].reason)
        BY <1>a, <3>3 DEF SafetyInv, CallInv, CanTransitTo, forbidMap_, allowMapByReason_, Deciding,
                     IsTimeoutReason
      <4>3. screenLock' \/ pc' = [ pc EXCEPT ![th] = "act" ]
        BY <1>5, <4>1, <4>2 DEF TransitCheck, GoTo
      <4>4. call'[th].state # "AWAKE"
        BY <1>5, <1>a, <3>3 DEF TransitCheck, TypeOK, Calls, Deciding
      <4>5. QED
        BY <1>a, <4>3, <4>4 DEF AwakeInv, Leaving, TypeOK
    <3>4. CASE ~(th = queue /\ Deciding) /\ currentState = "AWAKE"
      <4>1. ~Leaving
        BY <1>5, <3>1 DEF SafetyInv, MutexInv, InSetState, Leaving, TransitCheck
      <4>2. Deciding => th = queue
        BY <3>1 DEF SafetyInv, MutexInv, InSetState, Deciding
      <4>3. screenLock \/ Unlocking \/ TimerIsComing
        BY <3>4, <4>1, <4>2 DEF TimerInv, AwakeInv
      <4>4. (Unlocking => Unlocking') /\ (TimerIsComing => TimerIsComing') /\ screenLock' = screenLock
        BY <1>5, <1>a DEF TransitCheck, GoTo, TypeOK, Unlocking, TimerIsComing, TimerArmed,
               Waiting, Resetting, InReset
      <4>5. QED
        BY <4>3, <4>4 DEF AwakeInv
    <3>5. QED
      BY <3>2, <3>3, <3>4 DEF AwakeInv
  <2>5. QED
    BY <2>1, <2>2, <2>3, <2>4 DEF TimerInv
<1>6. ASSUME NEW th \in Threads, StateAction(th) PROVE TimerInv'
  <2>1. autoOff'
    BY <1>6 DEF TimerInv, StateAction
  <2>2. ActionSucceeded'
    BY <1>6, <1>a DEF TimerInv, ActionSucceeded, Calls, NoCall, TypeOK, GoTo, StateAction
  <2>3. CommitHasTimer'
    BY <1>6, <1>a DEF TimerInv, CommitHasTimer, TimerIsComing, TimerArmed, Waiting, Resetting,
           InReset, InSetState, SafetyInv, MutexInv, NoCall, TypeOK, GoTo, StateAction
  <2>4. AwakeInv'
    <3>1. call[th].state \in States /\ call'[th].state = call[th].state
      BY <1>6, <1>a DEF StateAction, TypeOK, Calls
    <3>2. pc'[th] = IF call[th].state = "AWAKE" THEN "cas" ELSE IF call[th].state = "SLEEP" THEN "commit"
                    ELSE "cancelTimers"
      BY <1>6, <1>a, <3>1 DEF StateAction, GoTo, TypeOK, TimerInv, States
    <3>3. Leaving' \/ Resetting'
      BY <3>1, <3>2 DEF Leaving, Resetting, InReset
    <3>4. QED
      BY <3>3 DEF AwakeInv, TimerIsComing
  <2>5. QED
    BY <2>1, <2>2, <2>3, <2>4 DEF TimerInv
<1>7. ASSUME NEW th \in Threads, ActionCancelTimers(th) PROVE TimerInv'
  <2>1. autoOff'
    BY <1>7 DEF TimerInv, ActionCancelTimers
  <2>2. ActionSucceeded'
    BY <1>7, <1>a DEF TimerInv, ActionSucceeded, Calls, NoCall, TypeOK, GoTo,
           ActionCancelTimers, CancelTimer, Timers
  <2>3. CommitHasTimer' /\ AwakeInv'
    <3>1. stateMutex = th /\ call[th].state \in {"DIM", "INACTIVE"}
      BY <1>7 DEF SafetyInv, MutexInv, PhaseInv, Phase, SettingDim, InSetState, ActionCancelTimers
    <3>2. pc'[th] \in {"dimArm", "commit"} /\ call' = call
      BY <1>7, <1>a DEF ActionCancelTimers, GoTo, TypeOK
    <3>3. Leaving'
      BY <3>1, <3>2 DEF Leaving
    <3>4. \A x \in Threads : pc'[x] = "commit" => x = th
      BY <1>7, <1>a, <3>1 DEF SafetyInv, MutexInv, InSetState, ActionCancelTimers, GoTo, TypeOK
    <3>5. QED
      BY <3>1, <3>2, <3>3, <3>4 DEF AwakeInv, CommitHasTimer
  <2>4. QED
    BY <2>1, <2>2, <2>3 DEF TimerInv
<1>8. ASSUME NEW th \in Threads, DimArm(th) PROVE TimerInv'
  <2>1. autoOff'
    BY <1>8 DEF TimerInv, DimArm
  <2>2. ActionSucceeded'
    BY <1>8, <1>a DEF TimerInv, ActionSucceeded, Calls, NoCall, TypeOK, GoTo, DimArm, SetTimer,
           Timers
  <2>3. CommitHasTimer'
    BY <1>8, <1>a DEF TimerInv, CommitHasTimer, TimerIsComing, TimerArmed, Waiting, Resetting,
           InReset, InSetState, SafetyInv, MutexInv, NoCall, TypeOK, GoTo, DimArm, SetTimer,
           Timers
  <2>4. AwakeInv'
    BY <1>8, <1>a DEF TimerInv, AwakeInv, Unlocking, Leaving, Deciding, TimerIsComing,
           TimerArmed, Waiting, Resetting, InReset, InSetState, SafetyInv, MutexInv, NoCall,
           TypeOK, GoTo, DimArm, SetTimer, Timers
  <2>5. QED
    BY <2>1, <2>2, <2>3, <2>4 DEF TimerInv
<1>9. ASSUME NEW th \in Threads, DimCheck(th) PROVE TimerInv'
  <2>1. autoOff'
    BY <1>9 DEF TimerInv, DimCheck
  <2>2. ActionSucceeded'
    BY <1>9, <1>a DEF TimerInv, ActionSucceeded, Calls, NoCall, TypeOK, GoTo, DimCheck
  <2>3. CommitHasTimer' /\ AwakeInv'
    <3>1. stateMutex = th /\ call[th].state = "DIM" /\ call[th].ok
      BY <1>9 DEF SafetyInv, MutexInv, PhaseInv, Phase, SettingDim, InSetState, DimCheck, TimerInv,
                 ActionSucceeded
    <3>2. pc'[th] \in {"cas", "commit"} /\ call'[th].state = "DIM"
      BY <1>9, <1>a, <3>1 DEF DimCheck, GoTo, TypeOK, Calls
    <3>3. Leaving' \/ Resetting'
      BY <3>2 DEF Leaving, Resetting, InReset
    <3>4. \A x \in Threads : pc'[x] = "commit" => x = th
      BY <1>9, <1>a, <3>1 DEF SafetyInv, MutexInv, InSetState, DimCheck, GoTo, TypeOK
    <3>5. QED
      BY <3>2, <3>3, <3>4 DEF AwakeInv, CommitHasTimer, TimerIsComing
  <2>4. QED
    BY <2>1, <2>2, <2>3 DEF TimerInv
<1>10. ASSUME NEW th \in Threads, Commit(th) PROVE TimerInv'
  <2>1. autoOff'
    BY <1>10 DEF TimerInv, Commit
  <2>2. ActionSucceeded'
    BY <1>10, <1>a DEF TimerInv, ActionSucceeded, Calls, NoCall, TypeOK, GoTo, Commit,
           CancelTimer, Timers
  <2>3. CommitHasTimer'
    BY <1>10, <1>a DEF TimerInv, CommitHasTimer, TimerIsComing, TimerArmed, Waiting, Resetting,
           InReset, InSetState, SafetyInv, MutexInv, NoCall, TypeOK, GoTo, Commit, CancelTimer,
           Timers
  <2>4. AwakeInv'
    <3>1. CASE call[th].state = "AWAKE"
      <4>1. TimerIsComing
        BY <1>10, <3>1 DEF Commit, TimerInv, CommitHasTimer
      <4>2. TimerIsComing'
        BY <1>10, <1>a, <4>1 DEF Commit, GoTo, CancelTimer, Timers, TypeOK, Calls,
               TimerIsComing, TimerArmed, Waiting, Resetting, InReset
      <4>3. QED
        BY <4>2 DEF AwakeInv
    <3>2. CASE call[th].state # "AWAKE"
      BY <1>10, <3>2 DEF Commit, AwakeInv
    <3>3. QED
      BY <3>1, <3>2
  <2>5. QED
    BY <2>1, <2>2, <2>3, <2>4 DEF TimerInv
<1>11. ASSUME NEW th \in Threads, SetStateExit(th) PROVE TimerInv'
  <2>1. autoOff'
    BY <1>11 DEF TimerInv, SetStateExit
  <2>2. ActionSucceeded'
    BY <1>11, <1>a DEF TimerInv, ActionSucceeded, Calls, NoCall, TypeOK, GoTo, SetStateExit, Return
  <2>3. CommitHasTimer'
    BY <1>11, <1>a DEF TimerInv, CommitHasTimer, TimerIsComing, TimerArmed, Waiting, Resetting,
           InReset, InSetState, SafetyInv, MutexInv, NoCall, TypeOK, GoTo, SetStateExit, Return
  <2>4. AwakeInv'
    BY <1>11, <1>a DEF TimerInv, AwakeInv, Unlocking, Leaving, Deciding, TimerIsComing,
           TimerArmed, Waiting, Resetting, InReset, InSetState, SafetyInv, MutexInv, NoCall,
           TypeOK, GoTo, SetStateExit, Return
  <2>5. QED
    BY <2>1, <2>2, <2>3, <2>4 DEF TimerInv
<1>12. ASSUME NEW th \in Threads, StartSleepTimer(th) PROVE TimerInv'
  <2>1. autoOff'
    BY <1>12 DEF TimerInv, StartSleepTimer
  <2>2. ActionSucceeded'
    BY <1>12, <1>a DEF TimerInv, ActionSucceeded, Calls, NoCall, TypeOK, GoTo, StartSleepTimer,
           Return, SetTimer, Timers
  <2>3. CommitHasTimer'
    BY <1>12, <1>a DEF TimerInv, CommitHasTimer, TimerIsComing, TimerArmed, Waiting, Resetting,
           InReset, InSetState, SafetyInv, MutexInv, NoCall, TypeOK, GoTo, StartSleepTimer,
           Return, SetTimer, Timers
  <2>4. AwakeInv'
    BY <1>12, <1>a DEF TimerInv, AwakeInv, Unlocking, Leaving, Deciding, TimerIsComing,
           TimerArmed, Waiting, Resetting, InReset, InSetState, SafetyInv, MutexInv, NoCall,
           TypeOK, GoTo, StartSleepTimer, Return, SetTimer, Timers
  <2>5. QED
    BY <2>1, <2>2, <2>3, <2>4 DEF TimerInv
<1>13. ASSUME NEW c \in Clients, RefreshActivity(c) PROVE TimerInv'
  <2>1. autoOff'
    BY <1>13 DEF TimerInv, RefreshActivity
  <2>2. ActionSucceeded'
    BY <1>13, <1>a DEF TimerInv, ActionSucceeded, Calls, NoCall, TypeOK, GoTo, RefreshActivity,
           Begin
  <2>3. CommitHasTimer'
    BY <1>13, <1>a DEF TimerInv, CommitHasTimer, TimerIsComing, TimerArmed, Waiting, Resetting,
           InReset, InSetState, SafetyInv, MutexInv, NoCall, TypeOK, GoTo, RefreshActivity,
           Begin
  <2>4. AwakeInv'
    BY <1>13, <1>a DEF TimerInv, AwakeInv, Unlocking, Leaving, Deciding, TimerIsComing,
           TimerArmed, Waiting, Resetting, InReset, InSetState, SafetyInv, MutexInv, NoCall,
           TypeOK, GoTo, RefreshActivity, Begin
  <2>5. QED
    BY <2>1, <2>2, <2>3, <2>4 DEF TimerInv
<1>14. ASSUME NEW c \in Clients, EnterRefresh(c) PROVE TimerInv'
  <2>1. autoOff'
    BY <1>14 DEF TimerInv, EnterRefresh
  <2>2. ActionSucceeded'
    BY <1>14, <1>a DEF TimerInv, ActionSucceeded, Calls, NoCall, TypeOK, GoTo, EnterRefresh, Return
  <2>3. CommitHasTimer'
    BY <1>14, <1>a DEF TimerInv, CommitHasTimer, TimerIsComing, TimerArmed, Waiting, Resetting,
           InReset, InSetState, SafetyInv, MutexInv, NoCall, TypeOK, GoTo, EnterRefresh, Return
  <2>4. AwakeInv'
    BY <1>14, <1>a DEF TimerInv, AwakeInv, Unlocking, Leaving, Deciding, TimerIsComing,
           TimerArmed, Waiting, Resetting, InReset, InSetState, SafetyInv, MutexInv, NoCall,
           TypeOK, GoTo, EnterRefresh, Return
  <2>5. QED
    BY <2>1, <2>2, <2>3, <2>4 DEF TimerInv
<1>15. ASSUME NEW c \in Clients, RefreshBranch(c) PROVE TimerInv'
  <2>1. autoOff'
    BY <1>15 DEF TimerInv, RefreshBranch
  <2>2. ActionSucceeded'
    BY <1>15, <1>a DEF TimerInv, ActionSucceeded, Calls, NoCall, TypeOK, GoTo, RefreshBranch,
           CallSetState
  <2>3. CommitHasTimer'
    BY <1>15, <1>a DEF TimerInv, CommitHasTimer, TimerIsComing, TimerArmed, Waiting, Resetting,
           InReset, InSetState, SafetyInv, MutexInv, NoCall, TypeOK, GoTo, RefreshBranch,
           CallSetState
  <2>4. AwakeInv'
    BY <1>15, <1>a DEF TimerInv, AwakeInv, Unlocking, Leaving, Deciding, TimerIsComing,
           TimerArmed, Waiting, Resetting, InReset, InSetState, SafetyInv, MutexInv, NoCall,
           TypeOK, GoTo, RefreshBranch, CallSetState
  <2>5. QED
    BY <2>1, <2>2, <2>3, <2>4 DEF TimerInv
<1>16. ASSUME NEW c \in Clients, WakeupDevice(c) PROVE TimerInv'
  <2>1. autoOff'
    BY <1>16 DEF TimerInv, WakeupDevice
  <2>2. ActionSucceeded'
    BY <1>16, <1>a DEF TimerInv, ActionSucceeded, Calls, NoCall, TypeOK, GoTo, WakeupDevice,
           CallSetState, CancelTimer, Timers
  <2>3. CommitHasTimer'
    BY <1>16, <1>a DEF TimerInv, CommitHasTimer, TimerIsComing, TimerArmed, Waiting, Resetting,
           InReset, InSetState, SafetyInv, MutexInv, NoCall, TypeOK, GoTo, WakeupDevice,
           CallSetState, CancelTimer, Timers
  <2>4. AwakeInv'
    BY <1>16, <1>a DEF TimerInv, AwakeInv, Unlocking, Leaving, Deciding, TimerIsComing,
           TimerArmed, Waiting, Resetting, InReset, InSetState, SafetyInv, MutexInv, NoCall,
           TypeOK, GoTo, WakeupDevice, CallSetState, CancelTimer, Timers
  <2>5. QED
    BY <2>1, <2>2, <2>3, <2>4 DEF TimerInv
<1>17. ASSUME NEW c \in Clients, SuspendDevice(c) PROVE TimerInv'
  <2>1. autoOff'
    BY <1>17 DEF TimerInv, SuspendDevice
  <2>2. ActionSucceeded'
    BY <1>17, <1>a DEF TimerInv, ActionSucceeded, Calls, NoCall, TypeOK, GoTo, SuspendDevice,
           CallSetState
  <2>3. CommitHasTimer'
    BY <1>17, <1>a DEF TimerInv, CommitHasTimer, TimerIsComing, TimerArmed, Waiting, Resetting,
           InReset, InSetState, SafetyInv, MutexInv, NoCall, TypeOK, GoTo, SuspendDevice,
           CallSetState
  <2>4. AwakeInv'
    BY <1>17, <1>a DEF TimerInv, AwakeInv, Unlocking, Leaving, Deciding, TimerIsComing,
           TimerArmed, Waiting, Resetting, InReset, InSetState, SafetyInv, MutexInv, NoCall,
           TypeOK, GoTo, SuspendDevice, CallSetState
  <2>5. QED
    BY <2>1, <2>2, <2>3, <2>4 DEF TimerInv
<1>18. ASSUME NEW c \in Clients, NEW o \in {"screenLock", "screenUnlock"}, ScreenLockCall(c, o) PROVE TimerInv'
  <2>1. autoOff'
    BY <1>18 DEF TimerInv, ScreenLockCall
  <2>2. ActionSucceeded'
    BY <1>18, <1>a DEF TimerInv, ActionSucceeded, Calls, NoCall, TypeOK, GoTo, ScreenLockCall, Begin
  <2>3. CommitHasTimer'
    BY <1>18, <1>a DEF TimerInv, CommitHasTimer, TimerIsComing, TimerArmed, Waiting, Resetting,
           InReset, InSetState, SafetyInv, MutexInv, NoCall, TypeOK, GoTo, ScreenLockCall, Begin
  <2>4. AwakeInv'
    BY <1>18, <1>a DEF TimerInv, AwakeInv, Unlocking, Leaving, Deciding, TimerIsComing,
           TimerArmed, Waiting, Resetting, InReset, InSetState, SafetyInv, MutexInv, NoCall,
           TypeOK, GoTo, ScreenLockCall, Begin
  <2>5. QED
    BY <2>1, <2>2, <2>3, <2>4 DEF TimerInv
<1>19. ASSUME NEW c \in Clients, EnterLock(c) PROVE TimerInv'
  <2>1. autoOff'
    BY <1>19 DEF TimerInv, EnterLock
  <2>2. ActionSucceeded'
    BY <1>19, <1>a DEF TimerInv, ActionSucceeded, Calls, NoCall, TypeOK, GoTo, EnterLock, Return
  <2>3. CommitHasTimer'
    BY <1>19, <1>a DEF TimerInv, CommitHasTimer, TimerIsComing, TimerArmed, Waiting, Resetting,
           InReset, InSetState, SafetyInv, MutexInv, NoCall, TypeOK, GoTo, EnterLock, Return
  <2>4. AwakeInv'
    BY <1>19, <1>a DEF TimerInv, AwakeInv, Unlocking, Leaving, Deciding, TimerIsComing,
           TimerArmed, Waiting, Resetting, InReset, InSetState, SafetyInv, MutexInv, NoCall,
           TypeOK, GoTo, EnterLock, Return
  <2>5. QED
    BY <2>1, <2>2, <2>3, <2>4 DEF TimerInv
<1>20. ASSUME NEW c \in Clients, ResetIfAwake(c) PROVE TimerInv'
  <2>1. autoOff'
    BY <1>20 DEF TimerInv, ResetIfAwake
  <2>2. ActionSucceeded'
    BY <1>20, <1>a DEF TimerInv, ActionSucceeded, Calls, NoCall, TypeOK, GoTo, ResetIfAwake, Return
  <2>3. CommitHasTimer'
    BY <1>20, <1>a DEF TimerInv, CommitHasTimer, TimerIsComing, TimerArmed, Waiting, Resetting,
           InReset, InSetState, SafetyInv, MutexInv, NoCall, TypeOK, GoTo, ResetIfAwake, Return
  <2>4. AwakeInv'
    BY <1>20, <1>a DEF TimerInv, AwakeInv, Unlocking, Leaving, Deciding, TimerIsComing,
           TimerArmed, Waiting, Resetting, InReset, InSetState, SafetyInv, MutexInv, NoCall,
           TypeOK, GoTo, ResetIfAwake, Return
  <2>5. QED
    BY <2>1, <2>2, <2>3, <2>4 DEF TimerInv
<1>21. ASSUME NEW c \in Clients, ForceTimingOutEffect(c) PROVE TimerInv'
  <2>1. autoOff'
    BY <1>21 DEF TimerInv, ForceTimingOutEffect
  <2>2. ActionSucceeded'
    BY <1>21, <1>a DEF TimerInv, ActionSucceeded, Calls, NoCall, TypeOK, GoTo,
           ForceTimingOutEffect, Return, CallSetState
  <2>3. CommitHasTimer'
    BY <1>21, <1>a DEF TimerInv, CommitHasTimer, TimerIsComing, TimerArmed, Waiting, Resetting,
           InReset, InSetState, SafetyInv, MutexInv, NoCall, TypeOK, GoTo, ForceTimingOutEffect,
           Return, CallSetState
  <2>4. AwakeInv'
    BY <1>21, <1>a DEF TimerInv, AwakeInv, Unlocking, Leaving, Deciding, TimerIsComing,
           TimerArmed, Waiting, Resetting, InReset, InSetState, SafetyInv, MutexInv, NoCall,
           TypeOK, GoTo, ForceTimingOutEffect, Return, CallSetState
  <2>5. QED
    BY <2>1, <2>2, <2>3, <2>4 DEF TimerInv
<1>22. ASSUME NEW c \in Clients, NEW b \in BOOLEAN, SetForceTimingOut(c, b) PROVE TimerInv'
  <2>1. autoOff'
    BY <1>22 DEF TimerInv, SetForceTimingOut
  <2>2. ActionSucceeded'
    BY <1>22, <1>a DEF TimerInv, ActionSucceeded, Calls, NoCall, TypeOK, GoTo,
           SetForceTimingOut, Begin
  <2>3. CommitHasTimer'
    BY <1>22, <1>a DEF TimerInv, CommitHasTimer, TimerIsComing, TimerArmed, Waiting, Resetting,
           InReset, InSetState, SafetyInv, MutexInv, NoCall, TypeOK, GoTo, SetForceTimingOut,
           Begin
  <2>4. AwakeInv'
    BY <1>22, <1>a DEF TimerInv, AwakeInv, Unlocking, Leaving, Deciding, TimerIsComing,
           TimerArmed, Waiting, Resetting, InReset, InSetState, SafetyInv, MutexInv, NoCall,
           TypeOK, GoTo, SetForceTimingOut, Begin
  <2>5. QED
    BY <2>1, <2>2, <2>3, <2>4 DEF TimerInv
<1>23. ASSUME NEW c \in Clients, NEW m \in LockScreenModes, LockScreenAfterTimingOut(c, m) PROVE TimerInv'
  <2>1. autoOff'
    BY <1>23 DEF TimerInv, LockScreenAfterTimingOut
  <2>2. ActionSucceeded'
    BY <1>23, <1>a DEF TimerInv, ActionSucceeded, Calls, NoCall, TypeOK, GoTo,
           LockScreenAfterTimingOut
  <2>3. CommitHasTimer'
    BY <1>23, <1>a DEF TimerInv, CommitHasTimer, TimerIsComing, TimerArmed, Waiting, Resetting,
           InReset, InSetState, SafetyInv, MutexInv, NoCall, TypeOK, GoTo,
           LockScreenAfterTimingOut
  <2>4. AwakeInv'
    BY <1>23, <1>a DEF TimerInv, AwakeInv, Unlocking, Leaving, Deciding, TimerIsComing,
           TimerArmed, Waiting, Resetting, InReset, InSetState, SafetyInv, MutexInv, NoCall,
           TypeOK, GoTo, LockScreenAfterTimingOut
  <2>5. QED
    BY <2>1, <2>2, <2>3, <2>4 DEF TimerInv
<1>24. ASSUME NEW t \in Timers, Fire(t) PROVE TimerInv'
  <2>1. autoOff'
    BY <1>24 DEF TimerInv, Fire
  <2>2. ActionSucceeded'
    BY <1>24, <1>a DEF TimerInv, ActionSucceeded, Calls, NoCall, TypeOK, GoTo, Fire,
           CallSetState, Begin, Timers
  <2>3. CommitHasTimer'
    BY <1>24, <1>a DEF TimerInv, CommitHasTimer, TimerIsComing, TimerArmed, Waiting, Resetting,
           InReset, InSetState, SafetyInv, MutexInv, NoCall, TypeOK, GoTo, Fire, CallSetState,
           Begin, Timers
  <2>4. AwakeInv'
    BY <1>24, <1>a DEF TimerInv, AwakeInv, Unlocking, Leaving, Deciding, TimerIsComing,
           TimerArmed, Waiting, Resetting, InReset, InSetState, SafetyInv, MutexInv, NoCall,
           TypeOK, GoTo, Fire, CallSetState, Begin, Timers
  <2>5. QED
    BY <2>1, <2>2, <2>3, <2>4 DEF TimerInv
<1>25. ASSUME OffTimeout PROVE TimerInv'
  <2>1. autoOff'
    BY <1>25 DEF TimerInv, OffTimeout
  <2>2. ActionSucceeded'
    BY <1>25, <1>a DEF TimerInv, ActionSucceeded, Calls, NoCall, TypeOK, GoTo, OffTimeout,
           Return, CallSetState, ScreenOn
  <2>3. CommitHasTimer'
    <3>1. CASE ScreenOn(display)
      BY <1>25, <1>a, <3>1 DEF TimerInv, CommitHasTimer, SafetyInv, OvertakenInv,
             TimerIsComing, TimerArmed, Waiting, Resetting, InReset, TypeOK, GoTo, OffTimeout,
             CallSetState
    <3>2. CASE ~ScreenOn(display)
      <4>1. ASSUME NEW x \in Threads, pc[x] = "commit", call[x].state = "AWAKE" PROVE FALSE
        BY <3>2, <4>1, DisplayOfState DEF SafetyInv, MutexInv, InSetState, PhaseInv, Phase, ScreenOn
      <4>2. QED
        BY <1>25, <1>a, <3>2, <4>1 DEF OffTimeout, Return, GoTo, TypeOK, CommitHasTimer
    <3>3. QED
      BY <3>1, <3>2
  <2>4. AwakeInv'
    <3>1. CASE ScreenOn(display)
      BY <1>25, <1>a, <3>1 DEF TimerInv, SafetyInv, OvertakenInv, AwakeInv, Unlocking,
             Leaving, Deciding, TimerIsComing, TimerArmed, Waiting, Resetting, InReset,
             TypeOK, GoTo, OffTimeout, CallSetState
    <3>2. CASE ~ScreenOn(display) /\ currentState = "AWAKE"
      <4>1. ~Consistent /\ display = "OFF"
        BY <1>a, <3>2 DEF Consistent, ScreenOn, TypeOK, DisplayStates
      <4>2. PICK x \in Threads : stateMutex = x
        BY <1>a, <4>1 DEF TypeOK, SafetyInv, PhaseInv
      <4>3. (pc[x] \in {"cancelTimers", "commit"} /\ call[x].state # "AWAKE") \/ pc[x] \in InReset
        BY <4>1, <4>2, DisplayOfState DEF SafetyInv, MutexInv, PhaseInv, Phase, SettingDim,
               InSetState
      <4>4. pc'[x] = pc[x] /\ call'[x] = call[x]
        BY <1>25, <1>a, <3>2, <4>3 DEF OffTimeout, Return, GoTo, TypeOK, InReset
      <4>5. QED
        BY <4>3, <4>4 DEF AwakeInv, Leaving, Resetting, TimerIsComing
    <3>3. QED
      BY <1>25, <3>1, <3>2 DEF AwakeInv, OffTimeout
  <2>5. QED
    BY <2>1, <2>2, <2>3, <2>4 DEF TimerInv
<1>26. ASSUME TaskEnd PROVE TimerInv'
  <2>1. autoOff'
    BY <1>26 DEF TimerInv, TaskEnd
  <2>2. ActionSucceeded'
    BY <1>26, <1>a DEF TimerInv, ActionSucceeded, Calls, NoCall, TypeOK, GoTo, TaskEnd, Timers
  <2>3. CommitHasTimer'
    BY <1>26, <1>a DEF TimerInv, CommitHasTimer, TimerIsComing, TimerArmed, Waiting, Resetting,
           InReset, InSetState, SafetyInv, MutexInv, NoCall, TypeOK, GoTo, TaskEnd, Timers
  <2>4. AwakeInv'
    BY <1>26, <1>a DEF TimerInv, AwakeInv, Unlocking, Leaving, Deciding, TimerIsComing,
           TimerArmed, Waiting, Resetting, InReset, InSetState, SafetyInv, MutexInv, NoCall,
           TypeOK, GoTo, TaskEnd, Timers
  <2>5. QED
    BY <2>1, <2>2, <2>3, <2>4 DEF TimerInv
<1>27. ASSUME ThrottlePeriodEnds PROVE TimerInv'
  <2>1. autoOff'
    BY <1>27 DEF TimerInv, ThrottlePeriodEnds
  <2>2. ActionSucceeded'
    BY <1>27, <1>a DEF TimerInv, ActionSucceeded, Calls, NoCall, TypeOK, GoTo, ThrottlePeriodEnds
  <2>3. CommitHasTimer'
    BY <1>27, <1>a DEF TimerInv, CommitHasTimer, TimerIsComing, TimerArmed, Waiting, Resetting,
           InReset, InSetState, SafetyInv, MutexInv, NoCall, TypeOK, GoTo, ThrottlePeriodEnds
  <2>4. AwakeInv'
    BY <1>27, <1>a DEF TimerInv, AwakeInv, Unlocking, Leaving, Deciding, TimerIsComing,
           TimerArmed, Waiting, Resetting, InReset, InSetState, SafetyInv, MutexInv, NoCall,
           TypeOK, GoTo, ThrottlePeriodEnds
  <2>5. QED
    BY <2>1, <2>2, <2>3, <2>4 DEF TimerInv
<1>28. CASE UNCHANGED vars
    BY <1>28 DEF vars, TimerInv, ActionSucceeded, CommitHasTimer, AwakeInv, Unlocking, Leaving,
           Deciding,
           TimerIsComing, TimerArmed, Waiting, Resetting
<1>29. ASSUME NEW c \in Clients, NEW b \in BOOLEAN, SetDisplayOffTime(c, b) PROVE FALSE
    BY <1>29 DEF SetDisplayOffTime
<1>30. QED
    BY <1>1, <1>2, <1>3, <1>4, <1>5, <1>6, <1>7, <1>8, <1>9, <1>10, <1>11, <1>12, <1>13, <1>14,
           <1>15, <1>16, <1>17, <1>18, <1>19, <1>20, <1>21, <1>22, <1>23, <1>24, <1>25, <1>26,
           <1>27, <1>28, <1>29
    DEF Next, ThreadStep, ClientStep, ClientCall, QueueStep

\* The service starts AWAKE with a timer, or INACTIVE.
LEMMA TimerInit == Init => TimerInv
<1> SUFFICES ASSUME Init PROVE TimerInv
    OBVIOUS
<1>1. \A th \in Threads : pc[th] = "idle"
    BY DEF Init
<1>2. currentState = "AWAKE" => TimerArmed
    BY DEF Init, TimerArmed, Timers
<1>3. QED
    BY <1>1, <1>2 DEF Init, TimerInv, ActionSucceeded, CommitHasTimer, AwakeInv, TimerIsComing

\* With automatic screen-off and a display that obeys, an AWAKE device that nobody is working on
\* and that has no screen lock has an armed timer (AwakeHasTimer), for any set of clients: whatever
\* refreshes, wake-ups, suspends, screen locks and forced time-outs cancel and arm from how many
\* threads, one timer is left (ResetInactiveTimer, EmplaceDim, SetForceTimingOut, UnlockInner).
THEOREM AwakeDeviceHasTimer ==
    ASSUME ~DisplayMayFail, "setDisplayOffTime" \notin Ops
    PROVE  Spec => []AwakeHasTimer
<1>1. SafetyInv /\ TimerInv => AwakeHasTimer
  <2> SUFFICES ASSUME TimerInv, Quiet, currentState = "AWAKE", ~screenLock PROVE TimerArmed
      BY DEF AwakeHasTimer
  <2>1. queue \in Threads /\ Clients \subseteq Threads
      BY DEF Threads
  <2>2. ~Unlocking /\ ~Waiting /\ ~Resetting /\ ~Deciding /\ ~Leaving
      BY <2>1 DEF Quiet, Unlocking, Waiting, Resetting, Deciding, Leaving, InReset
  <2>3. QED
      BY <2>2 DEF TimerInv, AwakeInv, TimerIsComing
<1>2. QED
    BY <1>1, TimerInit, TimerStep, SafetyTheorem, PTL DEF Spec

==============================================================================
