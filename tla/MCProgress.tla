----------------------------- MODULE MCProgress -----------------------------
(***************************************************************************)
(* What must eventually happen: the state machine's calls return and its   *)
(* screen goes off, the power key's wait is answered and a forced reboot   *)
(* is carried out.  These components share no state that the properties    *)
(* speak of, so a behaviour is one of a component's behaviours: part says  *)
(* whose, and the variables of the others keep their initial values.  The  *)
(* state machine has three parts, which differ in what the clients call.   *)
(***************************************************************************)
EXTENDS Naturals, FiniteSets

CONSTANTS
    Clients, queue, NoThread,               \* of PowerStateMachine
    WaitMayTimeOut,                         \* of PowerKey
    Callers, DirectCallers, Listeners, MaxCalls   \* of Shutdown

VARIABLES
    part,
    currentState, display, settingStateFlag, stateMutex, screenMutex, lockMutex, handle, sleepTime,
    sleepReason, screenLock, forceTimingOut, autoOff, timingOutLockScreen, recentRefresh, pc, call,
    overtaken,
    screenOn, keyMutex, dms, screenOffStarted, cvUnblocked, interruptingScreenOff,
    screenOffInterrupted, powerkeyScreenOff, powerkeyDownWhenScreenOff, poweroffInterrupted,
    pressed, keyPc, outcome,
    started, shutdownMutex, priority, downPc, force, toTell, asked, futForSyncCb, futForOff,
    offThread, calls, off

machineVars == << currentState, display, settingStateFlag, stateMutex, screenMutex, lockMutex,
                  handle, sleepTime, sleepReason, screenLock, forceTimingOut, autoOff,
                  timingOutLockScreen, recentRefresh, pc, call, overtaken >>
keyVars == << screenOn, keyMutex, dms, screenOffStarted, cvUnblocked, interruptingScreenOff,
              screenOffInterrupted, powerkeyScreenOff, powerkeyDownWhenScreenOff,
              poweroffInterrupted, pressed, keyPc, outcome >>
downVars == << started, shutdownMutex, priority, downPc, force, toTell, asked, futForSyncCb,
               futForOff, offThread, calls, off >>
vars == << part, machineVars, keyVars, downVars >>

Off == INSTANCE PowerStateMachine WITH DisplayMayFail <- FALSE, Ops <- { "wakeup", "suspend" }
Mode == INSTANCE PowerStateMachine WITH DisplayMayFail <- FALSE,
            Ops <- { "wakeup", "lockScreenAfterTimingOut" }
Locks == INSTANCE PowerStateMachine WITH DisplayMayFail <- FALSE, Ops <- { "screenLock" }
Key == INSTANCE PowerKey WITH stateMutex <- keyMutex, pc <- keyPc
Down == INSTANCE Shutdown WITH pc <- downPc, Clients <- Listeners

Init ==
    /\ part \in { "off", "mode", "locks", "key", "shutdown" }
    /\ Off!Init /\ Key!Init /\ Down!Init
    /\ part \in { "key", "shutdown" } => currentState = "INACTIVE"

OffStep == part = "off" /\ Off!Next /\ UNCHANGED << part, keyVars, downVars >>
ModeStep == part = "mode" /\ Mode!Next /\ UNCHANGED << part, keyVars, downVars >>
LocksStep == part = "locks" /\ Locks!Next /\ UNCHANGED << part, keyVars, downVars >>
KeyStep == part = "key" /\ Key!Next /\ UNCHANGED << part, machineVars, downVars >>
DownStep == part = "shutdown" /\ Down!Next /\ UNCHANGED << part, machineVars, keyVars >>

Next == OffStep \/ ModeStep \/ LocksStep \/ KeyStep \/ DownStep

\* The fairness of the parts (what a thread does once it runs is the same whatever the clients
\* call).  No fair step of a component is enabled in the state in which other parts leave it.
Fairness == Off!Fairness /\ Key!Fairness /\ Down!Fairness

FairSpec == Init /\ [][Next]_vars /\ Fairness

-------------------------------------------------------------------------------
\* Every call of the state machine returns: no thread waits for ever for one of its mutexes.
EveryCallReturns == Off!EveryCallReturns

\* The time-out chain of the state machine ends with the screen off.
ScreenGoesOff == part \in { "off", "mode" } => Off!ScreenGoesOff

\* The power key's wait for the screen-off task is answered.
CancelIsAnswered == Key!CancelIsAnswered

\* A forced reboot turns the device off, whatever the clients' callbacks do.
ForcedRebootHappens == Down!ForcedRebootHappens

=============================================================================
