---------------------------- MODULE MCStateMachine ----------------------------
(***************************************************************************)
(* Two instances of the state machine, which a behaviour chooses between:  *)
(* one whose display may fail and whose off time changes, for the          *)
(* transitions; and one with screen locks and forced time-outs, for the    *)
(* timers.                                                                 *)
(***************************************************************************)
EXTENDS MCPowerStateMachine

CONSTANT TimerOps   \* what the clients of the second instance call

VARIABLE part

Timer == INSTANCE PowerStateMachine WITH Ops <- TimerOps, DisplayMayFail <- FALSE

PartInit == part \in { "transitions", "timer" } /\ Init

TransitionsStep == part = "transitions" /\ Next /\ UNCHANGED part
TimerStep == part = "timer" /\ Timer!Next /\ UNCHANGED part

PartSpec == PartInit /\ [][TransitionsStep \/ TimerStep]_<< part, vars >>

\* An AWAKE device at rest has a timer that will turn its screen off, whatever order refreshes,
\* screen locks, forced time-outs, wake-ups and suspends cancel and arm the two timers in.
AwakeAtRestHasTimer == part = "timer" => Timer!AwakeHasTimer

===============================================================================
