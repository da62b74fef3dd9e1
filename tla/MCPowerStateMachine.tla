------------------------- MODULE MCPowerStateMachine -------------------------
(* Model values and bounds for PowerStateMachine. *)
EXTENDS PowerStateMachine, TLC

Symmetry == Permutations(Clients)

==============================================================================
