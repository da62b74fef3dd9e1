------------------------- MODULE MCSuspendController -------------------------
(* Model values and bounds for SuspendController. *)
EXTENDS SuspendController, TLC

Symmetry == Permutations(Clients)

==============================================================================
