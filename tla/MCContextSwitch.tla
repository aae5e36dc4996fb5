--------------------------- MODULE MCContextSwitch ---------------------------
(***************************************************************************)
(* Finite instances of ContextSwitch for TLC.                              *)
(***************************************************************************)
EXTENDS ContextSwitch, TLC

CONSTANTS init, p1, p2, idle, error

MCSymmetry == Permutations(Proc \ {InitProc})

=============================================================================
