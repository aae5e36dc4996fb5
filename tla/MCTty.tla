-------------------------------- MODULE MCTty --------------------------------
(***************************************************************************)
(* Finite instances of Tty for TLC.                                        *)
(***************************************************************************)
EXTENDS Tty, TLC

CONSTANTS p1, p2, p3, idle, null

MCSymmetry == Permutations(Proc)

=============================================================================
