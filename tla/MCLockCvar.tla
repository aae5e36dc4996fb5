----------------------------- MODULE MCLockCvar -----------------------------
(***************************************************************************)
(* Finite instances of LockCvar for TLC.                                   *)
(***************************************************************************)
EXTENDS LockCvar, TLC

CONSTANTS p1, p2, p3, idle, null

MCSymmetry == Permutations(Proc)

=============================================================================
