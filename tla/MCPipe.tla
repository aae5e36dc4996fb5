------------------------------- MODULE MCPipe -------------------------------
(***************************************************************************)
(* Finite instances of Pipe for TLC.  The value of an uninitialised total  *)
(* reaches nothing but the value returned, so one value stands for all of  *)
(* them, the one most favourable to the code.                              *)
(***************************************************************************)
EXTENDS Pipe, TLC

CONSTANTS p1, p2, p3, idle

MCSymmetry == Permutations(Proc)

=============================================================================
