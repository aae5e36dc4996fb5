----------------------------- MODULE MCProcTable -----------------------------
(***************************************************************************)
(* Finite instances of ProcTable for TLC.                                  *)
(***************************************************************************)
EXTENDS ProcTable, TLC

CONSTANTS init, p1, p2, p3, idle, null

MCStatus == {-1}

(***************************************************************************)
(* The processes other than init are interchangeable: nothing in the       *)
(* module chooses among them.                                              *)
(***************************************************************************)
MCSymmetry == Permutations(Proc \ {InitProc})

=============================================================================
