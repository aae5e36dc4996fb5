------------------------------ MODULE MCMemory ------------------------------
(***************************************************************************)
(* Finite instances of Memory for TLC.                                     *)
(***************************************************************************)
EXTENDS Memory, TLC

CONSTANTS init, p1, p2, null

MCBoot == [text |-> 1, data |-> 1, stack |-> 1]
MCImage == {MCBoot, [text |-> 2, data |-> 3, stack |-> 1]}

MCFrame == 0..8
MCFewFrames == 0..7

MCSymmetry == Permutations(Proc \ {InitProc})

=============================================================================
