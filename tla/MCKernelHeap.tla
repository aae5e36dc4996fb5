---------------------------- MODULE MCKernelHeap ----------------------------
(***************************************************************************)
(* A finite instance of KernelHeap for TLC.                                *)
(***************************************************************************)
EXTENDS KernelHeap

CONSTANT null

=============================================================================
