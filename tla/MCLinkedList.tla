----------------------------- MODULE MCLinkedList -----------------------------
(***************************************************************************)
(* A finite instance of LinkedList for TLC.                                *)
(***************************************************************************)
EXTENDS LinkedList, TLC

CONSTANTS n1, n2, n3, n4, null

MCCodes == 1..2

=============================================================================
