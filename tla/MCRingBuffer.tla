---------------------------- MODULE MCRingBuffer ----------------------------
(***************************************************************************)
(* A finite instance of RingBuffer for TLC.                                *)
(***************************************************************************)
EXTENDS RingBuffer

CONSTANTS a, b

=============================================================================
