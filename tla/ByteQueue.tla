------------------------------ MODULE ByteQueue ------------------------------
(***************************************************************************)
(* What a buffer_t of ksrc/pilocvario.c promises: a FIFO queue of at most  *)
(* Size bytes that takes what fits and gives what it has.                  *)
(***************************************************************************)
EXTENDS Sequences, Integers

CONSTANTS
  Byte,    \* the characters
  Size,    \* the capacity
  MaxLen   \* bound: the longest source or destination of one call

VARIABLES
  queue,   \* the bytes written and not read yet, oldest first
  got      \* what the latest read_buffer copied into its destination

vars == <<queue, got>>

AtMost(a, b) == IF a < b THEN a ELSE b

Init == queue = <<>> /\ got = <<>>

Write(src) ==
  /\ queue' = queue \o SubSeq(src, 1, AtMost(Size - Len(queue), Len(src)))
  /\ UNCHANGED got

Read(len) ==
  /\ got' = SubSeq(queue, 1, AtMost(Len(queue), len))
  /\ queue' = SubSeq(queue, 1 + AtMost(Len(queue), len), Len(queue))

Reset == queue' = <<>> /\ UNCHANGED got

Next ==
  \/ \E n \in 0..MaxLen : \/ Read(n)
                          \/ \E src \in [1..n -> Byte] : Write(src)
  \/ Reset

Spec == Init /\ [][Next]_vars

=============================================================================
