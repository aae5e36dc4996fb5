----------------------------- MODULE RingBuffer -----------------------------
(***************************************************************************)
(* buffer_t of ksrc/pilocvario.c: the circular buffer behind every pipe    *)
(* and every terminal.  Lengths are not negative: the callers measure them *)
(* in bytes of an existing buffer.                                         *)
(***************************************************************************)
EXTENDS Sequences, Integers

CONSTANTS
  Byte,    \* the characters
  Zero,    \* the character calloc fills the buffer with
  Size,    \* buffer->size
  MaxLen   \* bound: the longest source or destination of one call

ASSUME RingBufferAssumption ==
  /\ Zero \in Byte
  /\ Size \in Nat \ {0}
  /\ MaxLen \in Nat

VARIABLES
  buffered,  \* the array
  head,      \* index of the first byte
  tail,      \* index behind the last byte
  filled,    \* how many bytes are in use
  got        \* what the latest read_buffer copied into its destination

vars == <<buffered, head, tail, filled, got>>

TypeOK ==
  /\ buffered \in [0..(Size - 1) -> Byte]
  /\ head \in 0..(Size - 1)
  /\ tail \in 0..(Size - 1)
  /\ filled \in 0..Size
  /\ got \in Seq(Byte)

Init ==
  /\ buffered = [k \in 0..(Size - 1) |-> Zero]
  /\ head = 0 /\ tail = 0 /\ filled = 0
  /\ got = <<>>

AtMost(a, b) == IF a < b THEN a ELSE b

(***************************************************************************)
(* Fault: the byte counter is taken for the index of the first free byte.  *)
(***************************************************************************)
WrittenAtFilled(src, written) ==
  [k \in 0..(Size - 1) |->
     IF k >= filled /\ k - filled < written THEN src[k - filled + 1] ELSE buffered[k]]

(***************************************************************************)
(* The array after the copying loop of write_buffer: cell k is written in  *)
(* round (k - tail) % Size, if there is such a round.                      *)
(***************************************************************************)
Written(src, written) ==
  [k \in 0..(Size - 1) |->
     IF (k - tail) % Size < written THEN src[((k - tail) % Size) + 1] ELSE buffered[k]]

write_buffer(src) ==
  LET written == AtMost(Size - filled, Len(src))
  IN  /\ buffered' = Written(src, written)
      /\ tail' = (tail + written) % Size
      /\ filled' = filled + written
      /\ UNCHANGED <<head, got>>

(***************************************************************************)
(* How many bytes read_buffer reads, and the read itself.                  *)
(***************************************************************************)
Readable(len) == AtMost(filled, len)

read_buffer(len) ==
  /\ got' = [i \in 1..Readable(len) |-> buffered[(head + i - 1) % Size]]
  /\ head' = (head + Readable(len)) % Size
  /\ filled' = filled - Readable(len)
  /\ UNCHANGED <<buffered, tail>>

(***************************************************************************)
(* Fault: reset_buffer leaves the tail where it was.                       *)
(***************************************************************************)
reset_bufferKeepsTail ==
  /\ head' = 0 /\ filled' = 0
  /\ UNCHANGED <<buffered, tail, got>>

reset_buffer ==
  /\ head' = 0 /\ tail' = 0 /\ filled' = 0
  /\ UNCHANGED <<buffered, got>>

Next ==
  \/ \E n \in 0..MaxLen : \/ read_buffer(n)
                          \/ \E src \in [1..n -> Byte] : write_buffer(src)
  \/ reset_buffer

Spec == Init /\ [][Next]_vars

-----------------------------------------------------------------------------
(***************************************************************************)
(* The three counters agree: the free part of the array starts where the   *)
(* used part ends, also when both have wrapped around.  head and tail      *)
(* alone could not tell a full buffer from an empty one.                   *)
(***************************************************************************)
IndicesAgree == TypeOK /\ tail = (head + filled) % Size

(***************************************************************************)
(* The circular buffer implements the FIFO queue, for every sequence of    *)
(* writes, reads and resets: no byte is lost, repeated or reordered when   *)
(* the indices wrap around or a write is cut short.                        *)
(***************************************************************************)
Contents == [i \in 1..filled |-> buffered[(head + i - 1) % Size]]

Abstract == INSTANCE ByteQueue WITH queue <- Contents
ImplementsByteQueue == Abstract!Spec

=============================================================================
