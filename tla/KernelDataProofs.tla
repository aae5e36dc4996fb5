-------------------------- MODULE KernelDataProofs --------------------------
(***************************************************************************)
(* Proofs about the data structures of the kernel: the circular buffer     *)
(* (RingBuffer), the frame table with the kernel's heap (FrameTable,       *)
(* KernelHeap), and the linked lists (LinkedList).                         *)
(***************************************************************************)
EXTENDS RingBuffer, KernelHeap, LinkedList,
        SequenceTheorems, FiniteSetTheorems, TLAPS

-----------------------------------------------------------------------------
(***************************************************************************)
(* The circular buffer: its counters agree, and it is a FIFO queue, for    *)
(* every size of the array and every bound on the lengths.                 *)
(***************************************************************************)

(***************************************************************************)
(* The indices of the C code are reduced once per step: an index never     *)
(* runs further than one array length past either end.                     *)
(***************************************************************************)
LEMMA ModuloSize ==
  /\ \A a \in 0..(Size - 1) : a % Size = a
  /\ \A a \in Size..(2 * Size - 1) : a % Size = a - Size
  /\ \A a \in (-Size)..(-1) : a % Size = a + Size
BY RingBufferAssumption

(***************************************************************************)
(* The smaller of two numbers.                                             *)
(***************************************************************************)
LEMMA AtMostBounds ==
  ASSUME NEW a \in Nat, NEW b \in Nat
  PROVE  /\ AtMost(a, b) \in Nat
         /\ AtMost(a, b) <= a /\ AtMost(a, b) <= b
BY DEF AtMost

(***************************************************************************)
(* An index that moves on by part of the array, and one that started from  *)
(* the other one.                                                          *)
(***************************************************************************)
LEMMA Advance ==
  ASSUME NEW h \in 0..(Size - 1), NEW f \in 0..Size, NEW w \in 0..(Size - f)
  PROVE  /\ (h + f) % Size \in 0..(Size - 1)
         /\ (((h + f) % Size) + w) % Size = (h + (f + w)) % Size
<1>1. Size \in Nat \ {0}
  BY RingBufferAssumption
<1>2. CASE h + f < Size
  BY <1>1, <1>2, ModuloSize
<1>3. CASE h + f >= Size
  <2>1. (h + f) % Size = h + f - Size
    BY <1>1, <1>3, ModuloSize
  <2>2. (h + (f + w)) % Size = h + (f + w) - Size
    BY <1>1, <1>3, ModuloSize
  <2>3. (h + f - Size + w) % Size = h + f - Size + w
    BY <1>1, <1>3, ModuloSize
  <2> QED BY <1>1, <1>3, <2>1, <2>2, <2>3
<1> QED BY <1>1, <1>2, <1>3

-----------------------------------------------------------------------------
(***************************************************************************)
(* IndicesAgree is inductive: it holds at the start and write_buffer,      *)
(* read_buffer and reset_buffer keep it.                                   *)
(***************************************************************************)
LEMMA InitIndicesAgree == Init => IndicesAgree
<1> SUFFICES ASSUME Init PROVE IndicesAgree
  OBVIOUS
<1>1. Size \in Nat \ {0} /\ Zero \in Byte
  BY RingBufferAssumption
<1>2. (0 + 0) % Size = 0
  BY <1>1, ModuloSize
<1>3. <<>> \in Seq(Byte)
  BY EmptySeq
<1> QED BY <1>1, <1>2, <1>3 DEF Init, IndicesAgree, TypeOK

LEMMA WriteKeeps ==
  ASSUME IndicesAgree, NEW src \in Seq(Byte), write_buffer(src)
  PROVE  IndicesAgree'
<1> DEFINE w == AtMost(Size - filled, Len(src))
<1>1. Size \in Nat \ {0} /\ head \in 0..(Size - 1) /\ tail \in 0..(Size - 1)
      /\ filled \in 0..Size /\ tail = (head + filled) % Size
      /\ buffered \in [0..(Size - 1) -> Byte] /\ got \in Seq(Byte)
  BY RingBufferAssumption DEF IndicesAgree, TypeOK
<1>2. w \in 0..(Size - filled) /\ w <= Len(src) /\ Len(src) \in Nat
  <2>1. Len(src) \in Nat /\ Size - filled \in Nat
    BY <1>1, LenProperties
  <2> QED BY <2>1, AtMostBounds
<1>3. buffered' = Written(src, w) /\ tail' = (tail + w) % Size
      /\ filled' = filled + w /\ UNCHANGED <<head, got>>
  BY DEF write_buffer
<1> HIDE DEF w
<1>4. buffered' \in [0..(Size - 1) -> Byte]
  <2> SUFFICES ASSUME NEW k \in 0..(Size - 1), (k - tail) % Size < w
               PROVE  src[((k - tail) % Size) + 1] \in Byte
    BY <1>1, <1>3 DEF Written
  <2>1. (k - tail) % Size \in Nat
    BY <1>1
  <2>2. ((k - tail) % Size) + 1 \in 1..Len(src)
    BY <1>2, <2>1
  <2> QED BY <2>2, ElementOfSeq
<1>5. tail' = (head' + filled') % Size
  BY <1>1, <1>2, <1>3, Advance
<1>6. tail' \in 0..(Size - 1) /\ head' \in 0..(Size - 1) /\ filled' \in 0..Size
  BY <1>1, <1>2, <1>3
<1>7. got' \in Seq(Byte)
  BY <1>1, <1>3
<1> QED BY <1>4, <1>5, <1>6, <1>7 DEF IndicesAgree, TypeOK

LEMMA ReadKeeps ==
  ASSUME IndicesAgree, NEW len \in Nat, read_buffer(len)
  PROVE  IndicesAgree'
<1> DEFINE r == Readable(len)
<1>1. Size \in Nat \ {0} /\ head \in 0..(Size - 1) /\ tail \in 0..(Size - 1)
      /\ filled \in 0..Size /\ tail = (head + filled) % Size
      /\ buffered \in [0..(Size - 1) -> Byte]
  BY RingBufferAssumption DEF IndicesAgree, TypeOK
<1>2. r \in 0..filled
  <2>1. filled \in Nat
    BY <1>1
  <2>2. AtMost(filled, len) \in Nat /\ AtMost(filled, len) <= filled
    BY <2>1, AtMostBounds
  <2> QED BY <2>1, <2>2 DEF Readable
<1>3. got' = [i \in 1..r |-> buffered[(head + i - 1) % Size]]
      /\ head' = (head + r) % Size /\ filled' = filled - r
      /\ UNCHANGED <<buffered, tail>>
  BY DEF read_buffer
<1> HIDE DEF r
<1>4. got' \in Seq(Byte)
  <2>1. \A i \in 1..r : buffered[(head + i - 1) % Size] \in Byte
    BY <1>1, <1>2
  <2> QED BY <1>2, <1>3, <2>1
<1>5. tail' = (head' + filled') % Size
  <2>1. r \in 0..Size /\ filled - r \in 0..(Size - r)
    BY <1>1, <1>2
  <2>2. (((head + r) % Size) + (filled - r)) % Size = (head + (r + (filled - r))) % Size
    BY <1>1, <2>1, Advance
  <2>3. r + (filled - r) = filled
    BY <1>1, <1>2
  <2> QED BY <1>1, <1>3, <2>2, <2>3
<1>6. head' \in 0..(Size - 1) /\ tail' \in 0..(Size - 1) /\ filled' \in 0..Size
  BY <1>1, <1>2, <1>3
<1>7. buffered' \in [0..(Size - 1) -> Byte]
  BY <1>1, <1>3
<1> QED BY <1>4, <1>5, <1>6, <1>7 DEF IndicesAgree, TypeOK

LEMMA ResetKeeps == IndicesAgree /\ reset_buffer => IndicesAgree'
<1>1. Size \in Nat \ {0}
  BY RingBufferAssumption
<1>2. (0 + 0) % Size = 0
  BY <1>1, ModuloSize
<1> QED BY <1>1, <1>2 DEF reset_buffer, IndicesAgree, TypeOK

(***************************************************************************)
(* What a step may be, with the types of its arguments.                    *)
(***************************************************************************)
LEMMA NextCases ==
  ASSUME Next
  PROVE  \/ \E n \in 0..MaxLen : read_buffer(n)
         \/ \E n \in 0..MaxLen : \E src \in [1..n -> Byte] :
              src \in Seq(Byte) /\ write_buffer(src)
         \/ reset_buffer
<1>1. ASSUME NEW n \in 0..MaxLen, NEW src \in [1..n -> Byte] PROVE src \in Seq(Byte)
  BY RingBufferAssumption
<1> QED BY <1>1 DEF Next

LEMMA StepIndicesAgree == IndicesAgree /\ [Next]_vars => IndicesAgree'
<1> SUFFICES ASSUME IndicesAgree, [Next]_vars PROVE IndicesAgree'
  OBVIOUS
<1>1. ASSUME NEW n \in 0..MaxLen, read_buffer(n) PROVE IndicesAgree'
  <2>1. n \in Nat
    BY RingBufferAssumption
  <2> QED BY <1>1, <2>1, ReadKeeps
<1>2. ASSUME NEW src \in Seq(Byte), write_buffer(src) PROVE IndicesAgree'
  BY <1>2, WriteKeeps
<1>3. CASE reset_buffer
  BY <1>3, ResetKeeps
<1>4. CASE UNCHANGED vars
  BY <1>4 DEF vars, IndicesAgree, TypeOK
<1> QED BY <1>1, <1>2, <1>3, <1>4, NextCases

(***************************************************************************)
(* The counters of buffer_t agree in every reachable state, for every Size *)
(* (write_buffer, read_buffer and reset_buffer of ksrc/pilocvario.c).      *)
(***************************************************************************)
THEOREM IndicesAlwaysAgree == Spec => []IndicesAgree
<1>1. Init => IndicesAgree
  BY InitIndicesAgree
<1>2. IndicesAgree /\ [Next]_vars => IndicesAgree'
  BY StepIndicesAgree
<1> QED BY <1>1, <1>2, PTL DEF Spec

-----------------------------------------------------------------------------
(***************************************************************************)
(* The distance from the first free cell, modulo Size, of the cell that is *)
(* the i-th from head: the cells in use come last.                         *)
(***************************************************************************)
LEMMA Distance ==
  ASSUME NEW h \in 0..(Size - 1), NEW f \in 0..Size, NEW i \in 1..Size
  PROVE  (((h + i - 1) % Size) - ((h + f) % Size)) % Size
           = IF i > f THEN i - 1 - f ELSE i - 1 - f + Size
<1> DEFINE cell == (h + i - 1) % Size
           free == (h + f) % Size
<1>1. Size \in Nat \ {0}
  BY RingBufferAssumption
<1>2. cell = IF h + i - 1 < Size THEN h + i - 1 ELSE h + i - 1 - Size
  BY <1>1, ModuloSize
<1>3. free = IF h + f < Size THEN h + f ELSE h + f - Size
  BY <1>1, ModuloSize
<1> HIDE DEF cell, free
<1>4. cell - free \in (-Size)..(Size - 1)
  BY <1>1, <1>2, <1>3
<1>5. (cell - free) % Size = IF cell - free < 0 THEN cell - free + Size ELSE cell - free
  <2>1. cell - free \in (-Size)..(-1) \/ cell - free \in 0..(Size - 1)
    BY <1>1, <1>4
  <2> QED BY <1>1, <2>1, ModuloSize
<1>6. (cell - free) % Size = IF i > f THEN i - 1 - f ELSE i - 1 - f + Size
  BY <1>1, <1>2, <1>3, <1>5
<1> QED BY <1>6 DEF cell, free

(***************************************************************************)
(* The queue that a buffer stands for, in one state or in the next.        *)
(***************************************************************************)
LEMMA QueueOfCells ==
  ASSUME NEW b \in [0..(Size - 1) -> Byte], NEW h \in 0..(Size - 1), NEW f \in 0..Size
  PROVE  LET q == [i \in 1..f |-> b[(h + i - 1) % Size]]
         IN  q \in Seq(Byte) /\ Len(q) = f /\ \A i \in 1..f : q[i] = b[(h + i - 1) % Size]
<1> DEFINE q == [i \in 1..f |-> b[(h + i - 1) % Size]]
<1>1. f \in Nat /\ h \in Nat /\ Size \in Nat \ {0}
  BY RingBufferAssumption
<1>2. ASSUME NEW i \in 1..f PROVE b[(h + i - 1) % Size] \in Byte
  <2>1. (h + i - 1) % Size \in 0..(Size - 1)
    BY <1>1
  <2> QED BY <1>1, <2>1
<1>3. q \in [1..f -> Byte]
  BY <1>2
<1> QED BY <1>1, <1>3

(***************************************************************************)
(* The queue that the array stands for, now and in the next state.         *)
(***************************************************************************)
LEMMA ContentsProperties ==
  ASSUME IndicesAgree
  PROVE  /\ Contents \in Seq(Byte)
         /\ Len(Contents) = filled
         /\ \A i \in 1..filled : Contents[i] = buffered[(head + i - 1) % Size]
<1>1. /\ buffered \in [0..(Size - 1) -> Byte]
      /\ head \in 0..(Size - 1) /\ filled \in 0..Size
  BY DEF IndicesAgree, TypeOK
<1> QED BY <1>1, QueueOfCells DEF Contents

LEMMA NextContentsProperties ==
  ASSUME IndicesAgree'
  PROVE  /\ Contents' \in Seq(Byte)
         /\ Len(Contents') = filled'
         /\ \A i \in 1..filled' : Contents'[i] = buffered'[(head' + i - 1) % Size]
<1>1. /\ buffered' \in [0..(Size - 1) -> Byte]
      /\ head' \in 0..(Size - 1) /\ filled' \in 0..Size
  BY DEF IndicesAgree, TypeOK
<1> QED BY <1>1, QueueOfCells DEF Contents

(***************************************************************************)
(* write_buffer appends what fits.                                         *)
(***************************************************************************)
LEMMA WriteAppends ==
  ASSUME IndicesAgree, IndicesAgree', NEW src \in Seq(Byte), write_buffer(src)
  PROVE  Abstract!Write(src)
<1> DEFINE w == AtMost(Size - filled, Len(src))
           s == SubSeq(src, 1, w)
<1>1. Size \in Nat \ {0} /\ head \in 0..(Size - 1) /\ filled \in 0..Size
      /\ tail = (head + filled) % Size /\ buffered \in [0..(Size - 1) -> Byte]
  BY RingBufferAssumption DEF IndicesAgree, TypeOK
<1>2. w \in 0..(Size - filled) /\ w <= Len(src) /\ Len(src) \in Nat
  <2>1. Len(src) \in Nat /\ Size - filled \in Nat
    BY <1>1, LenProperties
  <2> QED BY <2>1, AtMostBounds
<1>3. buffered' = Written(src, w) /\ filled' = filled + w /\ UNCHANGED <<head, got>>
  BY DEF write_buffer
<1>4. w = Abstract!AtMost(Size - Len(Contents), Len(src))
  BY ContentsProperties DEF AtMost, Abstract!AtMost
<1> HIDE DEF w
<1>5. s \in Seq(Byte) /\ Len(s) = w /\ \A i \in 1..w : s[i] = src[i]
  <2>1. \A i \in 1..w : src[i] \in Byte
    BY <1>2, ElementOfSeq
  <2>2. /\ s \in Seq(Byte) /\ Len(s) = IF 1 <= w THEN w - 1 + 1 ELSE 0
        /\ \A i \in 1..(w - 1 + 1) : s[i] = src[1 + i - 1]
    BY <1>2, <2>1, SubSeqProperties
  <2> QED BY <1>1, <1>2, <2>2
<1> HIDE DEF s
<1>6. /\ Contents \o s \in Seq(Byte) /\ Len(Contents \o s) = filled + w
      /\ \A i \in 1..(filled + w) :
           (Contents \o s)[i] = IF i <= filled THEN Contents[i] ELSE s[i - filled]
  <2>1. Contents \in Seq(Byte) /\ Len(Contents) = filled
    BY ContentsProperties
  <2>2. /\ Contents \o s \in Seq(Byte) /\ Len(Contents \o s) = Len(Contents) + Len(s)
        /\ \A i \in 1..(Len(Contents) + Len(s)) :
             (Contents \o s)[i] = IF i <= Len(Contents) THEN Contents[i] ELSE s[i - Len(Contents)]
    BY <1>5, <2>1, ConcatProperties
  <2> QED BY <1>5, <2>1, <2>2
<1>7. Contents' \in Seq(Byte) /\ Len(Contents') = filled + w
      /\ \A i \in 1..(filled + w) : Contents'[i] = buffered'[(head + i - 1) % Size]
  BY <1>3, NextContentsProperties
<1>8. ASSUME NEW i \in 1..(filled + w)
      PROVE  Contents'[i] = (Contents \o s)[i]
  <2> DEFINE k == (head + i - 1) % Size
  <2>1. k \in 0..(Size - 1) /\ i \in 1..Size
    BY <1>1, <1>2
  <2>2. (k - tail) % Size = IF i > filled THEN i - 1 - filled ELSE i - 1 - filled + Size
    BY <1>1, <2>1, Distance
  <2>3. Contents'[i] = IF (k - tail) % Size < w THEN src[((k - tail) % Size) + 1] ELSE buffered[k]
    BY <1>3, <1>7, <2>1 DEF Written
  <2> HIDE DEF k
  <2>4. CASE i <= filled
    <3>1. ~((k - tail) % Size < w)
      BY <1>1, <1>2, <2>1, <2>2, <2>4
    <3>2. Contents[i] = buffered[k] /\ (Contents \o s)[i] = Contents[i]
      BY <1>6, <2>4, <2>1, ContentsProperties DEF k
    <3> QED BY <2>3, <3>1, <3>2
  <2>5. CASE i > filled
    <3>1. (k - tail) % Size < w /\ ((k - tail) % Size) + 1 = i - filled /\ i - filled \in 1..w
      BY <1>1, <1>2, <2>1, <2>2, <2>5
    <3>2. (Contents \o s)[i] = s[i - filled]
      BY <1>1, <1>6, <2>1, <2>5
    <3> QED BY <1>5, <2>3, <3>1, <3>2
  <2>6. i <= filled \/ i > filled
    BY <1>1, <1>2
  <2> QED BY <2>4, <2>5, <2>6
<1>9. Contents' = Contents \o s
  BY <1>6, <1>7, <1>8, SeqEqual
<1> QED BY <1>3, <1>4, <1>9 DEF Abstract!Write, s

(***************************************************************************)
(* read_buffer takes what there is from the front.                         *)
(***************************************************************************)
LEMMA ReadTakes ==
  ASSUME IndicesAgree, IndicesAgree', NEW len \in Nat, read_buffer(len)
  PROVE  Abstract!Read(len)
<1> DEFINE r == Readable(len)
           front == SubSeq(Contents, 1, r)
           rest == SubSeq(Contents, 1 + r, filled)
<1>1. Size \in Nat \ {0} /\ head \in 0..(Size - 1) /\ filled \in 0..Size
  BY RingBufferAssumption DEF IndicesAgree, TypeOK
<1>2. r \in 0..filled
  <2>1. filled \in Nat
    BY <1>1
  <2>2. AtMost(filled, len) \in Nat /\ AtMost(filled, len) <= filled
    BY <2>1, AtMostBounds
  <2> QED BY <2>1, <2>2 DEF Readable
<1>3. got' = [i \in 1..r |-> buffered[(head + i - 1) % Size]]
      /\ head' = (head + r) % Size /\ filled' = filled - r /\ UNCHANGED buffered
  BY DEF read_buffer
<1>4. r = Abstract!AtMost(Len(Contents), len) /\ Len(Contents) = filled
  BY ContentsProperties DEF Readable, AtMost, Abstract!AtMost
<1>5. \A i \in 1..filled : Contents[i] \in Byte
  BY ContentsProperties, ElementOfSeq
<1> HIDE DEF r
<1>6. front \in Seq(Byte) /\ Len(front) = r /\ \A i \in 1..r : front[i] = Contents[i]
  <2>1. \A i \in 1..r : Contents[i] \in Byte
    BY <1>1, <1>2, <1>5
  <2>2. /\ front \in Seq(Byte) /\ Len(front) = IF 1 <= r THEN r - 1 + 1 ELSE 0
        /\ \A i \in 1..(r - 1 + 1) : front[i] = Contents[1 + i - 1]
    BY <1>2, <2>1, SubSeqProperties
  <2> QED BY <1>1, <1>2, <2>2
<1>7. rest \in Seq(Byte) /\ Len(rest) = filled - r
      /\ \A i \in 1..(filled - r) : rest[i] = Contents[r + i]
  <2>1. \A i \in (1 + r)..filled : Contents[i] \in Byte
    BY <1>1, <1>2, <1>5
  <2>2. 1 + r \in Int /\ filled \in Int
    BY <1>1, <1>2
  <2>3. /\ rest \in Seq(Byte)
        /\ Len(rest) = IF 1 + r <= filled THEN filled - (1 + r) + 1 ELSE 0
        /\ \A i \in 1..(filled - (1 + r) + 1) : rest[i] = Contents[(1 + r) + i - 1]
    BY <2>1, <2>2, SubSeqProperties
  <2> HIDE DEF rest
  <2>4. ASSUME NEW i \in 1..(filled - r) PROVE rest[i] = Contents[r + i]
    <3>1. i \in 1..(filled - (1 + r) + 1) /\ (1 + r) + i - 1 = r + i
      BY <1>1, <1>2
    <3> QED BY <2>3, <3>1
  <2> QED BY <1>1, <1>2, <2>3, <2>4
<1> HIDE DEF front, rest
<1>8. got' = front
  <2>1. got' \in Seq(Byte) /\ Len(got') = r
    <3>1. got' \in Seq(Byte)
      BY DEF IndicesAgree, TypeOK
    <3> QED BY <1>2, <1>3, <3>1
  <2>2. \A i \in 1..r : got'[i] = front[i]
    BY <1>1, <1>2, <1>3, <1>6, ContentsProperties
  <2> QED BY <1>6, <2>1, <2>2, SeqEqual
<1>9. Contents' = rest
  <2>1. Contents' \in Seq(Byte) /\ Len(Contents') = filled - r
        /\ \A i \in 1..(filled - r) : Contents'[i] = buffered[(head' + i - 1) % Size]
    BY <1>3, NextContentsProperties
  <2>2. ASSUME NEW i \in 1..(filled - r) PROVE Contents'[i] = rest[i]
    <3>1. (head' + (i - 1)) % Size = (head + (r + (i - 1))) % Size
      <4>1. r \in 0..Size /\ i - 1 \in 0..(Size - r)
        BY <1>1, <1>2
      <4> QED BY <1>1, <1>3, <4>1, Advance
    <3>2. head' + i - 1 = head' + (i - 1) /\ head + (r + (i - 1)) = head + (r + i) - 1
      BY <1>1, <1>2, <1>3
    <3>3. r + i \in 1..filled
      BY <1>1, <1>2
    <3>4. rest[i] = buffered[(head + (r + i) - 1) % Size]
      BY <1>7, <3>3, ContentsProperties
    <3> QED BY <2>1, <3>1, <3>2, <3>4
  <2> QED BY <1>7, <2>1, <2>2, SeqEqual
<1> QED BY <1>4, <1>8, <1>9 DEF Abstract!Read, front, rest

(***************************************************************************)
(* reset_buffer empties the queue.                                         *)
(***************************************************************************)
LEMMA ResetEmpties ==
  ASSUME IndicesAgree', reset_buffer
  PROVE  Abstract!Reset
<1>1. Contents' \in Seq(Byte) /\ Len(Contents') = 0
  BY NextContentsProperties DEF reset_buffer
<1>2. Contents' = <<>>
  BY <1>1, EmptySeq
<1> QED BY <1>2 DEF reset_buffer, Abstract!Reset

LEMMA InitIsAbstract == Init => Abstract!Init
<1> SUFFICES ASSUME Init PROVE Abstract!Init
  OBVIOUS
<1>1. Contents \in Seq(Byte) /\ Len(Contents) = 0
  BY InitIndicesAgree, ContentsProperties DEF Init
<1>2. Contents = <<>>
  BY <1>1, EmptySeq
<1> QED BY <1>2 DEF Init, Abstract!Init

(***************************************************************************)
(* Every step of the buffer is one of the queue.                           *)
(***************************************************************************)
LEMMA StepIsAbstract ==
  IndicesAgree /\ IndicesAgree' /\ [Next]_vars => [Abstract!Next]_(Abstract!vars)
<1> SUFFICES ASSUME IndicesAgree, IndicesAgree', [Next]_vars
             PROVE  [Abstract!Next]_(Abstract!vars)
  OBVIOUS
<1>1. ASSUME NEW n \in 0..MaxLen, read_buffer(n) PROVE Abstract!Next
  <2>1. n \in Nat
    BY RingBufferAssumption
  <2> QED BY <1>1, <2>1, ReadTakes DEF Abstract!Next
<1>2. ASSUME NEW n \in 0..MaxLen, NEW src \in [1..n -> Byte],
             src \in Seq(Byte), write_buffer(src)
      PROVE  Abstract!Next
  BY <1>2, WriteAppends DEF Abstract!Next
<1>3. CASE reset_buffer
  BY <1>3, ResetEmpties DEF Abstract!Next
<1>4. CASE UNCHANGED vars
  BY <1>4 DEF vars, Abstract!vars, Contents
<1> QED BY <1>1, <1>2, <1>3, <1>4, NextCases

(***************************************************************************)
(* The circular buffer is the FIFO queue ByteQueue: no sequence of calls   *)
(* of write_buffer, read_buffer and reset_buffer loses, repeats or         *)
(* reorders a byte, wherever the indices wrap around.                      *)
(***************************************************************************)
THEOREM BufferIsQueue == Spec => ImplementsByteQueue
<1>1. Init => Abstract!Init
  BY InitIsAbstract
<1>2. IndicesAgree /\ IndicesAgree' /\ [Next]_vars => [Abstract!Next]_(Abstract!vars)
  BY StepIsAbstract
<1> QED BY <1>1, <1>2, IndicesAlwaysAgree, PTL DEF Spec, ImplementsByteQueue, Abstract!Spec

-----------------------------------------------------------------------------
(***************************************************************************)
(* The frame table and the kernel's heap: the bit vector, the counts and   *)
(* the page table agree, and the allocator is a pool of frames, for every  *)
(* geometry of the memory.                                                 *)
(***************************************************************************)

(***************************************************************************)
(* A set of natural numbers that is not empty has a least member, and so   *)
(* a set that contains 0 and with a number its successor contains all:     *)
(* what is proved by induction below is stated as such a set.              *)
(***************************************************************************)
LEMMA LeastOfFinite ==
  ASSUME NEW T \in SUBSET Nat, IsFiniteSet(T), T # {}
  PROVE  \E x \in T : \A y \in T : x <= y
<1> SUFFICES ASSUME \A x \in T : \E y \in T : y < x PROVE FALSE
  OBVIOUS
<1> DEFINE Below(x) == {y \in T : y < x}
           n == Cardinality(T)
           rank == [x \in T |-> Cardinality(Below(x))]
<1>1. n \in Nat
  BY FS_CardinalityType
<1>2. \A x \in T : /\ IsFiniteSet(Below(x)) /\ Cardinality(Below(x)) \in Nat
                   /\ Cardinality(Below(x)) < n /\ Cardinality(Below(x)) # 0
  <2> SUFFICES ASSUME NEW x \in T
      PROVE  /\ IsFiniteSet(Below(x)) /\ Cardinality(Below(x)) \in Nat
             /\ Cardinality(Below(x)) < n /\ Cardinality(Below(x)) # 0
    OBVIOUS
  <2>1. Below(x) \in SUBSET T /\ Below(x) # T /\ Below(x) # {}
    OBVIOUS
  <2> HIDE DEF Below
  <2>2. IsFiniteSet(Below(x)) /\ Cardinality(Below(x)) <= n /\ Cardinality(Below(x)) # n
    BY <2>1, FS_Subset
  <2> HIDE DEF n
  <2>3. Cardinality(Below(x)) \in Nat
    BY <2>2, FS_CardinalityType
  <2>4. Cardinality(Below(x)) # 0
    BY <2>1, <2>2, FS_EmptySet
  <2> QED
    BY <1>1, <2>2, <2>3, <2>4
<1>3. \A x, y \in T : x < y => Cardinality(Below(x)) < Cardinality(Below(y))
  <2> SUFFICES ASSUME NEW x \in T, NEW y \in T, x < y
      PROVE  Cardinality(Below(x)) < Cardinality(Below(y))
    OBVIOUS
  <2>0. \A z \in T : z < x => z < y
    OBVIOUS
  <2>1. Below(x) \subseteq Below(y)
    BY <2>0
  <2>2. x \in Below(y) /\ x \notin Below(x)
    OBVIOUS
  <2> HIDE DEF Below
  <2>3. /\ Cardinality(Below(x)) <= Cardinality(Below(y))
        /\ Cardinality(Below(x)) # Cardinality(Below(y))
    BY <1>2, <2>1, <2>2, FS_Subset
  <2> QED
    BY <1>2, <2>3
<1> HIDE DEF Below
<1>4. rank \in [T -> 1..(n - 1)]
  <2> HIDE DEF n
  <2> QED
    BY <1>1, <1>2
<1>5. IsFiniteSet(1..(n - 1)) /\ Cardinality(1..(n - 1)) < n
  <2>1. n # 0
    BY FS_EmptySet
  <2> HIDE DEF n, rank
  <2>2. 1 \in Int /\ n - 1 \in Int
    BY <1>1
  <2>3. /\ IsFiniteSet(1..(n - 1))
        /\ Cardinality(1..(n - 1)) = IF 1 > n - 1 THEN 0 ELSE (n - 1) - 1 + 1
    BY <2>2, FS_Interval
  <2> QED
    BY <1>1, <2>1, <2>3
<1>6. PICK x, y \in T : x # y /\ rank[x] = rank[y]
  <2> HIDE DEF rank
  <2> QED
    BY <1>4, <1>5, FS_PigeonHole
<1>7. Cardinality(Below(x)) = Cardinality(Below(y))
  BY <1>6
<1>8. x < y \/ y < x
  BY <1>6
<1> QED
  BY <1>2, <1>3, <1>7, <1>8

LEMMA LeastOf ==
  ASSUME NEW T \in SUBSET Nat, T # {}
  PROVE  \E x \in T : \A y \in T : x <= y
<1>1. PICK n \in T : TRUE
  OBVIOUS
<1> DEFINE F == {y \in T : y <= n}
<1>2. F \in SUBSET Nat /\ n \in F /\ F \subseteq 0..n
  <2>1. n <= n /\ \A y \in T : y <= n => y \in 0..n
    BY <1>1
  <2> QED
    BY <1>1, <2>1
<1>3. IsFiniteSet(F)
  <2>1. IsFiniteSet(0..n)
    BY <1>1, FS_Interval
  <2> HIDE DEF F
  <2> QED
    BY <1>2, <2>1, FS_Subset
<1>4. PICK x \in F : \A y \in F : x <= y
  <2> HIDE DEF F
  <2> QED
    BY <1>2, <1>3, LeastOfFinite
<1>5. x \in T /\ \A y \in T : x <= y
  <2> SUFFICES ASSUME NEW y \in T PROVE x <= y
    BY <1>4
  <2>1. CASE y <= n
    BY <1>4, <2>1
  <2>2. CASE n < y
    BY <1>1, <1>4, <2>2
  <2> QED
    BY <1>1, <2>1, <2>2
<1> QED
  BY <1>5

LEMMA Induced ==
  ASSUME NEW S, 0 \in S, \A n \in Nat : n \in S => n + 1 \in S
  PROVE  Nat \subseteq S
<1> SUFFICES ASSUME NEW k \in Nat, k \notin S PROVE FALSE
  OBVIOUS
<1> DEFINE T == Nat \ S
<1>1. PICK x \in T : \A y \in T : x <= y
  <2>1. T \in SUBSET Nat /\ T # {}
    OBVIOUS
  <2> HIDE DEF T
  <2> QED
    BY <2>1, LeastOf
<1>2. x # 0 /\ x \in Nat
  OBVIOUS
<1>3. x - 1 \in Nat /\ ~(x <= x - 1) /\ x - 1 + 1 = x
  BY <1>2
<1>4. x - 1 \in S
  BY <1>1, <1>3
<1> QED
  BY <1>3, <1>4
-----------------------------------------------------------------------------
(***************************************************************************)
(* Every frame has a bit of its own.                                       *)
(***************************************************************************)
LEMMA BitPlaces ==
  ASSUME NEW a \in Nat, NEW b \in Nat,
         a \div CellSize = b \div CellSize, a % CellSize = b % CellSize
  PROVE  a = b
<1>1. CellSize \in Nat \ {0}
  BY FrameTableAssumption
<1>2. /\ a = (a \div CellSize) * CellSize + (a % CellSize)
      /\ b = (b \div CellSize) * CellSize + (b % CellSize)
  BY <1>1
<1> QED
  BY <1>2

LEMMA BitPlace ==
  ASSUME NEW a \in 0..TableSize
  PROVE  a \div CellSize \in Cell /\ a % CellSize \in 0..(CellSize - 1)
<1>1. CellSize \in Nat \ {0} /\ TableSize \in Nat
  BY FrameTableAssumption
<1>2. a % CellSize \in 0..(CellSize - 1) /\ a \div CellSize \in Nat
  BY <1>1
<1>3. a \div CellSize <= TableSize \div CellSize /\ TableSize \div CellSize \in Nat
  BY <1>1
<1> QED
  BY <1>2, <1>3 DEF Cell

Bits == [Cell -> SUBSET (0..(CellSize - 1))]

(***************************************************************************)
(* set_bit sets the bit of one frame, and no other.                        *)
(***************************************************************************)
LEMMA SetBit ==
  ASSUME NEW bits \in Bits, NEW i \in Frame, NEW bit \in {0, 1}
  PROVE  /\ set_bit(bits, i, bit) \in Bits
         /\ \A f \in Frame : get_bit(set_bit(bits, i, bit), f)
                              <=> IF f = i THEN bit = 1 ELSE get_bit(bits, f)
<1> DEFINE c == i \div CellSize
           o == i % CellSize
           new == IF bit = 1 THEN bits[c] \cup {o} ELSE bits[c] \ {o}
<1>1. TableSize \in Nat
  BY FrameTableAssumption
<1>2. i \in 0..TableSize
  BY <1>1 DEF Frame
<1>3. c \in Cell /\ o \in 0..(CellSize - 1)
  BY <1>2, BitPlace
<1>4. set_bit(bits, i, bit) = [bits EXCEPT ![c] = new]
  BY DEF set_bit
<1> HIDE DEF c, o
<1>5. bits[c] \subseteq 0..(CellSize - 1)
  BY <1>3 DEF Bits
<1>6. new \in SUBSET (0..(CellSize - 1))
  BY <1>3, <1>5
<1>7. \A x : x \in new <=> IF x = o THEN bit = 1 ELSE x \in bits[c]
  OBVIOUS
<1> HIDE DEF new
<1>8. set_bit(bits, i, bit) \in Bits
  BY <1>3, <1>4, <1>6 DEF Bits
<1>9. ASSUME NEW f \in Frame
      PROVE  get_bit(set_bit(bits, i, bit), f)
             <=> IF f = i THEN bit = 1 ELSE get_bit(bits, f)
  <2>1. f \in 0..TableSize /\ f \in Nat /\ i \in Nat
    BY <1>1 DEF Frame
  <2>2. f \div CellSize \in Cell
    BY <2>1, BitPlace
  <2>3. bits \in [Cell -> SUBSET (0..(CellSize - 1))]
    BY DEF Bits
  <2>4. set_bit(bits, i, bit)[f \div CellSize]
        = IF f \div CellSize = c THEN new ELSE bits[f \div CellSize]
    BY <1>4, <2>2, <2>3
  <2>5. f \div CellSize = c /\ f % CellSize = o => f = i
    BY <2>1, BitPlaces DEF c, o
  <2>6. f = i => f \div CellSize = c /\ f % CellSize = o
    BY DEF c, o
  <2> QED
    BY <1>7, <2>4, <2>5, <2>6 DEF get_bit
<1> QED
  BY <1>8, <1>9

-----------------------------------------------------------------------------
(***************************************************************************)
(* A table whose three parts agree.                                        *)
(***************************************************************************)
Agrees(ff) ==
  /\ ff \in FrameTableType
  /\ ff.filled = TableSize - Cardinality(FreeIn(ff))
  /\ \A f \in FreeIn(ff) : ff.avail_pfn <= f
  /\ ff.avail_pfn \in FreeIn(ff) \cup {TableSize}

LEMMA FramesAreFinite ==
  /\ IsFiniteSet(Frame) /\ Cardinality(Frame) = TableSize /\ Frame \subseteq Nat
  /\ \A F \in SUBSET Frame : IsFiniteSet(F) /\ Cardinality(F) \in 0..TableSize
<1>1. TableSize \in Nat
  BY FrameTableAssumption
<1>2. IsFiniteSet(0..(TableSize - 1)) /\ Cardinality(0..(TableSize - 1)) = TableSize
  <2>1. 0 \in Int /\ TableSize - 1 \in Int
    BY <1>1
  <2>2. /\ IsFiniteSet(0..(TableSize - 1))
        /\ Cardinality(0..(TableSize - 1))
           = IF 0 > TableSize - 1 THEN 0 ELSE (TableSize - 1) - 0 + 1
    BY <2>1, FS_Interval
  <2> QED
    BY <1>1, <2>2
<1>3. ASSUME NEW F \in SUBSET Frame PROVE IsFiniteSet(F) /\ Cardinality(F) \in 0..TableSize
  <2>1. IsFiniteSet(F) /\ Cardinality(F) <= TableSize
    BY <1>2, FS_Subset DEF Frame
  <2>2. Cardinality(F) \in Nat
    BY <2>1, FS_CardinalityType
  <2> QED
    BY <1>1, <2>1, <2>2
<1> QED
  BY <1>1, <1>2, <1>3 DEF Frame

(***************************************************************************)
(* The scan of get_frame ends at the first frame that is free.             *)
(***************************************************************************)
LEMMA ScanEnds ==
  ASSUME NEW bits \in Bits, NEW pfn \in 0..TableSize
  PROVE  /\ NextFree(bits, pfn) \in pfn..TableSize
         /\ NextFree(bits, pfn) = TableSize \/ ~get_bit(bits, NextFree(bits, pfn))
         /\ \A k \in pfn..(NextFree(bits, pfn) - 1) : get_bit(bits, k)
<1> DEFINE T == {n \in pfn..TableSize : n = TableSize \/ ~get_bit(bits, n)}
<1>1. TableSize \in Nat
  BY FrameTableAssumption
<1>2. T \in SUBSET Nat /\ TableSize \in T
  BY <1>1
<1>3. PICK x \in T : \A y \in T : x <= y
  <2> HIDE DEF T
  <2> QED
    BY <1>2, LeastOf
<1>4. ASSUME NEW k \in pfn..(x - 1) PROVE get_bit(bits, k)
  <2>1. k \in pfn..TableSize /\ ~(x <= k)
    BY <1>1, <1>3
  <2>2. k \notin T
    BY <1>3, <2>1
  <2> QED
    BY <2>1, <2>2
<1>5. \E n \in pfn..TableSize :
         /\ n = TableSize \/ ~get_bit(bits, n)
         /\ \A k \in pfn..(n - 1) : get_bit(bits, k)
  BY <1>3, <1>4
<1> QED
  BY <1>5 DEF NextFree
(***************************************************************************)
(* get_frame of a free frame: that frame is handed out and is no longer    *)
(* free, and the parts of the table still agree.                           *)
(***************************************************************************)
LEMMA FrameIsGot ==
  ASSUME NEW ff, Agrees(ff), NEW pfn \in FreeIn(ff)
  PROVE  /\ Agrees(get_frame(ff, pfn))
         /\ FreeIn(get_frame(ff, pfn)) = FreeIn(ff) \ {pfn}
         /\ Got(ff, pfn) = pfn
<1> DEFINE new == get_frame(ff, pfn)
           bits == set_bit(ff.bit_vector, pfn, 1)
           a == ff.avail_pfn
           F == FreeIn(ff)
<1>1. TableSize \in Nat
  BY FrameTableAssumption
<1>2. /\ ff.bit_vector \in Bits /\ a \in 0..TableSize /\ ff.filled \in 0..TableSize
      /\ ff.filled = TableSize - Cardinality(F)
      /\ \A f \in F : a <= f
      /\ a \in F \cup {TableSize}
  BY DEF Agrees, FrameTableType, Bits
<1>3. F \subseteq Frame /\ pfn \in Frame
  BY DEF FreeIn
<1>4. /\ IsFiniteSet(F) /\ Cardinality(F) \in 0..TableSize /\ Cardinality(F) # 0
      /\ Cardinality(F \ {pfn}) = Cardinality(F) - 1
  <2>1. IsFiniteSet(F) /\ Cardinality(F) \in 0..TableSize
    BY <1>3, FramesAreFinite
  <2>2. pfn \in F
    OBVIOUS
  <2> HIDE DEF F
  <2> QED
    BY <2>1, <2>2, FS_RemoveElement, FS_EmptySet
<1>5. ~(ff.filled >= TableSize)
  BY <1>1, <1>2, <1>4
<1>6. Got(ff, pfn) = pfn
  BY <1>5 DEF Got
<1>7. /\ new.bit_vector = bits /\ new.filled = ff.filled + 1
      /\ new.avail_pfn = IF pfn = a THEN NextFree(bits, pfn) ELSE a
  BY <1>5 DEF get_frame
<1>8. /\ bits \in Bits
      /\ \A f \in Frame : get_bit(bits, f) <=> f = pfn \/ get_bit(ff.bit_vector, f)
  BY <1>2, <1>3, SetBit
<1>9. FreeIn(new) = F \ {pfn}
  BY <1>7, <1>8 DEF FreeIn
<1>10. pfn \in 0..TableSize
  BY <1>1, <1>3 DEF Frame
<1>11. ASSUME pfn = a
      PROVE  /\ new.avail_pfn \in FreeIn(new) \cup {TableSize}
             /\ \A f \in FreeIn(new) : new.avail_pfn <= f
  <2> DEFINE n == NextFree(bits, pfn)
  <2>1. /\ n \in pfn..TableSize
        /\ n = TableSize \/ ~get_bit(bits, n)
        /\ \A k \in pfn..(n - 1) : get_bit(bits, k)
    BY <1>8, <1>10, ScanEnds
  <2>2. new.avail_pfn = n
    BY <1>7, <1>11
  <2> HIDE DEF n, new, bits, a, F
  <2>3. n \in 0..TableSize
    BY <1>1, <1>10, <2>1
  <2>4. n = TableSize \/ n \in F \ {pfn}
    <3> SUFFICES ASSUME n # TableSize PROVE n \in F \ {pfn}
      OBVIOUS
    <3>1. n \in Frame /\ ~get_bit(bits, n)
      BY <1>1, <2>1, <2>3 DEF Frame
    <3> QED
      BY <1>8, <3>1 DEF FreeIn, F
  <2>5. ASSUME NEW f \in F \ {pfn} PROVE n <= f
    <3>1. f \in Frame /\ ~get_bit(bits, f) /\ a <= f
      BY <1>2, <1>3, <1>8 DEF F, FreeIn
    <3>2. f \notin pfn..(n - 1) /\ f \in Int /\ pfn \in Int /\ n \in Int
      BY <1>1, <1>10, <2>1, <2>3, <3>1 DEF Frame
    <3> QED
      BY <1>11, <3>1, <3>2
  <2> QED
    BY <1>9, <2>2, <2>3, <2>4, <2>5
<1>12. ASSUME pfn # a
      PROVE  /\ new.avail_pfn \in FreeIn(new) \cup {TableSize}
             /\ \A f \in FreeIn(new) : new.avail_pfn <= f
  <2>1. new.avail_pfn = a
    BY <1>7, <1>12
  <2>2. a \in FreeIn(new) \cup {TableSize}
    BY <1>2, <1>9, <1>12
  <2> QED
    BY <1>2, <1>9, <2>1, <2>2
<1>13. /\ new.avail_pfn \in 0..TableSize /\ new.avail_pfn \in FreeIn(new) \cup {TableSize}
       /\ \A f \in FreeIn(new) : new.avail_pfn <= f
  <2>1. FreeIn(new) \subseteq 0..TableSize /\ TableSize \in 0..TableSize
    BY <1>1 DEF FreeIn, Frame
  <2> HIDE DEF new
  <2>2. /\ new.avail_pfn \in FreeIn(new) \cup {TableSize}
        /\ \A f \in FreeIn(new) : new.avail_pfn <= f
    <3> HIDE DEF F, a
    <3> QED
      BY <1>11, <1>12
  <2> QED
    BY <2>1, <2>2
<1>14. new.filled \in 0..TableSize /\ new.filled = TableSize - Cardinality(FreeIn(new))
  <2> HIDE DEF new, F
  <2> QED
    BY <1>1, <1>2, <1>4, <1>7, <1>9
<1>15. new \in FrameTableType
  <2>1. (ff.filled + 1) \in 0..TableSize
    BY <1>7, <1>14
  <2>2. (IF pfn = a THEN NextFree(bits, pfn) ELSE a) \in 0..TableSize
    BY <1>7, <1>13
  <2>3. new = [bit_vector |-> bits, filled |-> ff.filled + 1,
               avail_pfn |-> IF pfn = a THEN NextFree(bits, pfn) ELSE a]
    BY <1>5 DEF get_frame
  <2> QED
    BY <1>8, <2>1, <2>2, <2>3 DEF FrameTableType, Bits
<1> HIDE DEF new
<1>16. Agrees(new)
  BY <1>13, <1>14, <1>15 DEF Agrees
<1> QED
  BY <1>6, <1>9, <1>16 DEF new

(***************************************************************************)
(* vacate_frame of a frame in use.                                         *)
(***************************************************************************)
LEMMA FrameIsVacated ==
  ASSUME NEW ff, Agrees(ff), NEW pfn \in Frame \ FreeIn(ff)
  PROVE  /\ Agrees(vacate_frame(ff, pfn))
         /\ FreeIn(vacate_frame(ff, pfn)) = FreeIn(ff) \cup {pfn}
<1> DEFINE new == vacate_frame(ff, pfn)
           bits == set_bit(ff.bit_vector, pfn, 0)
           a == ff.avail_pfn
           F == FreeIn(ff)
<1>1. TableSize \in Nat
  BY FrameTableAssumption
<1>2. /\ ff.bit_vector \in Bits /\ a \in 0..TableSize /\ ff.filled \in 0..TableSize
      /\ ff.filled = TableSize - Cardinality(F)
      /\ \A f \in F : a <= f
      /\ a \in F \cup {TableSize}
  BY DEF Agrees, FrameTableType, Bits
<1>3. F \subseteq Frame /\ pfn \in Frame /\ pfn \notin F /\ pfn \in 0..TableSize
  BY <1>1 DEF FreeIn, Frame
<1>4. /\ Cardinality(F) \in 0..TableSize
      /\ Cardinality(F \cup {pfn}) \in 0..TableSize
      /\ Cardinality(F \cup {pfn}) = Cardinality(F) + 1
  <2>1. IsFiniteSet(F) /\ Cardinality(F) \in 0..TableSize
    BY <1>3, FramesAreFinite
  <2>2. F \cup {pfn} \in SUBSET Frame
    BY <1>3
  <2> HIDE DEF F
  <2> QED
    BY <1>3, <2>1, <2>2, FramesAreFinite, FS_AddElement
<1>5. /\ new.bit_vector = bits /\ new.filled = ff.filled - 1
      /\ new.avail_pfn = (IF pfn < a THEN pfn ELSE a)
  BY DEF vacate_frame, AvailAfterVacate
<1>6. /\ bits \in Bits
      /\ \A f \in Frame : get_bit(bits, f) <=> f # pfn /\ get_bit(ff.bit_vector, f)
  BY <1>2, <1>3, SetBit
<1>7. FreeIn(new) = F \cup {pfn}
  BY <1>3, <1>5, <1>6 DEF FreeIn
<1>8. new.filled \in 0..TableSize /\ new.filled = TableSize - Cardinality(FreeIn(new))
  <2> HIDE DEF new, F
  <2> QED
    BY <1>1, <1>2, <1>4, <1>5, <1>7
<1>9. /\ new.avail_pfn \in 0..TableSize /\ new.avail_pfn \in FreeIn(new) \cup {TableSize}
      /\ \A f \in FreeIn(new) : new.avail_pfn <= f
  <2>1. F \subseteq Int /\ a \in Int /\ pfn \in Int
    BY <1>1, <1>2, <1>3 DEF Frame
  <2> HIDE DEF new, F, a
  <2>2. CASE pfn < a
    <3>1. new.avail_pfn = pfn
      BY <1>5, <2>2
    <3>2. \A f \in F \cup {pfn} : pfn <= f
      BY <1>2, <2>1, <2>2
    <3> QED
      BY <1>3, <1>7, <3>1, <3>2
  <2>3. CASE ~(pfn < a)
    <3>1. new.avail_pfn = a
      BY <1>5, <2>3
    <3>2. \A f \in F \cup {pfn} : a <= f
      BY <1>2, <2>1, <2>3
    <3>3. a \in 0..TableSize /\ a \in F \cup {TableSize}
      BY <1>2
    <3> QED
      BY <1>7, <3>1, <3>2, <3>3
  <2> QED
    BY <2>2, <2>3
<1>10. new \in FrameTableType
  <2>1. (ff.filled - 1) \in 0..TableSize
    BY <1>5, <1>8
  <2>2. (IF pfn < a THEN pfn ELSE a) \in 0..TableSize
    BY <1>5, <1>9
  <2>3. new = [bit_vector |-> bits, filled |-> ff.filled - 1,
               avail_pfn |-> IF pfn < a THEN pfn ELSE a]
    BY DEF vacate_frame, AvailAfterVacate
  <2> QED
    BY <1>6, <2>1, <2>2, <2>3 DEF FrameTableType, Bits
<1> HIDE DEF new
<1>11. Agrees(new)
  BY <1>8, <1>9, <1>10 DEF Agrees
<1> QED
  BY <1>7, <1>11 DEF new
-----------------------------------------------------------------------------
(***************************************************************************)
(* Frame table and kernel page table m, and the frames U of user space:    *)
(* no frame is in two places.                                              *)
(***************************************************************************)
NoneTwice(m, U) ==
  /\ Agrees(m.ff)
  /\ DOMAIN m.pt \subseteq Page /\ Range(m.pt) \subseteq Frame /\ U \subseteq Frame
  /\ U \cap Range(m.pt) = {} /\ (U \cup Range(m.pt)) \cap FreeIn(m.ff) = {}
  /\ IsInjective(m.pt)

Unaccounted(m, U) == Frame \ (FreeIn(m.ff) \cup U \cup Range(m.pt))

(***************************************************************************)
(* A page is mapped: the frame that its entry named before is lost.        *)
(***************************************************************************)
LEMMA PageIsMapped ==
  ASSUME NEW m, NEW U, NoneTwice(m, U), NEW vpn \in Page, NEW pfn \in FreeIn(m.ff)
  PROVE  LET n == Mapped(m, vpn, pfn)
         IN  /\ NoneTwice(n, U)
             /\ DOMAIN n.pt = DOMAIN m.pt \cup {vpn}
             /\ FreeIn(n.ff) = FreeIn(m.ff) \ {pfn}
             /\ n.pt[vpn] = pfn
             /\ \A v \in DOMAIN m.pt \ {vpn} : n.pt[v] = m.pt[v]
             /\ Unaccounted(n, U) = Unaccounted(m, U)
                                    \cup {m.pt[v] : v \in DOMAIN m.pt \cap {vpn}}
<1> DEFINE n == Mapped(m, vpn, pfn)
<1>1. /\ Agrees(m.ff) /\ DOMAIN m.pt \subseteq Page /\ U \subseteq Frame
      /\ \A v \in DOMAIN m.pt : m.pt[v] \in Frame /\ m.pt[v] \notin U /\ m.pt[v] \notin FreeIn(m.ff)
      /\ U \cap FreeIn(m.ff) = {}
      /\ \A v, w \in DOMAIN m.pt : m.pt[v] = m.pt[w] => v = w
  BY DEF NoneTwice, Range, IsInjective
<1>2. /\ Agrees(get_frame(m.ff, pfn)) /\ Got(m.ff, pfn) = pfn
      /\ FreeIn(get_frame(m.ff, pfn)) = FreeIn(m.ff) \ {pfn}
  BY <1>1, FrameIsGot
<1>3. /\ n.ff = get_frame(m.ff, pfn)
      /\ DOMAIN n.pt = DOMAIN m.pt \cup {vpn}
      /\ \A v \in DOMAIN n.pt : n.pt[v] = IF v = vpn THEN pfn ELSE m.pt[v]
  BY <1>2 DEF Mapped
<1> HIDE DEF n
<1>4. pfn \in Frame /\ FreeIn(m.ff) \subseteq Frame
  BY DEF FreeIn
<1>5. \A v \in DOMAIN n.pt : n.pt[v] \in Frame /\ n.pt[v] \notin U /\ n.pt[v] \notin FreeIn(n.ff)
  BY <1>1, <1>2, <1>3, <1>4
<1>6. \A v, w \in DOMAIN n.pt : n.pt[v] = n.pt[w] => v = w
  BY <1>1, <1>3
<1>7. NoneTwice(n, U)
  <2>1. Agrees(n.ff) /\ DOMAIN n.pt \subseteq Page /\ U \cap FreeIn(n.ff) = {}
    BY <1>1, <1>2, <1>3
  <2>2. Range(n.pt) \subseteq Frame /\ U \cap Range(n.pt) = {} /\ Range(n.pt) \cap FreeIn(n.ff) = {}
    BY <1>5 DEF Range
  <2> QED
    BY <1>1, <1>6, <2>1, <2>2 DEF NoneTwice, IsInjective
<1>8. FreeIn(n.ff) = FreeIn(m.ff) \ {pfn}
  BY <1>2, <1>3
<1>9. \A f : f \in Range(n.pt) <=> f = pfn \/ \E v \in DOMAIN m.pt \ {vpn} : f = m.pt[v]
  BY <1>3 DEF Range
<1>10. \A f : f \in Range(m.pt) <=> \E v \in DOMAIN m.pt : f = m.pt[v]
  BY DEF Range
<1>11. ASSUME NEW f \in Frame
       PROVE  f \in Unaccounted(n, U) <=> f \in Unaccounted(m, U)
                                    \cup {m.pt[v] : v \in DOMAIN m.pt \cap {vpn}}
  <2>1. CASE f \in U \/ f \in FreeIn(m.ff)
    BY <1>1, <1>8, <1>9, <2>1 DEF Unaccounted
  <2>2. CASE f \notin U /\ f \notin FreeIn(m.ff)
    <3>1. f # pfn
      BY <2>2
    <3>2. f \in Unaccounted(n, U) <=> ~ \E v \in DOMAIN m.pt \ {vpn} : f = m.pt[v]
      BY <1>8, <1>9, <2>2, <3>1 DEF Unaccounted
    <3>3. f \in Unaccounted(m, U) <=> ~ \E v \in DOMAIN m.pt : f = m.pt[v]
      BY <1>10, <2>2 DEF Unaccounted
    <3> QED
      BY <1>1, <3>2, <3>3
  <2> QED
    BY <2>1, <2>2
<1>12. {m.pt[v] : v \in DOMAIN m.pt \cap {vpn}} \subseteq Frame
  BY <1>1
<1>13. Unaccounted(n, U) = Unaccounted(m, U) \cup {m.pt[v] : v \in DOMAIN m.pt \cap {vpn}}
  <2>1. Unaccounted(n, U) \subseteq Frame /\ Unaccounted(m, U) \subseteq Frame
    BY DEF Unaccounted
  <2> QED
    BY <1>11, <1>12, <2>1
<1> QED
  BY <1>3, <1>7, <1>8, <1>13 DEF n

(***************************************************************************)
(* A page of the kernel is taken away.                                     *)
(***************************************************************************)
LEMMA PageIsUnmapped ==
  ASSUME NEW m, NEW U, NoneTwice(m, U), NEW vpn \in DOMAIN m.pt
  PROVE  LET n == Unmap(m, vpn)
         IN  /\ NoneTwice(n, U)
             /\ DOMAIN n.pt = DOMAIN m.pt \ {vpn}
             /\ FreeIn(n.ff) = FreeIn(m.ff) \cup {m.pt[vpn]}
             /\ Unaccounted(n, U) = Unaccounted(m, U)
<1> DEFINE n == Unmap(m, vpn)
           pfn == m.pt[vpn]
<1>1. /\ Agrees(m.ff) /\ DOMAIN m.pt \subseteq Page /\ U \subseteq Frame
      /\ \A v \in DOMAIN m.pt : m.pt[v] \in Frame /\ m.pt[v] \notin U /\ m.pt[v] \notin FreeIn(m.ff)
      /\ U \cap FreeIn(m.ff) = {}
      /\ \A v, w \in DOMAIN m.pt : m.pt[v] = m.pt[w] => v = w
  BY DEF NoneTwice, Range, IsInjective
<1>2. pfn \in Frame \ FreeIn(m.ff)
  BY <1>1
<1>3. /\ Agrees(vacate_frame(m.ff, pfn))
      /\ FreeIn(vacate_frame(m.ff, pfn)) = FreeIn(m.ff) \cup {pfn}
  BY <1>1, <1>2, FrameIsVacated
<1>4. /\ n.ff = vacate_frame(m.ff, pfn)
      /\ DOMAIN n.pt = DOMAIN m.pt \ {vpn}
      /\ \A v \in DOMAIN n.pt : n.pt[v] = m.pt[v]
  BY DEF Unmap, Unmapped, Restrict
<1> HIDE DEF n
<1>5. \A v \in DOMAIN n.pt : n.pt[v] # pfn
  BY <1>1, <1>4
<1>6. FreeIn(n.ff) = FreeIn(m.ff) \cup {pfn}
  BY <1>3, <1>4
<1>7. \A f : f \in Range(n.pt) <=> f \in Range(m.pt) /\ f # pfn
  BY <1>4, <1>5 DEF Range
<1>8. pfn \in Range(m.pt)
  BY DEF Range
<1>9. NoneTwice(n, U)
  <2>1. Agrees(n.ff) /\ DOMAIN n.pt \subseteq Page /\ U \cap FreeIn(n.ff) = {}
    BY <1>1, <1>3, <1>4
  <2>2. /\ Range(n.pt) \subseteq Frame /\ U \cap Range(n.pt) = {}
        /\ Range(n.pt) \cap FreeIn(n.ff) = {}
    BY <1>6, <1>7 DEF NoneTwice
  <2>3. \A v, w \in DOMAIN n.pt : n.pt[v] = n.pt[w] => v = w
    BY <1>1, <1>4
  <2> QED
    BY <1>1, <2>1, <2>2, <2>3 DEF NoneTwice, IsInjective
<1>10. Unaccounted(n, U) = Unaccounted(m, U)
  <2> HIDE DEF pfn
  <2> QED
    BY <1>6, <1>7, <1>8 DEF Unaccounted
<1> QED
  BY <1>4, <1>6, <1>9, <1>10 DEF n
-----------------------------------------------------------------------------
(***************************************************************************)
(* The loop of SetKernelBrk that maps pages: after each round one frame    *)
(* more is in use, and what the new entries named before is lost.          *)
(***************************************************************************)
GrowingRun(g, m, last, n) ==
  g = [k \in 0..n |-> IF k = 0 THEN m ELSE MapAuto(g[k - 1], last + k)]

LEMMA GrowingRunIs ==
  ASSUME NEW m, NEW last \in Int, NEW n \in Nat, NEW g, GrowingRun(g, m, last, n)
  PROVE  g[0] = m /\ \A k \in 1..n : g[k] = MapAuto(g[k - 1], last + k)
<1> DEFINE Round(k) == IF k = 0 THEN m ELSE MapAuto(g[k - 1], last + k)
<1>1. SUFFICES \A k \in 0..n : g[k] = Round(k)
  <2>1. \A k \in 1..n : k \in 0..n /\ k # 0
    OBVIOUS
  <2> QED
    BY <2>1
<1>2. g = [k \in 0..n |-> Round(k)]
  BY DEF GrowingRun
<1> HIDE DEF Round
<1> QED
  BY <1>2

LEMMA GrowingRuns ==
  ASSUME NEW m, NEW last \in Int, NEW n \in Nat
  PROVE  \E g : GrowingRun(g, m, last, n)
<1> DEFINE S == {i \in Nat : \E g : GrowingRun(g, m, last, i)}
<1>1. 0 \in S
  <2>1. GrowingRun([k \in 0..0 |-> m], m, last, 0)
    BY DEF GrowingRun
  <2> QED
    BY <2>1
<1>2. ASSUME NEW i \in Nat, i \in S PROVE i + 1 \in S
  <2>1. PICK g : GrowingRun(g, m, last, i)
    BY <1>2
  <2>2. g[0] = m /\ \A k \in 1..i : g[k] = MapAuto(g[k - 1], last + k)
    <3>1. g[0] = m
      BY <2>1, GrowingRunIs
    <3>2. ASSUME NEW k \in 1..i PROVE g[k] = MapAuto(g[k - 1], last + k)
      BY <2>1, GrowingRunIs
    <3> QED
      BY <3>1, <3>2
  <2> DEFINE h == [k \in 0..(i + 1) |-> IF k = 0 THEN m ELSE MapAuto(g[k - 1], last + k)]
  <2>3. ASSUME NEW k \in 1..(i + 1) PROVE h[k - 1] = g[k - 1]
    <3>1. k - 1 \in 0..(i + 1) /\ (k - 1 = 0 \/ k - 1 \in 1..i)
      OBVIOUS
    <3>2. CASE k - 1 = 0
      BY <2>2, <3>1, <3>2
    <3>3. CASE k - 1 \in 1..i
      BY <2>2, <3>1, <3>3
    <3> QED
      BY <3>1, <3>2, <3>3
  <2> DEFINE h2 == [k \in 0..(i + 1) |-> IF k = 0 THEN m ELSE MapAuto(h[k - 1], last + k)]
  <2>4. \A k \in 0..(i + 1) : h[k] = h2[k]
    <3> SUFFICES ASSUME NEW k \in 0..(i + 1) PROVE h[k] = h2[k]
      OBVIOUS
    <3>1. CASE k = 0
      BY <3>1
    <3>2. CASE k # 0
      <4>1. k \in 1..(i + 1)
        BY <3>2
      <4>2. h[k] = MapAuto(g[k - 1], last + k)
        BY <3>2
      <4>3. h2[k] = MapAuto(h[k - 1], last + k)
        BY <3>2
      <4> HIDE DEF h, h2
      <4> QED
        BY <2>3, <4>1, <4>2, <4>3
    <3> QED
      BY <3>1, <3>2
  <2>5. h = h2
    BY <2>4
  <2>6. GrowingRun(h, m, last, i + 1)
    BY <2>5 DEF GrowingRun
  <2>7. i + 1 \in Nat
    OBVIOUS
  <2> HIDE DEF h
  <2> QED
    BY <2>6, <2>7
<1>3. n \in S
  <2> HIDE DEF S
  <2> QED
    BY <1>1, <1>2, Induced
<1> QED
  BY <1>3

LEMMA GrownByARun ==
  ASSUME NEW m, NEW last \in Int, NEW n \in Nat
  PROVE  \E g : GrowingRun(g, m, last, n) /\ Grown(m, last, n) = g[n]
<1> DEFINE g == CHOOSE x : GrowingRun(x, m, last, n)
<1>1. GrowingRun(g, m, last, n)
  BY GrowingRuns
<1>2. Grown(m, last, n) = g[n]
  BY DEF Grown, GrowingRun
<1> HIDE DEF g
<1> QED
  BY <1>1, <1>2
(***************************************************************************)
(* What the loop leaves.                                                   *)
(***************************************************************************)
LEMMA HeapGrown ==
  ASSUME NEW m, NEW U, NoneTwice(m, U), NEW last \in Int, NEW n \in Nat,
         (last + 1)..(last + n) \subseteq Page, n <= Cardinality(FreeIn(m.ff))
  PROVE  LET e == Grown(m, last, n)
         IN  /\ NoneTwice(e, U)
             /\ DOMAIN e.pt = DOMAIN m.pt \cup (last + 1)..(last + n)
             /\ FreeIn(e.ff) \subseteq FreeIn(m.ff)
             /\ Unaccounted(e, U)
                = Unaccounted(m, U)
                  \cup {m.pt[v] : v \in DOMAIN m.pt \cap (last + 1)..(last + n)}
<1> DEFINE New(k) == (last + 1)..(last + k)
           Done(e, k) ==
             /\ NoneTwice(e, U)
             /\ DOMAIN e.pt = DOMAIN m.pt \cup New(k)
             /\ \A v \in DOMAIN m.pt \ New(k) : e.pt[v] = m.pt[v]
             /\ FreeIn(e.ff) \subseteq FreeIn(m.ff)
             /\ Cardinality(FreeIn(e.ff)) = Cardinality(FreeIn(m.ff)) - k
             /\ Unaccounted(e, U)
                = Unaccounted(m, U) \cup {m.pt[v] : v \in DOMAIN m.pt \cap New(k)}
<1>1. PICK g : GrowingRun(g, m, last, n) /\ Grown(m, last, n) = g[n]
  BY GrownByARun
<1>2. g[0] = m /\ \A k \in 1..n : g[k] = MapAuto(g[k - 1], last + k)
  <2>1. GrowingRun(g, m, last, n)
    BY <1>1
  <2>2. g[0] = m
    BY <2>1, GrowingRunIs
  <2>3. ASSUME NEW k \in 1..n PROVE g[k] = MapAuto(g[k - 1], last + k)
    BY <2>1, GrowingRunIs
  <2> QED
    BY <2>2, <2>3
<1> DEFINE S == {k \in Nat : k <= n => Done(g[k], k)}
<1>3. Cardinality(FreeIn(m.ff)) \in Nat
  BY FramesAreFinite DEF FreeIn
<1>4. 0 \in S
  <2>1. New(0) = {}
    OBVIOUS
  <2> HIDE DEF New
  <2>2. Done(m, 0)
    BY <1>3, <2>1
  <2> HIDE DEF Done
  <2> QED
    BY <1>2, <2>2
<1>5. ASSUME NEW k \in Nat, k \in S PROVE k + 1 \in S
  <2> SUFFICES ASSUME k + 1 <= n PROVE Done(g[k + 1], k + 1)
    OBVIOUS
  <2> DEFINE e == g[k]
             vpn == last + (k + 1)
             pfn == AutoAssigned(e.ff)
  <2>1. Done(e, k)
    BY <1>5
  <2>2. k + 1 \in 1..n /\ (k + 1) - 1 = k
    OBVIOUS
  <2>3. g[k + 1] = MapAuto(e, vpn)
    BY <1>2, <2>2
  <2>4. /\ New(k + 1) = New(k) \cup {vpn} /\ vpn \notin New(k) /\ vpn \in New(k + 1)
        /\ New(k + 1) \subseteq New(n)
    OBVIOUS
  <2>5. vpn \in Page
    BY <2>4
  <2> HIDE DEF e, vpn, New, S
  <2>6. Cardinality(FreeIn(e.ff)) # 0
    BY <1>3, <2>1, <2>2
  <2>7. pfn \in FreeIn(e.ff)
    <3>1. Agrees(e.ff)
      BY <2>1 DEF NoneTwice
    <3>2. FreeIn(e.ff) # {}
      BY <2>6, FS_EmptySet
    <3>3. TableSize \notin FreeIn(e.ff) /\ \A f \in FreeIn(e.ff) : f < TableSize
      BY FrameTableAssumption DEF FreeIn, Frame
    <3>4. /\ e.ff.avail_pfn \in FreeIn(e.ff) \cup {TableSize}
          /\ \A f \in FreeIn(e.ff) : e.ff.avail_pfn <= f
      BY <3>1 DEF Agrees
    <3>5. e.ff.avail_pfn # TableSize
      <4>1. PICK f \in FreeIn(e.ff) : TRUE
        BY <3>2
      <4>2. f \in Int /\ TableSize \in Int
        BY FrameTableAssumption DEF FreeIn, Frame
      <4> QED
        BY <3>3, <3>4, <4>1, <4>2
    <3> QED
      BY <3>4, <3>5 DEF AutoAssigned
  <2> DEFINE x == Mapped(e, vpn, pfn)
  <2>8. /\ NoneTwice(x, U)
        /\ DOMAIN x.pt = DOMAIN e.pt \cup {vpn}
        /\ FreeIn(x.ff) = FreeIn(e.ff) \ {pfn}
        /\ \A v \in DOMAIN e.pt \ {vpn} : x.pt[v] = e.pt[v]
        /\ Unaccounted(x, U) = Unaccounted(e, U) \cup {e.pt[v] : v \in DOMAIN e.pt \cap {vpn}}
    BY <2>1, <2>5, <2>7, PageIsMapped
  <2>9. g[k + 1] = x
    BY <2>3 DEF MapAuto
  <2> HIDE DEF x
  <2>10. /\ DOMAIN x.pt = DOMAIN m.pt \cup New(k + 1)
         /\ \A v \in DOMAIN m.pt \ New(k + 1) : x.pt[v] = m.pt[v]
         /\ FreeIn(x.ff) \subseteq FreeIn(m.ff)
    BY <2>1, <2>4, <2>8
  <2>11. Cardinality(FreeIn(x.ff)) = Cardinality(FreeIn(m.ff)) - (k + 1)
    <3>1. IsFiniteSet(FreeIn(e.ff))
      BY FramesAreFinite DEF FreeIn
    <3>2. Cardinality(FreeIn(e.ff) \ {pfn}) = Cardinality(FreeIn(e.ff)) - 1
      BY <2>7, <3>1, FS_RemoveElement
    <3> QED
      BY <1>3, <2>1, <2>8, <3>2
  <2>12. {e.pt[v] : v \in DOMAIN e.pt \cap {vpn}} = {m.pt[v] : v \in DOMAIN m.pt \cap {vpn}}
    BY <2>1, <2>4
  <2>13. Unaccounted(x, U) = Unaccounted(m, U) \cup {m.pt[v] : v \in DOMAIN m.pt \cap New(k + 1)}
    BY <2>1, <2>4, <2>8, <2>12
  <2> QED
    BY <2>8, <2>9, <2>10, <2>11, <2>13
<1>6. n \in S
  <2> HIDE DEF S
  <2> QED
    BY <1>4, <1>5, Induced
<1>7. Done(g[n], n)
  BY <1>6
<1> QED
  BY <1>1, <1>7
(***************************************************************************)
(* The loop that takes pages away.                                         *)
(***************************************************************************)
ShrinkRound(x, last, k) == Unmap(x, last - (k - 1))

ShrinkingRun(g, m, last, n) ==
  g = [k \in 0..n |-> IF k = 0 THEN m ELSE ShrinkRound(g[k - 1], last, k)]

LEMMA ShrinkingRunIs ==
  ASSUME NEW m, NEW last \in Int, NEW n \in Nat, NEW g, ShrinkingRun(g, m, last, n)
  PROVE  g[0] = m /\ \A k \in 1..n : g[k] = ShrinkRound(g[k - 1], last, k)
<1> DEFINE Round(k) == IF k = 0 THEN m ELSE ShrinkRound(g[k - 1], last, k)
<1>1. SUFFICES \A k \in 0..n : g[k] = Round(k)
  <2>1. \A k \in 1..n : k \in 0..n /\ k # 0
    OBVIOUS
  <2> QED
    BY <2>1
<1>2. g = [k \in 0..n |-> Round(k)]
  BY DEF ShrinkingRun
<1> HIDE DEF Round
<1> QED
  BY <1>2

LEMMA ShrinkingRuns ==
  ASSUME NEW m, NEW last \in Int, NEW n \in Nat
  PROVE  \E g : ShrinkingRun(g, m, last, n)
<1> DEFINE S == {i \in Nat : \E g : ShrinkingRun(g, m, last, i)}
<1>1. 0 \in S
  <2>1. ShrinkingRun([k \in 0..0 |-> m], m, last, 0)
    BY DEF ShrinkingRun
  <2> QED
    BY <2>1
<1>2. ASSUME NEW i \in Nat, i \in S PROVE i + 1 \in S
  <2>1. PICK g : ShrinkingRun(g, m, last, i)
    BY <1>2
  <2>2. g[0] = m /\ \A k \in 1..i : g[k] = ShrinkRound(g[k - 1], last, k)
    <3>1. g[0] = m
      BY <2>1, ShrinkingRunIs
    <3>2. ASSUME NEW k \in 1..i PROVE g[k] = ShrinkRound(g[k - 1], last, k)
      BY <2>1, ShrinkingRunIs
    <3> QED
      BY <3>1, <3>2
  <2> DEFINE h == [k \in 0..(i + 1) |-> IF k = 0 THEN m ELSE ShrinkRound(g[k - 1], last, k)]
  <2>3. ASSUME NEW k \in 1..(i + 1) PROVE h[k - 1] = g[k - 1]
    <3>1. k - 1 \in 0..(i + 1) /\ (k - 1 = 0 \/ k - 1 \in 1..i)
      OBVIOUS
    <3>2. CASE k - 1 = 0
      BY <2>2, <3>1, <3>2
    <3>3. CASE k - 1 \in 1..i
      BY <2>2, <3>1, <3>3
    <3> QED
      BY <3>1, <3>2, <3>3
  <2> DEFINE h2 == [k \in 0..(i + 1) |-> IF k = 0 THEN m ELSE ShrinkRound(h[k - 1], last, k)]
  <2>4. \A k \in 0..(i + 1) : h[k] = h2[k]
    <3> SUFFICES ASSUME NEW k \in 0..(i + 1) PROVE h[k] = h2[k]
      OBVIOUS
    <3>1. CASE k = 0
      BY <3>1
    <3>2. CASE k # 0
      <4>1. k \in 1..(i + 1)
        BY <3>2
      <4>2. h[k] = ShrinkRound(g[k - 1], last, k)
        BY <3>2
      <4>3. h2[k] = ShrinkRound(h[k - 1], last, k)
        BY <3>2
      <4> HIDE DEF h, h2
      <4> QED
        BY <2>3, <4>1, <4>2, <4>3
    <3> QED
      BY <3>1, <3>2
  <2>5. h = h2
    BY <2>4
  <2>6. ShrinkingRun(h, m, last, i + 1)
    BY <2>5 DEF ShrinkingRun
  <2>7. i + 1 \in Nat
    OBVIOUS
  <2> HIDE DEF h
  <2> QED
    BY <2>6, <2>7
<1>3. n \in S
  <2> HIDE DEF S
  <2> QED
    BY <1>1, <1>2, Induced
<1> QED
  BY <1>3

LEMMA ShrunkByARun ==
  ASSUME NEW m, NEW last \in Int, NEW n \in Nat
  PROVE  \E g : ShrinkingRun(g, m, last, n) /\ Shrunk(m, last, n) = g[n]
<1> DEFINE g == CHOOSE x : ShrinkingRun(x, m, last, n)
<1>1. ShrinkingRun(g, m, last, n)
  BY ShrinkingRuns
<1>2. Shrunk(m, last, n) = g[n]
  BY DEF Shrunk, ShrinkingRun, ShrinkRound
<1> HIDE DEF g
<1> QED
  BY <1>1, <1>2
LEMMA HeapShrunk ==
  ASSUME NEW m, NEW U, NoneTwice(m, U), NEW last \in Int, NEW n \in Nat,
         (last - (n - 1))..last \subseteq DOMAIN m.pt
  PROVE  LET e == Shrunk(m, last, n)
         IN  /\ NoneTwice(e, U)
             /\ DOMAIN e.pt = DOMAIN m.pt \ (last - (n - 1))..last
             /\ FreeIn(m.ff) \subseteq FreeIn(e.ff)
             /\ Unaccounted(e, U) = Unaccounted(m, U)
<1> DEFINE Old(k) == (last - (k - 1))..last
           Done(e, k) ==
             /\ NoneTwice(e, U)
             /\ DOMAIN e.pt = DOMAIN m.pt \ Old(k)
             /\ FreeIn(m.ff) \subseteq FreeIn(e.ff)
             /\ Unaccounted(e, U) = Unaccounted(m, U)
<1>1. PICK g : ShrinkingRun(g, m, last, n) /\ Shrunk(m, last, n) = g[n]
  BY ShrunkByARun
<1>2. g[0] = m /\ \A k \in 1..n : g[k] = ShrinkRound(g[k - 1], last, k)
  <2> HIDE DEF Old, Done
  <2>1. ShrinkingRun(g, m, last, n)
    BY <1>1
  <2>2. g[0] = m
    BY <2>1, ShrinkingRunIs
  <2>3. ASSUME NEW k \in 1..n PROVE g[k] = ShrinkRound(g[k - 1], last, k)
    BY <2>1, ShrinkingRunIs, SMTT(20)
  <2> QED
    BY <2>2, <2>3
<1> DEFINE S == {k \in Nat : k <= n => Done(g[k], k)}
<1>3. 0 \in S
  <2>1. Old(0) = {}
    OBVIOUS
  <2> HIDE DEF Old
  <2>2. Done(m, 0)
    BY <2>1
  <2> HIDE DEF Done
  <2> QED
    BY <1>2, <2>2
<1>4. ASSUME NEW k \in Nat, k \in S PROVE k + 1 \in S
  <2> SUFFICES ASSUME k + 1 <= n PROVE Done(g[k + 1], k + 1)
    OBVIOUS
  <2> DEFINE e == g[k]
             vpn == last - ((k + 1) - 1)
             x == Unmap(e, vpn)
  <2>1. Done(e, k)
    BY <1>4
  <2>2. k + 1 \in 1..n /\ (k + 1) - 1 = k
    OBVIOUS
  <2>3. g[k + 1] = x
    BY <1>2, <2>2 DEF ShrinkRound
  <2>4. /\ Old(k + 1) = Old(k) \cup {vpn} /\ vpn \notin Old(k) /\ vpn \in Old(n)
    OBVIOUS
  <2>5. vpn \in DOMAIN e.pt
    BY <2>1, <2>4
  <2> HIDE DEF e, vpn, Old, S
  <2>6. /\ NoneTwice(x, U)
        /\ DOMAIN x.pt = DOMAIN e.pt \ {vpn}
        /\ FreeIn(x.ff) = FreeIn(e.ff) \cup {e.pt[vpn]}
        /\ Unaccounted(x, U) = Unaccounted(e, U)
    BY <2>1, <2>5, PageIsUnmapped
  <2> HIDE DEF x
  <2>7. Done(x, k + 1)
    BY <2>1, <2>4, <2>6
  <2> HIDE DEF Done
  <2> QED
    BY <2>3, <2>7
<1>5. n \in S
  <2> HIDE DEF S
  <2> QED
    BY <1>3, <1>4, Induced
<1>6. Done(g[n], n)
  BY <1>5
<1> QED
  BY <1>1, <1>6

-----------------------------------------------------------------------------
(***************************************************************************)
(* The loop of VM_setup.                                                   *)
(***************************************************************************)
BootRound(x, k) == IF MappedAtBoot(k - 1) THEN MapFixed(x, k - 1) ELSE x

BootingRun(g, m, n) ==
  g = [k \in 0..n |-> IF k = 0 THEN m ELSE BootRound(g[k - 1], k)]

LEMMA BootingRunIs ==
  ASSUME NEW m, NEW n \in Nat, NEW g, BootingRun(g, m, n)
  PROVE  g[0] = m /\ \A k \in 1..n : g[k] = BootRound(g[k - 1], k)
<1> DEFINE Round(k) == IF k = 0 THEN m ELSE BootRound(g[k - 1], k)
<1>1. SUFFICES \A k \in 0..n : g[k] = Round(k)
  <2>1. \A k \in 1..n : k \in 0..n /\ k # 0
    OBVIOUS
  <2> QED
    BY <2>1
<1>2. g = [k \in 0..n |-> Round(k)]
  BY DEF BootingRun
<1> HIDE DEF Round
<1> QED
  BY <1>2

LEMMA BootingRuns ==
  ASSUME NEW m, NEW n \in Nat
  PROVE  \E g : BootingRun(g, m, n)
<1> DEFINE S == {i \in Nat : \E g : BootingRun(g, m, i)}
<1>1. 0 \in S
  <2>1. BootingRun([k \in 0..0 |-> m], m, 0)
    BY DEF BootingRun
  <2> QED
    BY <2>1
<1>2. ASSUME NEW i \in Nat, i \in S PROVE i + 1 \in S
  <2>1. PICK g : BootingRun(g, m, i)
    BY <1>2
  <2>2. g[0] = m /\ \A k \in 1..i : g[k] = BootRound(g[k - 1], k)
    <3>1. g[0] = m
      BY <2>1, BootingRunIs
    <3>2. ASSUME NEW k \in 1..i PROVE g[k] = BootRound(g[k - 1], k)
      BY <2>1, BootingRunIs
    <3> QED
      BY <3>1, <3>2
  <2> DEFINE h == [k \in 0..(i + 1) |-> IF k = 0 THEN m ELSE BootRound(g[k - 1], k)]
  <2>3. ASSUME NEW k \in 1..(i + 1) PROVE h[k - 1] = g[k - 1]
    <3>1. k - 1 \in 0..(i + 1) /\ (k - 1 = 0 \/ k - 1 \in 1..i)
      OBVIOUS
    <3>2. CASE k - 1 = 0
      BY <2>2, <3>1, <3>2
    <3>3. CASE k - 1 \in 1..i
      BY <2>2, <3>1, <3>3
    <3> QED
      BY <3>1, <3>2, <3>3
  <2> DEFINE h2 == [k \in 0..(i + 1) |-> IF k = 0 THEN m ELSE BootRound(h[k - 1], k)]
  <2>4. \A k \in 0..(i + 1) : h[k] = h2[k]
    <3> SUFFICES ASSUME NEW k \in 0..(i + 1) PROVE h[k] = h2[k]
      OBVIOUS
    <3>1. CASE k = 0
      BY <3>1
    <3>2. CASE k # 0
      <4>1. k \in 1..(i + 1)
        BY <3>2
      <4>2. h[k] = BootRound(g[k - 1], k)
        BY <3>2
      <4>3. h2[k] = BootRound(h[k - 1], k)
        BY <3>2
      <4> HIDE DEF h, h2
      <4> QED
        BY <2>3, <4>1, <4>2, <4>3
    <3> QED
      BY <3>1, <3>2
  <2>5. h = h2
    BY <2>4
  <2>6. BootingRun(h, m, i + 1)
    BY <2>5 DEF BootingRun
  <2>7. i + 1 \in Nat
    OBVIOUS
  <2> HIDE DEF h
  <2> QED
    BY <2>6, <2>7
<1>3. n \in S
  <2> HIDE DEF S
  <2> QED
    BY <1>1, <1>2, Induced
<1> QED
  BY <1>3

LEMMA BootedByARun ==
  ASSUME NEW m
  PROVE  \E g : BootingRun(g, m, Pages) /\ Booted(m) = g[Pages]
<1> DEFINE g == CHOOSE x : BootingRun(x, m, Pages)
<1>1. BootingRun(g, m, Pages)
  BY KernelHeapAssumption, BootingRuns
<1>2. Booted(m) = g[Pages]
  BY DEF Booted, BootRound, BootingRun
<1> HIDE DEF g
<1> QED
  BY <1>1, <1>2

LEMMA KernelBooted ==
  ASSUME NEW m, Agrees(m.ff), FreeIn(m.ff) = Frame, DOMAIN m.pt = {}
  PROVE  LET e == Booted(m)
         IN  /\ NoneTwice(e, {})
             /\ DOMAIN e.pt = {v \in Page : MappedAtBoot(v)}
             /\ Unaccounted(e, {}) = {}
<1> DEFINE Old(k) == {v \in 0..(k - 1) : MappedAtBoot(v)}
           Done(e, k) ==
             /\ NoneTwice(e, {})
             /\ DOMAIN e.pt = Old(k)
             /\ FreeIn(e.ff) = Frame \ Old(k)
             /\ Unaccounted(e, {}) = {}
<1>1. PICK g : BootingRun(g, m, Pages) /\ Booted(m) = g[Pages]
  BY BootedByARun
<1>2. Pages \in Nat /\ TableSize \in Nat /\ Pages <= TableSize
  BY FrameTableAssumption, KernelHeapAssumption
<1>3. g[0] = m /\ \A k \in 1..Pages : g[k] = BootRound(g[k - 1], k)
  <2>1. BootingRun(g, m, Pages)
    BY <1>1
  <2>2. g[0] = m
    BY <1>2, <2>1, BootingRunIs
  <2>3. ASSUME NEW k \in 1..Pages PROVE g[k] = BootRound(g[k - 1], k)
    BY <1>2, <2>1, BootingRunIs
  <2> QED
    BY <2>2, <2>3
<1> DEFINE S == {k \in Nat : k <= Pages => Done(g[k], k)}
<1>4. 0 \in S
  <2>1. Old(0) = {}
    OBVIOUS
  <2> HIDE DEF Old
  <2>2. Range(m.pt) = {}
    BY DEF Range
  <2>3. Done(m, 0)
    BY <2>1, <2>2 DEF NoneTwice, IsInjective, Unaccounted
  <2> HIDE DEF Done
  <2> QED
    BY <1>3, <2>3
<1>5. ASSUME NEW k \in Nat, k \in S PROVE k + 1 \in S
  <2> SUFFICES ASSUME k + 1 <= Pages PROVE Done(g[k + 1], k + 1)
    OBVIOUS
  <2> DEFINE e == g[k]
             x == MapFixed(e, k)
  <2>1. Done(e, k)
    BY <1>2, <1>5
  <2>2. k + 1 \in 1..Pages /\ (k + 1) - 1 = k
    BY <1>2
  <2>3. g[k + 1] = IF MappedAtBoot(k) THEN x ELSE e
    BY <1>3, <2>2 DEF BootRound
  <2>4. /\ Old(k + 1) = IF MappedAtBoot(k) THEN Old(k) \cup {k} ELSE Old(k)
        /\ k \notin Old(k)
    <3>1. 0..((k + 1) - 1) = 0..(k - 1) \cup {k} /\ k \notin 0..(k - 1)
      OBVIOUS
    <3> QED
      BY <3>1
  <2>5. k \in Page /\ k \in Frame
    BY <1>2, <2>2 DEF Page, Frame
  <2> HIDE DEF e, Old, S
  <2>6. CASE MappedAtBoot(k)
    <3>1. k \in FreeIn(e.ff)
      BY <2>1, <2>4, <2>5
    <3>2. /\ NoneTwice(x, {})
          /\ DOMAIN x.pt = DOMAIN e.pt \cup {k}
          /\ FreeIn(x.ff) = FreeIn(e.ff) \ {k}
          /\ Unaccounted(x, {}) = Unaccounted(e, {})
                                  \cup {e.pt[v] : v \in DOMAIN e.pt \cap {k}}
      BY <2>1, <2>5, <3>1, PageIsMapped DEF MapFixed
    <3> HIDE DEF x
    <3>3. DOMAIN e.pt \cap {k} = {}
      BY <2>1, <2>4
    <3>4. Unaccounted(x, {}) = {}
      BY <2>1, <3>2, <3>3
    <3>5. DOMAIN x.pt = Old(k + 1) /\ FreeIn(x.ff) = Frame \ Old(k + 1)
      BY <2>1, <2>4, <2>6, <3>2
    <3>6. g[k + 1] = x
      BY <2>3, <2>6
    <3> QED
      BY <3>2, <3>4, <3>5, <3>6
  <2>7. CASE ~MappedAtBoot(k)
    <3>1. g[k + 1] = e /\ Old(k + 1) = Old(k)
      BY <2>3, <2>4, <2>7
    <3> QED
      BY <2>1, <3>1
  <2> QED
    BY <2>6, <2>7
<1>6. Pages \in S
  <2> HIDE DEF S
  <2> QED
    BY <1>2, <1>4, <1>5, Induced
<1>7. Done(g[Pages], Pages)
  BY <1>2, <1>6
<1> QED
  BY <1>1, <1>7 DEF Page
-----------------------------------------------------------------------------
(***************************************************************************)
(* Rounding to pages.                                                      *)
(***************************************************************************)
LEMMA MultiplesKeepOrder ==
  ASSUME NEW b \in Nat \ {0}, NEW i \in Int, NEW j \in Int, i * b < (j + 1) * b
  PROVE  i <= j
<1> SUFFICES ASSUME j + 1 <= i PROVE FALSE
    OBVIOUS
<1> DEFINE d == i - (j + 1)
<1>1. d \in Nat /\ i = (j + 1) + d
  OBVIOUS
<1> HIDE DEF d
<1>2. i * b = (j + 1) * b + d * b /\ d * b \in Nat
  BY <1>1
<1> DEFINE x == (j + 1) * b
           y == d * b
<1>3. x \in Int
  OBVIOUS
<1>4. x + y < x /\ y \in Nat
  BY <1>2
<1> HIDE DEF x, y
<1> QED
  BY <1>3, <1>4

LEMMA Quotient ==
  ASSUME NEW a \in Int, NEW b \in Nat \ {0}
  PROVE  a \div b \in Int /\ (a \div b) * b <= a /\ a < (a \div b) * b + b
OBVIOUS

LEMMA Successor ==
  ASSUME NEW b \in Nat \ {0}, NEW q \in Int
  PROVE  q * b \in Int /\ (q + 1) * b = q * b + b /\ (q + 1) * b \in Int
OBVIOUS

PagesTo(a) == (a + (PageSize - 1)) \div PageSize

(***************************************************************************)
(* UP_TO_PAGE: the least multiple of PageSize that is not below.           *)
(***************************************************************************)
LEMMA UpToPageIs ==
  ASSUME NEW a \in Nat
  PROVE  /\ PagesTo(a) \in Int
         /\ UpToPage(a) = PagesTo(a) * PageSize /\ UpToPage(a) \in Int
         /\ UpToPage(a) \div PageSize = PagesTo(a)
         /\ a <= UpToPage(a) /\ UpToPage(a) < a + PageSize
<1> DEFINE b == PageSize
           q == PagesTo(a)
           u == q * b
           n == u \div b
<1>1. b \in Nat \ {0}
  BY KernelHeapAssumption
<1> HIDE DEF b
<1>2. q \in Int /\ u <= a + (b - 1) /\ a + (b - 1) < u + b
  <2>1. a + (b - 1) \in Int
    BY <1>1
  <2> DEFINE x == a + (b - 1)
  <2> HIDE DEF x
  <2>2. x \div b \in Int /\ (x \div b) * b <= x /\ x < (x \div b) * b + b
    BY <1>1, <2>1, Quotient DEF x
  <2> QED
    BY <2>2 DEF x, b, PagesTo
<1>3. UpToPage(a) = u
  BY DEF UpToPage, PagesTo, b
<1>4. u \in Int /\ (q + 1) * b = u + b
  <2> HIDE DEF q
  <2> QED
    BY <1>1, <1>2, Successor
<1> HIDE DEF q
<1>5. n \in Int /\ n * b <= u /\ u < n * b + b
  <2> HIDE DEF u
  <2> QED
    BY <1>1, <1>4, Quotient
<1>6. n * b \in Int /\ (n + 1) * b = n * b + b
  <2> HIDE DEF n
  <2> QED
    BY <1>1, <1>5, Successor
<1> HIDE DEF n
<1>7. n <= q /\ q <= n
  <2>1. n * b < (q + 1) * b
    <3> HIDE DEF u
    <3> DEFINE x == n * b
    <3>1. x \in Int /\ x <= u
      BY <1>5, <1>6
    <3> HIDE DEF x
    <3>2. x < u + b
      BY <1>1, <1>4, <3>1
    <3> QED
      BY <1>4, <3>2 DEF x
  <2>2. q * b < (n + 1) * b
    BY <1>5, <1>6
  <2> QED
    BY <1>1, <1>2, <1>5, <2>1, <2>2, MultiplesKeepOrder
<1>8. n = q
  BY <1>2, <1>5, <1>7
<1>9. a <= u /\ u < a + b
  <2> HIDE DEF u
  <2> QED
    BY <1>1, <1>2, <1>4
<1> QED
  BY <1>2, <1>3, <1>4, <1>8, <1>9 DEF n, q, b

(***************************************************************************)
(* The number of pages grows with the address, multiples are themselves,   *)
(* and the page that holds an address is the last one below it or the      *)
(* first one behind, if the address is itself a multiple.                  *)
(***************************************************************************)
LEMMA PagesToBounds ==
  ASSUME NEW a \in Nat, NEW lo \in Int, NEW hi \in Int,
         lo * PageSize < a, a <= hi * PageSize
  PROVE  lo + 1 <= PagesTo(a) /\ PagesTo(a) <= hi
<1> DEFINE b == PageSize
           q == PagesTo(a)
           u == q * b
           x == lo * b
           y == hi * b
<1>1. b \in Nat \ {0}
  BY KernelHeapAssumption
<1>2. q \in Int /\ a <= u /\ u < a + b
  BY UpToPageIs
<1> HIDE DEF b, q
<1>3. /\ u \in Int /\ (q + 1) * b = u + b
      /\ x \in Int /\ (lo + 1) * b = x + b
      /\ y \in Int /\ (hi + 1) * b = y + b
  BY <1>1, <1>2, Successor
<1>4. x < a /\ a <= y
  BY DEF b
<1> HIDE DEF u, x, y
<1>5. u < y + b /\ x + b < u + b
  BY <1>1, <1>2, <1>3, <1>4
<1>6. q * b < (hi + 1) * b /\ (lo + 1) * b < (q + 1) * b
  BY <1>3, <1>5 DEF u
<1>7. lo + 1 \in Int /\ hi \in Int
  OBVIOUS
<1> QED
  BY <1>1, <1>2, <1>6, <1>7, MultiplesKeepOrder DEF q

LEMMA PagesToMultiple ==
  ASSUME NEW q \in Nat
  PROVE  PagesTo(q * PageSize) = q
<1> DEFINE a == q * PageSize
<1>1. PageSize \in Nat \ {0}
  BY KernelHeapAssumption
<1>2. a \in Nat /\ (q - 1) * PageSize < a /\ a <= q * PageSize
  BY <1>1
<1>3. (q - 1) + 1 <= PagesTo(a) /\ PagesTo(a) <= q
  <2> HIDE DEF a
  <2>1. a <= q * PageSize /\ (q - 1) * PageSize < a
    BY <1>2
  <2> QED
    BY <1>2, <2>1, PagesToBounds
<1>4. PagesTo(a) \in Int
  BY <1>2, UpToPageIs
<1> QED
  BY <1>3, <1>4
-----------------------------------------------------------------------------
(***************************************************************************)
(* The inductive invariant, of tables m, frames U of user space and a      *)
(* kernel break b, before (v = FALSE) and after virtual memory is enabled. *)
(* The entries in use are those up to page c and of the kernel stack.      *)
(* VM_setup may have mapped one page more; until that entry is written     *)
(* over, no frame is lost, and then no page is mapped beyond those in use. *)
(***************************************************************************)
InUse(c) == 0..c \cup KStackPage..(Pages - 1)

Accounted(D, c, L) ==
  \/ D = InUse(c) /\ Cardinality(L) <= 1
  \/ \E e \in (c + 1)..dummy : D = InUse(c) \cup {e} /\ L = {}

Fits(m, U, v, b) ==
  /\ v \in BOOLEAN
  /\ b \in DataEnd..(dummy * PageSize)
  /\ NoneTwice(m, U)
  /\ ~v => U = {} /\ DOMAIN m.pt = {} /\ FreeIn(m.ff) = Frame
  /\ v => Accounted(DOMAIN m.pt, NextBrkVpn(b), Unaccounted(m, U))

HeapIInv == Fits(Table0, users, vm, brk)

LEMMA KernelPages ==
  /\ {Pages, PageSize, TextPages, DataEnd, OrigBrk, KStackPage} \subseteq Nat \ {0}
  /\ dummy \in Nat /\ KStackPage = dummy + 1 /\ KStackPage < Pages
  /\ dummy * PageSize \in Nat /\ TextPages * PageSize \in Nat
  /\ TextPages * PageSize <= DataEnd /\ DataEnd <= OrigBrk /\ OrigBrk < dummy * PageSize
  /\ KStackPage * PageSize - PageSize = dummy * PageSize
<1>1. /\ {Pages, PageSize, TextPages, DataEnd, OrigBrk, KStackPage} \subseteq Nat \ {0}
      /\ TextPages * PageSize <= DataEnd /\ DataEnd <= OrigBrk
      /\ OrigBrk < (KStackPage - 1) * PageSize
      /\ KStackPage < Pages
  BY KernelHeapAssumption
<1>2. dummy \in Nat /\ KStackPage = dummy + 1
  BY <1>1 DEF dummy
<1>3. OrigBrk < dummy * PageSize
  BY <1>1 DEF dummy
<1> HIDE DEF dummy
<1>4. PageSize \in Nat \ {0} /\ TextPages \in Nat
  BY <1>1
<1>5. dummy * PageSize \in Nat /\ TextPages * PageSize \in Nat
  BY <1>2, <1>4
<1>6. (dummy + 1) * PageSize = dummy * PageSize + PageSize
  BY <1>2, <1>4, Successor
<1>7. KStackPage * PageSize - PageSize = dummy * PageSize
  <2> DEFINE x == dummy * PageSize
             y == KStackPage * PageSize
  <2>1. y = x + PageSize /\ x \in Nat
    BY <1>2, <1>5, <1>6
  <2> HIDE DEF x, y
  <2>2. y - PageSize = x
    BY <1>4, <2>1
  <2> QED
    BY <2>2 DEF x, y
<1> QED
  BY <1>1, <1>2, <1>3, <1>5, <1>7

(***************************************************************************)
(* A break between the kernel's data and the page below its stack, and the *)
(* break that SetKernelBrk leaves.                                         *)
(***************************************************************************)
LEMMA BreakBounds ==
  ASSUME NEW b \in DataEnd..(dummy * PageSize)
  PROVE  /\ b \in Nat /\ NextBrkVpn(b) = PagesTo(b) - 1
         /\ NextBrkVpn(b) \in Nat /\ NextBrkVpn(b) < dummy
<1>1. DataEnd \in Nat \ {0} /\ dummy \in Nat /\ dummy * PageSize \in Nat /\ PageSize \in Nat
  BY KernelPages
<1>2. b \in Nat /\ 0 < b /\ b <= dummy * PageSize
  <2> DEFINE y == dummy * PageSize
  <2>1. b \in DataEnd..y /\ y \in Nat
    BY <1>1
  <2> HIDE DEF y
  <2>2. b \in Nat /\ 0 < b /\ b <= y
    BY <1>1, <2>1
  <2> QED
    BY <2>2 DEF y
<1>3. 0 * PageSize < b
  BY <1>1, <1>2
<1>4. 0 \in Int /\ dummy \in Int
  BY <1>1
<1>5. 0 + 1 <= PagesTo(b) /\ PagesTo(b) <= dummy
  BY <1>2, <1>3, <1>4, PagesToBounds
<1>6. NextBrkVpn(b) = PagesTo(b) - 1 /\ PagesTo(b) \in Int
  BY <1>2, UpToPageIs DEF NextBrkVpn
<1> QED
  BY <1>1, <1>2, <1>5, <1>6

LEMMA BreakMoves ==
  ASSUME NEW addr \in Nat, BrkAllowed(addr)
  PROVE  /\ addr \in DataEnd..(dummy * PageSize)
         /\ UpToPage(addr) \in DataEnd..(dummy * PageSize)
         /\ NextBrkVpn(UpToPage(addr)) = NextBrkVpn(addr)
<1> DEFINE y == dummy * PageSize
           q == PagesTo(addr)
           u == q * PageSize
<1>1. DataEnd \in Nat \ {0} /\ dummy \in Nat /\ y \in Nat /\ PageSize \in Nat \ {0}
      /\ KStackPage * PageSize - PageSize = y
  BY KernelPages
<1>2. DataEnd <= UpToPage(DataEnd) /\ UpToPage(DataEnd) \in Int
  BY <1>1, UpToPageIs
<1>3. addr >= UpToPage(DataEnd) /\ addr < y
  BY <1>1 DEF BrkAllowed
<1> HIDE DEF y
<1>4. addr \in DataEnd..y
  BY <1>1, <1>2, <1>3
<1>5. NextBrkVpn(addr) = q - 1 /\ NextBrkVpn(addr) \in Nat /\ NextBrkVpn(addr) < dummy
  BY <1>4, BreakBounds DEF y
<1>6. q \in Int /\ UpToPage(addr) = u /\ u \in Int /\ addr <= u
  BY UpToPageIs
<1> HIDE DEF q, u
<1>7. q \in Nat /\ q <= dummy
  BY <1>1, <1>5, <1>6
<1>8. u <= y
  BY <1>1, <1>7 DEF u, y
<1>9. u \in DataEnd..y
  BY <1>1, <1>4, <1>6, <1>8
<1>10. PagesTo(u) = q
  BY <1>7, PagesToMultiple DEF u
<1>11. NextBrkVpn(u) = PagesTo(u) - 1
  BY <1>9, BreakBounds DEF y
<1> QED
  BY <1>4, <1>5, <1>6, <1>9, <1>10, <1>11 DEF y

(***************************************************************************)
(* VM_setup maps the pages in use, and one more if the break is the first  *)
(* address of a page.                                                      *)
(***************************************************************************)
LEMMA BootMapsHeap ==
  ASSUME NEW b \in DataEnd..(dummy * PageSize)
  PROVE  LET c == NextBrkVpn(b)
             D == {v \in Page : v < TextPages \/ v <= b \div PageSize \/ v >= KStackPage}
         IN  D = InUse(c) \/ \E e \in (c + 1)..dummy : D = InUse(c) \cup {e}
<1> DEFINE c == NextBrkVpn(b)
           n == b \div PageSize
           q == PagesTo(b)
           D == {v \in Page : v < TextPages \/ v <= n \/ v >= KStackPage}
           y == dummy * PageSize
           t == TextPages * PageSize
           u == q * PageSize
           z == n * PageSize
<1>1. /\ PageSize \in Nat \ {0} /\ dummy \in Nat /\ TextPages \in Nat /\ Pages \in Nat
      /\ KStackPage = dummy + 1 /\ KStackPage < Pages
      /\ y \in Nat /\ t \in Nat /\ t <= DataEnd /\ DataEnd \in Nat
  BY KernelPages
<1>2. b \in Nat /\ c = q - 1 /\ c \in Nat /\ c < dummy
  BY BreakBounds
<1>3. b <= y /\ t <= b
  <2>1. b \in DataEnd..y
    OBVIOUS
  <2> HIDE DEF y, t
  <2> QED
    BY <1>1, <1>2, <2>1
<1>4. n \in Int /\ z <= b /\ b < z + PageSize
  BY <1>1, <1>2, Quotient
<1>5. q \in Int /\ b <= u /\ u < b + PageSize
  BY <1>2, UpToPageIs
<1> HIDE DEF n, q, c
<1>6. /\ z \in Int /\ (n + 1) * PageSize = z + PageSize
      /\ u \in Int /\ (q + 1) * PageSize = u + PageSize
      /\ (dummy + 1) * PageSize = y + PageSize
  BY <1>1, <1>4, <1>5, Successor
<1>7. (n + 2) * PageSize = z + PageSize + PageSize
  <2>1. n + 1 \in Int /\ n + 2 = (n + 1) + 1
    BY <1>4
  <2>2. ((n + 1) + 1) * PageSize = (n + 1) * PageSize + PageSize
    BY <1>1, <2>1, Successor
  <2> QED
    BY <1>6, <2>1, <2>2
<1> HIDE DEF y, t, u, z
<1>8. z < u + PageSize /\ u < z + PageSize + PageSize /\ z < y + PageSize /\ t < z + PageSize
  BY <1>1, <1>2, <1>3, <1>4, <1>5, <1>6
<1>9. n <= q
  BY <1>1, <1>4, <1>5, <1>6, <1>8, MultiplesKeepOrder DEF z
<1>10. q <= n + 1
  <2>1. u < ((n + 1) + 1) * PageSize /\ n + 1 \in Int
    <3>1. n + 2 = (n + 1) + 1 /\ n + 1 \in Int
      BY <1>4
    <3> QED
      BY <1>7, <1>8, <3>1
  <2> QED
    BY <1>1, <1>5, <2>1, MultiplesKeepOrder DEF u
<1>11. n <= dummy
  BY <1>1, <1>4, <1>6, <1>8, MultiplesKeepOrder DEF z
<1>12. TextPages <= n
  BY <1>1, <1>4, <1>6, <1>8, MultiplesKeepOrder DEF t
<1>13. D = 0..n \cup KStackPage..(Pages - 1)
  BY <1>1, <1>4, <1>11, <1>12 DEF Page
<1> HIDE DEF D
<1>14. CASE n = c
  BY <1>13, <1>14 DEF InUse, D, c, n
<1>15. CASE n # c
  <2>1. n = c + 1 /\ n \in (c + 1)..dummy
    BY <1>1, <1>2, <1>4, <1>5, <1>9, <1>10, <1>11, <1>15
  <2>2. 0..n = 0..c \cup {n}
    BY <1>2, <2>1
  <2>3. D = InUse(c) \cup {n}
    BY <1>13, <2>2 DEF InUse
  <2> QED
    BY <2>1, <2>3 DEF D, c, n
<1> QED
  BY <1>14, <1>15
-----------------------------------------------------------------------------
(***************************************************************************)
(* The operations keep the invariant; what they do to the free frames is   *)
(* what the allocator promises.                                            *)
(***************************************************************************)
LEMMA FreshTable ==
  ASSUME NEW ff, ff = [bit_vector |-> [c \in Cell |-> {}], avail_pfn |-> 0, filled |-> 0]
  PROVE  Agrees(ff) /\ FreeIn(ff) = Frame
<1>1. TableSize \in Nat /\ CellSize \in Nat \ {0}
  BY FrameTableAssumption
<1>2. ff.avail_pfn = 0 /\ ff.filled = 0 /\ ff.bit_vector = [c \in Cell |-> {}]
  OBVIOUS
<1>3. ff.bit_vector \in Bits
  BY <1>2 DEF Bits
<1>4. ff \in FrameTableType
  <2>1. 0 \in 0..TableSize
    BY <1>1
  <2>2. [c \in Cell |-> {}] \in [Cell -> SUBSET (0..(CellSize - 1))]
    OBVIOUS
  <2> QED
    BY <2>1, <2>2 DEF FrameTableType
<1>5. FreeIn(ff) = Frame
  <2> SUFFICES ASSUME NEW f \in Frame PROVE ~get_bit(ff.bit_vector, f)
    BY DEF FreeIn
  <2>1. f \in 0..TableSize
    BY <1>1 DEF Frame
  <2>2. f \div CellSize \in Cell
    BY <2>1, BitPlace
  <2> QED
    BY <1>2, <2>2 DEF get_bit
<1>6. Cardinality(Frame) = TableSize
  BY FramesAreFinite
<1>7. 0 \in Frame \cup {TableSize} /\ \A f \in Frame : 0 <= f
  BY <1>1 DEF Frame
<1>8. ff.filled = TableSize - Cardinality(FreeIn(ff))
  BY <1>1, <1>2, <1>5, <1>6
<1>9. \A f \in FreeIn(ff) : ff.avail_pfn <= f
  BY <1>2, <1>5, <1>7
<1>10. ff.avail_pfn \in FreeIn(ff) \cup {TableSize}
  BY <1>2, <1>5, <1>7
<1> QED
  BY <1>4, <1>5, <1>8, <1>9, <1>10 DEF Agrees

LEMMA NextFrameIsFree ==
  ASSUME NEW ff, Agrees(ff), FreeIn(ff) # {}
  PROVE  AutoAssigned(ff) \in FreeIn(ff)
<1>1. PICK f \in FreeIn(ff) : TRUE
  OBVIOUS
<1>2. f \in Int /\ TableSize \in Int /\ f < TableSize
  BY FrameTableAssumption DEF FreeIn, Frame
<1>3. ff.avail_pfn <= f /\ ff.avail_pfn \in FreeIn(ff) \cup {TableSize}
  BY DEF Agrees
<1> QED
  BY <1>2, <1>3 DEF AutoAssigned

LEMMA EmptyCounts ==
  /\ Cardinality({}) = 0
  /\ \A x : Cardinality({x}) = 1
BY FS_EmptySet, FS_Singleton

LEMMA VM_setupFits ==
  ASSUME NEW m, NEW U, Fits(m, U, FALSE, brk)
  PROVE  Fits(Booted(m), U, TRUE, brk) /\ FreeIn(Booted(m).ff) \subseteq FreeIn(m.ff)
<1> DEFINE e == Booted(m)
           c == NextBrkVpn(brk)
           D == {v \in Page : v < TextPages \/ v <= brk \div PageSize \/ v >= KStackPage}
<1>1. /\ Agrees(m.ff) /\ FreeIn(m.ff) = Frame /\ DOMAIN m.pt = {} /\ U = {}
      /\ brk \in DataEnd..(dummy * PageSize)
  BY DEF Fits, NoneTwice
<1>2. /\ NoneTwice(e, {}) /\ DOMAIN e.pt = {v \in Page : MappedAtBoot(v)}
      /\ Unaccounted(e, {}) = {}
  BY <1>1, KernelBooted
<1>3. DOMAIN e.pt = D
  BY <1>2 DEF MappedAtBoot
<1>4. D = InUse(c) \/ \E x \in (c + 1)..dummy : D = InUse(c) \cup {x}
  BY <1>1, BootMapsHeap
<1> HIDE DEF e, D, c
<1>5. Accounted(DOMAIN e.pt, c, Unaccounted(e, U))
  <2>1. Unaccounted(e, U) = {} /\ Cardinality(Unaccounted(e, U)) <= 1
    BY <1>1, <1>2, EmptyCounts
  <2> QED
    BY <1>3, <1>4, <2>1 DEF Accounted
<1>6. FreeIn(e.ff) \subseteq FreeIn(m.ff)
  BY <1>1 DEF FreeIn
<1>7. Fits(e, U, TRUE, brk)
  BY <1>1, <1>2, <1>5 DEF Fits, c
<1> QED
  BY <1>6, <1>7 DEF e

LEMMA GrowthFits ==
  ASSUME NEW m, NEW U, NEW b, Fits(m, U, TRUE, b), NEW addr \in Nat, BrkAllowed(addr),
         NEW n \in Nat, n = NextBrkVpn(addr) - NextBrkVpn(b), n <= Cardinality(FreeIn(m.ff))
  PROVE  LET e == Grown(m, NextBrkVpn(b), n)
         IN  /\ Fits(e, U, TRUE, UpToPage(addr))
             /\ FreeIn(e.ff) \subseteq FreeIn(m.ff)
<1> DEFINE c == NextBrkVpn(b)
           d == NextBrkVpn(addr)
           e == Grown(m, c, n)
           New == (c + 1)..(c + n)
           Over == {m.pt[v] : v \in DOMAIN m.pt \cap New}
<1>1. NoneTwice(m, U) /\ b \in DataEnd..(dummy * PageSize)
      /\ Accounted(DOMAIN m.pt, c, Unaccounted(m, U))
  BY DEF Fits
<1>2. /\ dummy \in Nat /\ KStackPage = dummy + 1 /\ KStackPage < Pages /\ Pages \in Nat
  BY KernelPages
<1>3. /\ c \in Nat /\ c < dummy /\ d \in Nat /\ d < dummy
      /\ UpToPage(addr) \in DataEnd..(dummy * PageSize)
      /\ NextBrkVpn(UpToPage(addr)) = d
  BY <1>1, BreakBounds, BreakMoves
<1>4. c + n = d /\ n = d - c
  BY <1>3
<1> HIDE DEF c, d
<1>5. New \subseteq Page
  BY <1>2, <1>3, <1>4 DEF Page
<1>6. /\ NoneTwice(e, U) /\ DOMAIN e.pt = DOMAIN m.pt \cup New
      /\ FreeIn(e.ff) \subseteq FreeIn(m.ff)
      /\ Unaccounted(e, U) = Unaccounted(m, U) \cup Over
  <2>1. c \in Int
    BY <1>3
  <2> QED
    <3> HIDE DEF Over, New, e
    <3>1. ASSUME NEW k \in Nat, New = (c + 1)..(c + k), k <= Cardinality(FreeIn(m.ff)),
                 e = Grown(m, c, k)
          PROVE  /\ NoneTwice(e, U) /\ DOMAIN e.pt = DOMAIN m.pt \cup New
                 /\ FreeIn(e.ff) \subseteq FreeIn(m.ff)
                 /\ Unaccounted(e, U) = Unaccounted(m, U) \cup {m.pt[v] : v \in DOMAIN m.pt \cap New}
      BY <1>1, <1>5, <2>1, <3>1, HeapGrown
    <3> QED
      BY <3>1 DEF Over, New, e
<1>7. InUse(d) = InUse(c) \cup New /\ InUse(c) \cap New = {}
  BY <1>2, <1>3, <1>4 DEF InUse
<1> HIDE DEF e, New
<1>8. Accounted(DOMAIN e.pt, d, Unaccounted(e, U))
  <2>1. CASE DOMAIN m.pt = InUse(c) /\ Cardinality(Unaccounted(m, U)) <= 1
    <3>1. Over = {} /\ DOMAIN e.pt = InUse(d)
      BY <1>6, <1>7, <2>1
    <3> HIDE DEF Over
    <3> QED
      BY <1>6, <2>1, <3>1 DEF Accounted
  <2>2. ASSUME NEW x \in (c + 1)..dummy, DOMAIN m.pt = InUse(c) \cup {x}, Unaccounted(m, U) = {}
        PROVE  Accounted(DOMAIN e.pt, d, Unaccounted(e, U))
    <3>1. CASE x \in New
      <4>1. DOMAIN m.pt \cap New = {x}
        BY <1>7, <2>2, <3>1
      <4>2. Over = {m.pt[x]}
        BY <4>1
      <4> HIDE DEF Over
      <4>3. Unaccounted(e, U) = {m.pt[x]}
        BY <1>6, <2>2, <4>2
      <4>4. Cardinality(Unaccounted(e, U)) = 1
        BY <4>3, EmptyCounts
      <4>5. DOMAIN e.pt = InUse(d)
        BY <1>6, <1>7, <2>2, <3>1
      <4> QED
        BY <4>4, <4>5 DEF Accounted
    <3>2. CASE x \notin New
      <4>1. x \in (d + 1)..dummy
        BY <1>2, <1>3, <1>4, <3>2 DEF New
      <4>2. DOMAIN m.pt \cap New = {}
        BY <1>7, <2>2, <3>2
      <4>3. Over = {}
        BY <4>2
      <4> HIDE DEF Over
      <4>4. Unaccounted(e, U) = {} /\ DOMAIN e.pt = InUse(d) \cup {x}
        BY <1>6, <1>7, <2>2, <4>3
      <4> QED
        BY <4>1, <4>4 DEF Accounted
    <3> QED
      BY <3>1, <3>2
  <2> QED
    BY <1>1, <2>1, <2>2 DEF Accounted
<1>9. Fits(e, U, TRUE, UpToPage(addr))
  BY <1>3, <1>6, <1>8 DEF Fits
<1> QED
  BY <1>6, <1>9 DEF e, c

LEMMA ShrinkingFits ==
  ASSUME NEW m, NEW U, NEW b, Fits(m, U, TRUE, b), NEW addr \in Nat, BrkAllowed(addr),
         NEW n \in Nat, n = NextBrkVpn(b) - NextBrkVpn(addr)
  PROVE  LET e == Shrunk(m, NextBrkVpn(b), n)
         IN  /\ Fits(e, U, TRUE, UpToPage(addr))
             /\ FreeIn(m.ff) \subseteq FreeIn(e.ff)
<1> DEFINE c == NextBrkVpn(b)
           d == NextBrkVpn(addr)
           e == Shrunk(m, c, n)
           Old == (c - (n - 1))..c
<1>1. NoneTwice(m, U) /\ b \in DataEnd..(dummy * PageSize)
      /\ Accounted(DOMAIN m.pt, c, Unaccounted(m, U))
  BY DEF Fits
<1>2. /\ dummy \in Nat /\ KStackPage = dummy + 1 /\ KStackPage < Pages /\ Pages \in Nat
  BY KernelPages
<1>3. /\ c \in Nat /\ c < dummy /\ d \in Nat /\ d < dummy
      /\ UpToPage(addr) \in DataEnd..(dummy * PageSize)
      /\ NextBrkVpn(UpToPage(addr)) = d
  BY <1>1, BreakBounds, BreakMoves
<1>4. c - (n - 1) = d + 1 /\ n = c - d /\ d <= c
  BY <1>3
<1> HIDE DEF c, d
<1>5. /\ Old \subseteq InUse(c) /\ InUse(d) = InUse(c) \ Old
      /\ \A x \in (c + 1)..dummy : x \notin Old /\ x \in (d + 1)..dummy
  BY <1>2, <1>3, <1>4 DEF InUse
<1>6. Old \subseteq DOMAIN m.pt
  BY <1>1, <1>5 DEF Accounted
<1>7. /\ NoneTwice(e, U) /\ DOMAIN e.pt = DOMAIN m.pt \ Old
      /\ FreeIn(m.ff) \subseteq FreeIn(e.ff)
      /\ Unaccounted(e, U) = Unaccounted(m, U)
  <2>1. c \in Int
    BY <1>3
  <2> QED
    BY <1>1, <1>6, <2>1, HeapShrunk
<1> HIDE DEF e, Old
<1>8. Accounted(DOMAIN e.pt, d, Unaccounted(e, U))
  <2>1. CASE DOMAIN m.pt = InUse(c) /\ Cardinality(Unaccounted(m, U)) <= 1
    BY <1>5, <1>7, <2>1 DEF Accounted
  <2>2. ASSUME NEW x \in (c + 1)..dummy, DOMAIN m.pt = InUse(c) \cup {x}, Unaccounted(m, U) = {}
        PROVE  Accounted(DOMAIN e.pt, d, Unaccounted(e, U))
    <3>1. x \in (d + 1)..dummy /\ DOMAIN e.pt = InUse(d) \cup {x}
      BY <1>5, <1>7, <2>2
    <3> QED
      BY <1>7, <2>2, <3>1 DEF Accounted
  <2> QED
    BY <1>1, <2>1, <2>2 DEF Accounted
<1>9. Fits(e, U, TRUE, UpToPage(addr))
  BY <1>3, <1>7, <1>8 DEF Fits
<1> QED
  BY <1>7, <1>9 DEF e, c
(***************************************************************************)
(* User space takes a frame, gives one back, and takes one that was mapped *)
(* through the page below the kernel stack.                                *)
(***************************************************************************)
LEMMA GetForUserFits ==
  ASSUME NEW m, NEW U, NEW b, Fits(m, U, TRUE, b), FreeIn(m.ff) # {},
         NEW n, n.ff = get_frame(m.ff, AutoAssigned(m.ff)), n.pt = m.pt
  PROVE  /\ Fits(n, U \cup {AutoAssigned(m.ff)}, TRUE, b)
         /\ AutoAssigned(m.ff) \in FreeIn(m.ff)
         /\ FreeIn(n.ff) = FreeIn(m.ff) \ {AutoAssigned(m.ff)}
<1> DEFINE f == AutoAssigned(m.ff)
<1>1. NoneTwice(m, U) /\ b \in DataEnd..(dummy * PageSize)
      /\ Accounted(DOMAIN m.pt, NextBrkVpn(b), Unaccounted(m, U))
  BY DEF Fits
<1>2. Agrees(m.ff)
  BY <1>1 DEF NoneTwice
<1>3. f \in FreeIn(m.ff)
  BY <1>2, NextFrameIsFree
<1>4. f \in Frame
  BY <1>3 DEF FreeIn
<1>5. Agrees(n.ff) /\ FreeIn(n.ff) = FreeIn(m.ff) \ {f}
  BY <1>2, <1>3, FrameIsGot
<1> HIDE DEF f
<1>6. NoneTwice(n, U \cup {f})
  <2>1. f \notin U /\ f \notin Range(m.pt)
    BY <1>1, <1>3 DEF NoneTwice
  <2>2. n.pt = m.pt
    OBVIOUS
  <2> QED
    BY <1>1, <1>4, <1>5, <2>1, <2>2 DEF NoneTwice
<1>7. Unaccounted(n, U \cup {f}) = Unaccounted(m, U)
  <2>1. n.pt = m.pt
    OBVIOUS
  <2> QED
    BY <1>3, <1>5, <2>1 DEF Unaccounted
<1>8. Fits(n, U \cup {f}, TRUE, b)
  BY <1>1, <1>6, <1>7 DEF Fits
<1> QED
  BY <1>3, <1>5, <1>8 DEF f

LEMMA VacateOfUserFits ==
  ASSUME NEW m, NEW U, NEW v, NEW b, Fits(m, U, v, b), NEW f \in U,
         NEW n, n.ff = vacate_frame(m.ff, f), n.pt = m.pt
  PROVE  Fits(n, U \ {f}, v, b) /\ FreeIn(n.ff) = FreeIn(m.ff) \cup {f}
<1>1. NoneTwice(m, U) /\ b \in DataEnd..(dummy * PageSize) /\ v = TRUE
      /\ Accounted(DOMAIN m.pt, NextBrkVpn(b), Unaccounted(m, U))
  BY DEF Fits
<1>2. Agrees(m.ff) /\ f \in Frame /\ f \notin FreeIn(m.ff) /\ f \notin Range(m.pt)
  BY <1>1 DEF NoneTwice
<1>3. Agrees(n.ff) /\ FreeIn(n.ff) = FreeIn(m.ff) \cup {f}
  BY <1>2, FrameIsVacated
<1>4. n.pt = m.pt
  OBVIOUS
<1>5. NoneTwice(n, U \ {f})
  BY <1>1, <1>2, <1>3, <1>4 DEF NoneTwice
<1>6. Unaccounted(n, U \ {f}) = Unaccounted(m, U)
  BY <1>3, <1>4 DEF Unaccounted
<1>7. Fits(n, U \ {f}, v, b)
  BY <1>1, <1>5, <1>6 DEF Fits
<1> QED
  BY <1>3, <1>7

LEMMA CopyThroughDummyFits ==
  ASSUME NEW m, NEW U, NEW b, Fits(m, U, TRUE, b), FreeIn(m.ff) # {},
         NEW n, n.ff = MapAuto(m, dummy).ff, n.pt = Unmapped(MapAuto(m, dummy).pt, dummy)
  PROVE  LET f == MapAuto(m, dummy).pt[dummy]
         IN  /\ f \in FreeIn(m.ff)
             /\ Fits(n, U \cup {f}, TRUE, b)
             /\ FreeIn(n.ff) = FreeIn(m.ff) \ {f}
<1> DEFINE f == AutoAssigned(m.ff)
           x == Mapped(m, dummy, f)
           c == NextBrkVpn(b)
           Over == {m.pt[v] : v \in DOMAIN m.pt \cap {dummy}}
<1>1. NoneTwice(m, U) /\ b \in DataEnd..(dummy * PageSize)
      /\ Accounted(DOMAIN m.pt, c, Unaccounted(m, U))
  BY DEF Fits
<1>2. f \in FreeIn(m.ff)
  BY <1>1, NextFrameIsFree DEF NoneTwice
<1>3. /\ dummy \in Nat /\ KStackPage = dummy + 1 /\ KStackPage < Pages /\ Pages \in Nat
      /\ c \in Nat /\ c < dummy
  BY <1>1, KernelPages, BreakBounds
<1>4. dummy \in Page /\ dummy \notin InUse(c)
  BY <1>3 DEF Page, InUse
<1>5. MapAuto(m, dummy) = x
  BY DEF MapAuto
<1> HIDE DEF c, f
<1>6. /\ NoneTwice(x, U) /\ DOMAIN x.pt = DOMAIN m.pt \cup {dummy}
      /\ FreeIn(x.ff) = FreeIn(m.ff) \ {f} /\ x.pt[dummy] = f
      /\ Unaccounted(x, U) = Unaccounted(m, U) \cup Over
  BY <1>1, <1>2, <1>4, PageIsMapped
<1> HIDE DEF x
<1>7. n.ff = x.ff /\ n.pt = Unmapped(x.pt, dummy)
  BY <1>5
<1>8. /\ DOMAIN n.pt = DOMAIN m.pt \ {dummy}
      /\ \A v \in DOMAIN n.pt : n.pt[v] = x.pt[v]
  BY <1>6, <1>7 DEF Unmapped, Restrict
<1>9. \A v, w \in DOMAIN x.pt : x.pt[v] = x.pt[w] => v = w
  BY <1>6 DEF NoneTwice, IsInjective
<1>10. \A y : y \in Range(n.pt) <=> y \in Range(x.pt) /\ y # f
  BY <1>6, <1>8, <1>9 DEF Range
<1>11. f \in Range(x.pt) /\ f \notin FreeIn(n.ff) /\ f \in Frame
  BY <1>2, <1>6, <1>7 DEF Range, FreeIn
<1>12. NoneTwice(n, U \cup {f})
  <2>1. DOMAIN n.pt \subseteq Page /\ Agrees(n.ff)
    BY <1>6, <1>7, <1>8 DEF NoneTwice
  <2>2. /\ Range(n.pt) \subseteq Frame /\ U \cup {f} \subseteq Frame
        /\ (U \cup {f}) \cap Range(n.pt) = {}
        /\ ((U \cup {f}) \cup Range(n.pt)) \cap FreeIn(n.ff) = {}
    BY <1>6, <1>7, <1>10, <1>11 DEF NoneTwice
  <2>3. \A v, w \in DOMAIN n.pt : n.pt[v] = n.pt[w] => v = w
    BY <1>6, <1>8, <1>9
  <2> QED
    BY <2>1, <2>2, <2>3 DEF NoneTwice, IsInjective
<1>13. Unaccounted(n, U \cup {f}) = Unaccounted(m, U) \cup Over
  <2>1. Unaccounted(n, U \cup {f}) = Unaccounted(x, U)
    BY <1>7, <1>10, <1>11 DEF Unaccounted
  <2> QED
    BY <1>6, <2>1
<1>14. Accounted(DOMAIN n.pt, c, Unaccounted(n, U \cup {f}))
  <2>1. CASE DOMAIN m.pt = InUse(c) /\ Cardinality(Unaccounted(m, U)) <= 1
    <3>1. Over = {} /\ DOMAIN n.pt = InUse(c)
      BY <1>4, <1>8, <2>1
    <3> HIDE DEF Over
    <3> QED
      BY <1>13, <2>1, <3>1 DEF Accounted
  <2>2. ASSUME NEW y \in (c + 1)..dummy, DOMAIN m.pt = InUse(c) \cup {y}, Unaccounted(m, U) = {}
        PROVE  Accounted(DOMAIN n.pt, c, Unaccounted(n, U \cup {f}))
    <3>1. CASE y = dummy
      <4>1. Over = {m.pt[dummy]} /\ DOMAIN n.pt = InUse(c)
        BY <1>4, <1>8, <2>2, <3>1
      <4> HIDE DEF Over
      <4>2. Unaccounted(n, U \cup {f}) = {m.pt[dummy]}
        BY <1>13, <2>2, <4>1
      <4>3. Cardinality(Unaccounted(n, U \cup {f})) = 1
        BY <4>2, EmptyCounts
      <4> QED
        BY <4>1, <4>3 DEF Accounted
    <3>2. CASE y # dummy
      <4>1. Over = {} /\ DOMAIN n.pt = InUse(c) \cup {y}
        BY <1>4, <1>8, <2>2, <3>2
      <4> HIDE DEF Over
      <4> QED
        BY <1>13, <2>2, <4>1 DEF Accounted
    <3> QED
      BY <3>1, <3>2
  <2> QED
    BY <1>1, <2>1, <2>2 DEF Accounted
<1>15. Fits(n, U \cup {f}, TRUE, b)
  BY <1>1, <1>12, <1>14 DEF Fits, c
<1>16. f = MapAuto(m, dummy).pt[dummy]
  BY <1>5, <1>6
<1> QED
  BY <1>2, <1>6, <1>7, <1>15, <1>16
(***************************************************************************)
(* The invariant reads the two tables only.                                *)
(***************************************************************************)
LEMMA SameTables ==
  ASSUME NEW m, NEW n, n.ff = m.ff, n.pt = m.pt, NEW U, NEW v, NEW b, Fits(m, U, v, b)
  PROVE  Fits(n, U, v, b)
<1>1. NoneTwice(m, U) <=> NoneTwice(n, U)
  BY DEF NoneTwice
<1>2. Unaccounted(m, U) = Unaccounted(n, U)
  BY DEF Unaccounted
<1> QED
  BY <1>1, <1>2 DEF Fits

(***************************************************************************)
(* What a step does to the free frames and those of user space.            *)
(***************************************************************************)
FramesMove ==
  \/ FreeFrames' \subseteq FreeFrames /\ users' = users
  \/ FreeFrames \subseteq FreeFrames' /\ users' = users
  \/ \E f \in FreeFrames : FreeFrames' = FreeFrames \ {f} /\ users' = users \cup {f}
  \/ \E f \in users : FreeFrames' = FreeFrames \cup {f} /\ users' = users \ {f}

LEMMA HeapInitFits == HeapInit => HeapIInv /\ FreeFrames = Frame
<1> SUFFICES ASSUME HeapInit PROVE HeapIInv /\ FreeFrames = Frame
  OBVIOUS
<1>1. Agrees(free_frame) /\ FreeIn(free_frame) = Frame
  <2>1. free_frame = [bit_vector |-> [c \in Cell |-> {}], avail_pfn |-> 0, filled |-> 0]
    BY DEF HeapInit, FrameTableInit
  <2> QED
    BY <2>1, FreshTable
<1>2. vm = FALSE /\ DOMAIN pt = {} /\ brk = OrigBrk /\ users = {}
  BY DEF HeapInit
<1>3. brk \in DataEnd..(dummy * PageSize)
  <2> DEFINE y == dummy * PageSize
  <2>1. DataEnd \in Nat /\ y \in Nat /\ DataEnd <= OrigBrk /\ OrigBrk < y /\ OrigBrk \in Nat
    BY KernelPages
  <2> HIDE DEF y
  <2>2. brk \in DataEnd..y
    BY <1>2, <2>1
  <2> QED
    BY <2>2 DEF y
<1>4. Range(pt) = {}
  BY <1>2 DEF Range
<1>5. NoneTwice(Table0, users)
  BY <1>1, <1>2, <1>4 DEF NoneTwice, Table0, IsInjective
<1>6. HeapIInv
  BY <1>1, <1>2, <1>3, <1>5 DEF HeapIInv, Fits, Table0
<1> QED
  BY <1>1, <1>6 DEF FreeFrames

LEMMA VM_setupStep == HeapIInv /\ VM_setup => HeapIInv' /\ FramesMove
<1> SUFFICES ASSUME HeapIInv, VM_setup PROVE HeapIInv' /\ FramesMove
  OBVIOUS
<1> DEFINE e == Booted(Table0)
<1>1. vm = FALSE /\ vm' = TRUE /\ free_frame' = e.ff /\ pt' = e.pt
      /\ brk' = brk /\ users' = users
  BY DEF VM_setup, Becomes, HeapIInv, Fits
<1>2. Fits(Table0, users, FALSE, brk)
  BY <1>1 DEF HeapIInv
<1>3. Fits(e, users, TRUE, brk) /\ FreeIn(e.ff) \subseteq FreeIn(Table0.ff)
  BY <1>2, VM_setupFits
<1> HIDE DEF e
<1>4. Table0'.ff = e.ff /\ Table0'.pt = e.pt
  BY <1>1 DEF Table0
<1>5. Fits(Table0', users, TRUE, brk)
  BY <1>3, <1>4, SameTables
<1>6. HeapIInv'
  BY <1>1, <1>5 DEF HeapIInv
<1>7. FreeFrames' \subseteq FreeFrames
  BY <1>1, <1>3 DEF FreeFrames, Table0
<1> QED
  BY <1>1, <1>6, <1>7 DEF FramesMove

LEMMA SetKernelBrkStep ==
  ASSUME NEW addr \in Nat, HeapIInv, SetKernelBrk(addr)
  PROVE  HeapIInv' /\ FramesMove
<1> DEFINE more == NextBrkVpn(addr) - CurrBrkVpn
<1>1. BrkAllowed(addr) /\ brk' = UpToPage(addr) /\ vm' = vm /\ users' = users
  BY DEF SetKernelBrk
<1>2. CurrBrkVpn = NextBrkVpn(brk)
  BY DEF CurrBrkVpn, NextBrkVpn
<1>3. Fits(Table0, users, vm, brk)
  BY DEF HeapIInv
<1>4. /\ NextBrkVpn(addr) \in Nat /\ NextBrkVpn(brk) \in Nat
      /\ UpToPage(addr) \in DataEnd..(dummy * PageSize)
  BY <1>1, <1>3, BreakMoves, BreakBounds DEF Fits
<1>5. CASE ~vm /\ UNCHANGED <<free_frame, pt>>
  <2>1. Table0' = Table0
    BY <1>5 DEF Table0
  <2>2. Fits(Table0, users, vm, UpToPage(addr))
    BY <1>3, <1>4, <1>5 DEF Fits
  <2>3. HeapIInv'
    BY <1>1, <2>1, <2>2 DEF HeapIInv
  <2>4. FreeFrames' = FreeFrames
    BY <1>5 DEF FreeFrames
  <2> QED
    BY <1>1, <2>3, <2>4 DEF FramesMove
<1>6. CASE vm /\ more >= 0 /\ more <= Cardinality(FreeFrames)
           /\ Becomes(Grown(Table0, CurrBrkVpn, more))
  <2> DEFINE e == Grown(Table0, CurrBrkVpn, more)
  <2>1. vm = TRUE
    BY <1>3, <1>6 DEF Fits
  <2>2. free_frame' = e.ff /\ pt' = e.pt
    BY <1>6 DEF Becomes
  <2>3. Fits(e, users, TRUE, UpToPage(addr)) /\ FreeIn(e.ff) \subseteq FreeIn(Table0.ff)
    <3>1. more \in Nat /\ more = NextBrkVpn(addr) - NextBrkVpn(brk)
      BY <1>2, <1>4, <1>6
    <3>2. more <= Cardinality(FreeIn(Table0.ff))
      BY <1>6 DEF FreeFrames, Table0
    <3>3. Fits(Table0, users, TRUE, brk)
      BY <1>3, <2>1
    <3> HIDE DEF more
    <3> QED
      BY <1>1, <1>2, <3>1, <3>2, <3>3, GrowthFits
  <2> HIDE DEF e
  <2>4. Table0'.ff = e.ff /\ Table0'.pt = e.pt
    BY <2>2 DEF Table0
  <2>5. Fits(Table0', users, TRUE, UpToPage(addr))
    BY <2>3, <2>4, SameTables
  <2>6. HeapIInv'
    BY <1>1, <2>1, <2>5 DEF HeapIInv
  <2>7. FreeFrames' \subseteq FreeFrames
    BY <2>2, <2>3 DEF FreeFrames, Table0
  <2> QED
    BY <1>1, <2>6, <2>7 DEF FramesMove
<1>7. CASE vm /\ more < 0 /\ Becomes(Shrunk(Table0, CurrBrkVpn, -more))
  <2> DEFINE e == Shrunk(Table0, CurrBrkVpn, -more)
  <2>1. vm = TRUE
    BY <1>3, <1>7 DEF Fits
  <2>2. free_frame' = e.ff /\ pt' = e.pt
    BY <1>7 DEF Becomes
  <2>3. Fits(e, users, TRUE, UpToPage(addr)) /\ FreeIn(Table0.ff) \subseteq FreeIn(e.ff)
    <3> DEFINE n == -more
    <3>1. n \in Nat /\ n = NextBrkVpn(brk) - NextBrkVpn(addr)
      BY <1>2, <1>4, <1>7
    <3>2. Fits(Table0, users, TRUE, brk)
      BY <1>3, <2>1
    <3>3. e = Shrunk(Table0, NextBrkVpn(brk), n)
      BY <1>2
    <3> HIDE DEF n, e
    <3> QED
      BY <1>1, <3>1, <3>2, <3>3, ShrinkingFits
  <2> HIDE DEF e
  <2>4. Table0'.ff = e.ff /\ Table0'.pt = e.pt
    BY <2>2 DEF Table0
  <2>5. Fits(Table0', users, TRUE, UpToPage(addr))
    BY <2>3, <2>4, SameTables
  <2>6. HeapIInv'
    BY <1>1, <2>1, <2>5 DEF HeapIInv
  <2>7. FreeFrames \subseteq FreeFrames'
    BY <2>2, <2>3 DEF FreeFrames, Table0
  <2> QED
    BY <1>1, <2>6, <2>7 DEF FramesMove
<1> QED
  BY <1>5, <1>6, <1>7 DEF SetKernelBrk

LEMMA GetForUserStep == HeapIInv /\ GetForUser => HeapIInv' /\ FramesMove
<1> SUFFICES ASSUME HeapIInv, GetForUser PROVE HeapIInv' /\ FramesMove
  OBVIOUS
<1> DEFINE f == AutoAssigned(free_frame)
<1>1. vm = TRUE /\ FreeFrames # {} /\ users' = users \cup {f}
      /\ free_frame' = get_frame(free_frame, f) /\ vm' = vm /\ pt' = pt /\ brk' = brk
  BY DEF GetForUser, HeapIInv, Fits
<1>2. Fits(Table0, users, TRUE, brk) /\ Table0.ff = free_frame /\ FreeIn(Table0.ff) # {}
  BY <1>1 DEF HeapIInv, FreeFrames, Table0
<1>3. Table0'.ff = get_frame(Table0.ff, AutoAssigned(Table0.ff)) /\ Table0'.pt = Table0.pt
  BY <1>1 DEF Table0
<1>4. /\ Fits(Table0', users \cup {AutoAssigned(Table0.ff)}, TRUE, brk)
      /\ AutoAssigned(Table0.ff) \in FreeIn(Table0.ff)
      /\ FreeIn(Table0'.ff) = FreeIn(Table0.ff) \ {AutoAssigned(Table0.ff)}
  BY <1>2, <1>3, GetForUserFits
<1>5. HeapIInv'
  BY <1>1, <1>2, <1>4 DEF HeapIInv
<1>6. f \in FreeFrames /\ FreeFrames' = FreeFrames \ {f}
  BY <1>4 DEF FreeFrames, Table0
<1> QED
  BY <1>1, <1>5, <1>6 DEF FramesMove

LEMMA CopyThroughDummyStep == HeapIInv /\ CopyThroughDummy => HeapIInv' /\ FramesMove
<1> SUFFICES ASSUME HeapIInv, CopyThroughDummy PROVE HeapIInv' /\ FramesMove
  OBVIOUS
<1> DEFINE x == MapAuto(Table0, dummy)
<1>1. vm = TRUE /\ FreeFrames # {} /\ free_frame' = x.ff /\ users' = users \cup {x.pt[dummy]}
      /\ pt' = Unmapped(x.pt, dummy) /\ vm' = vm /\ brk' = brk
  BY DEF CopyThroughDummy, HeapIInv, Fits
<1>2. Fits(Table0, users, TRUE, brk) /\ Table0.ff = free_frame /\ FreeIn(Table0.ff) # {}
  BY <1>1 DEF HeapIInv, FreeFrames, Table0
<1>3. Table0'.ff = x.ff /\ Table0'.pt = Unmapped(x.pt, dummy)
  BY <1>1 DEF Table0
<1> DEFINE f == x.pt[dummy]
<1>4. /\ f \in FreeIn(Table0.ff)
      /\ Fits(Table0', users \cup {f}, TRUE, brk)
      /\ FreeIn(Table0'.ff) = FreeIn(Table0.ff) \ {f}
  BY <1>2, <1>3, CopyThroughDummyFits
<1> HIDE DEF x, f
<1>5. HeapIInv'
  BY <1>1, <1>4 DEF HeapIInv, f
<1>6. f \in FreeFrames /\ FreeFrames' = FreeFrames \ {f} /\ users' = users \cup {f}
  BY <1>1, <1>4 DEF FreeFrames, Table0, f
<1> QED
  BY <1>5, <1>6 DEF FramesMove

LEMMA VacateOfUserStep == HeapIInv /\ VacateOfUser => HeapIInv' /\ FramesMove
<1> SUFFICES ASSUME HeapIInv, VacateOfUser PROVE HeapIInv' /\ FramesMove
  OBVIOUS
<1>1. PICK f \in users : users' = users \ {f} /\ free_frame' = vacate_frame(free_frame, f)
  BY DEF VacateOfUser
<1>2. vm' = vm /\ pt' = pt /\ brk' = brk
  BY DEF VacateOfUser
<1>3. Fits(Table0, users, vm, brk) /\ Table0.ff = free_frame
  BY DEF HeapIInv, Table0
<1>4. Table0'.ff = vacate_frame(Table0.ff, f) /\ Table0'.pt = Table0.pt
  BY <1>1, <1>2 DEF Table0
<1>5. /\ Fits(Table0', users \ {f}, vm, brk)
      /\ FreeIn(Table0'.ff) = FreeIn(Table0.ff) \cup {f}
  BY <1>3, <1>4, VacateOfUserFits
<1>6. HeapIInv'
  BY <1>1, <1>2, <1>5 DEF HeapIInv
<1>7. FreeFrames' = FreeFrames \cup {f}
  BY <1>5 DEF FreeFrames, Table0
<1> QED
  BY <1>1, <1>6, <1>7 DEF FramesMove

(***************************************************************************)
(* Every step keeps the invariant.                                         *)
(***************************************************************************)
LEMMA HeapStepFits ==
  HeapIInv /\ [HeapNext]_heapVars => HeapIInv' /\ (FramesMove \/ UNCHANGED <<FreeFrames, users>>)
<1> SUFFICES ASSUME HeapIInv, [HeapNext]_heapVars
    PROVE  HeapIInv' /\ (FramesMove \/ UNCHANGED <<FreeFrames, users>>)
  OBVIOUS
<1>1. CASE VM_setup
  BY <1>1, VM_setupStep
<1>2. ASSUME NEW addr \in 0..(KStackPage * PageSize), SetKernelBrk(addr)
      PROVE  HeapIInv' /\ FramesMove
  <2>1. addr \in Nat
    <3> DEFINE y == KStackPage * PageSize
    <3>1. addr \in 0..y
      OBVIOUS
    <3> HIDE DEF y
    <3> QED
      BY <3>1
  <2> QED
    BY <1>2, <2>1, SetKernelBrkStep
<1>3. CASE GetForUser
  BY <1>3, GetForUserStep
<1>4. CASE CopyThroughDummy
  BY <1>4, CopyThroughDummyStep
<1>5. CASE VacateOfUser
  BY <1>5, VacateOfUserStep
<1>6. CASE UNCHANGED heapVars
  BY <1>6 DEF heapVars, HeapIInv, Table0, FreeFrames
<1> QED
  BY <1>1, <1>2, <1>3, <1>4, <1>5, <1>6 DEF HeapNext
-----------------------------------------------------------------------------
(***************************************************************************)
(* The inductive invariant holds in every behaviour of the kernel heap.    *)
(***************************************************************************)
THEOREM HeapAlwaysFits == HeapSpec => []HeapIInv
<1>1. HeapInit => HeapIInv
  BY HeapInitFits
<1>2. HeapIInv /\ [HeapNext]_heapVars => HeapIInv'
  BY HeapStepFits
<1> QED
  BY <1>1, <1>2, PTL DEF HeapSpec

(***************************************************************************)
(* The parts of the frame table agree in every reachable state.            *)
(***************************************************************************)
THEOREM FrameTableAlwaysAgrees == HeapSpec => []FrameTableAgrees
<1>1. HeapIInv => FrameTableAgrees
  <2> SUFFICES ASSUME HeapIInv PROVE FrameTableAgrees
    OBVIOUS
  <2>1. Fits(Table0, users, vm, brk) /\ Table0.ff = free_frame /\ Table0.pt = pt
    BY DEF HeapIInv, Table0
  <2>2. vm \in BOOLEAN /\ brk \in Nat /\ NoneTwice(Table0, users)
    BY <2>1, BreakBounds DEF Fits
  <2>3. /\ Agrees(free_frame) /\ DOMAIN pt \subseteq Page /\ Range(pt) \subseteq Frame
        /\ users \subseteq Frame
    BY <2>1, <2>2 DEF NoneTwice
  <2> QED
    BY <2>2, <2>3 DEF FrameTableAgrees, HeapTypeOK, Agrees, FreeFrames
<1> QED
  BY <1>1, HeapAlwaysFits, PTL

(***************************************************************************)
(* No frame is in two places, and one frame at most is lost.               *)
(***************************************************************************)
THEOREM NeverTwoFramesAreLost == HeapSpec => []AtMostOneFrameIsLost
<1>1. HeapIInv => AtMostOneFrameIsLost
  <2> SUFFICES ASSUME HeapIInv PROVE AtMostOneFrameIsLost
    OBVIOUS
  <2>1. Fits(Table0, users, vm, brk) /\ Table0.ff = free_frame /\ Table0.pt = pt
    BY DEF HeapIInv, Table0
  <2>2. NoneTwice(Table0, users)
    BY <2>1 DEF Fits
  <2>3. Lost = Unaccounted(Table0, users)
    BY <2>1 DEF Lost, Unaccounted, FreeFrames
  <2>4. ASSUME vm PROVE Cardinality(Lost) <= 1
    <3>1. Accounted(DOMAIN pt, NextBrkVpn(brk), Lost)
      BY <2>1, <2>3, <2>4 DEF Fits
    <3>2. Lost = {} \/ Cardinality(Lost) <= 1
      BY <3>1 DEF Accounted
    <3>3. CASE Lost = {}
      BY <3>3, EmptyCounts
    <3> QED
      BY <3>2, <3>3
  <2> QED
    BY <2>1, <2>2, <2>4 DEF AtMostOneFrameIsLost, NoneTwice, FreeFrames
<1> QED
  BY <1>1, HeapAlwaysFits, PTL

(***************************************************************************)
(* Every page below the break and of the kernel stack is mapped.           *)
(***************************************************************************)
THEOREM HeapIsAlwaysMapped == HeapSpec => []HeapIsMapped
<1>1. HeapIInv => HeapIsMapped
  <2> SUFFICES ASSUME HeapIInv, vm PROVE 0..CurrBrkVpn \cup (KStackPage..(Pages - 1)) \subseteq DOMAIN pt
    BY DEF HeapIsMapped
  <2>1. Accounted(DOMAIN pt, NextBrkVpn(brk), Unaccounted(Table0, users))
    BY DEF HeapIInv, Fits, Table0
  <2>2. CurrBrkVpn = NextBrkVpn(brk)
    BY DEF CurrBrkVpn, NextBrkVpn
  <2> QED
    BY <2>1, <2>2 DEF Accounted, InUse
<1> QED
  BY <1>1, HeapAlwaysFits, PTL

(***************************************************************************)
(* The allocator implements the pool of frames: every step hands out free  *)
(* frames only, and takes back frames of who has them.                     *)
(***************************************************************************)
THEOREM AllocatorIsPool == HeapSpec => ImplementsFramePool
<1>1. HeapInit => Pool!Init
  <2> SUFFICES ASSUME HeapInit PROVE Pool!Init
    OBVIOUS
  <2>1. FreeFrames = Frame /\ users = {}
    BY HeapInitFits DEF HeapInit
  <2> QED
    BY <2>1 DEF Pool!Init
<1>2. HeapIInv /\ HeapIInv' /\ [HeapNext]_heapVars => [Pool!Next]_<<FreeFrames, users>>
  <2> SUFFICES ASSUME HeapIInv, HeapIInv', FramesMove PROVE Pool!Next
    BY HeapStepFits
  <2>1. FreeFrames \subseteq Frame /\ FreeFrames' \subseteq Frame
    BY DEF FreeFrames, FreeIn
  <2>2. users \subseteq Frame /\ users \cap FreeFrames = {}
    BY DEF HeapIInv, Fits, NoneTwice, FreeFrames, Table0
  <2>3. users' \cap FreeFrames' = {}
    BY DEF HeapIInv, Fits, NoneTwice, FreeFrames, Table0
  <2>4. CASE FreeFrames' \subseteq FreeFrames /\ users' = users
    <3> DEFINE F == FreeFrames \ FreeFrames'
    <3>1. F \in SUBSET Frame /\ F \subseteq FreeFrames /\ FreeFrames' = FreeFrames \ F
      BY <2>1, <2>4
    <3>2. Pool!KernelGets(F)
      BY <2>4, <3>1 DEF Pool!KernelGets
    <3> QED
      BY <3>1, <3>2 DEF Pool!Next
  <2>5. CASE FreeFrames \subseteq FreeFrames' /\ users' = users
    <3> DEFINE F == FreeFrames' \ FreeFrames
    <3>1. /\ F \in SUBSET Frame /\ FreeFrames' = FreeFrames \cup F
          /\ F \subseteq Frame \ (FreeFrames \cup users)
      BY <2>1, <2>3, <2>5
    <3>2. Pool!KernelReturns(F)
      BY <2>5, <3>1 DEF Pool!KernelReturns, Pool!Kernel
    <3> QED
      BY <3>1, <3>2 DEF Pool!Next
  <2>6. ASSUME NEW f \in FreeFrames, FreeFrames' = FreeFrames \ {f}, users' = users \cup {f}
        PROVE  Pool!Next
    <3>1. {f} \in SUBSET Frame /\ {f} \subseteq FreeFrames
      BY <2>1
    <3>2. Pool!UserGets({f})
      BY <2>6, <3>1 DEF Pool!UserGets
    <3> QED
      BY <3>1, <3>2 DEF Pool!Next
  <2>7. ASSUME NEW f \in users, FreeFrames' = FreeFrames \cup {f}, users' = users \ {f}
        PROVE  Pool!Next
    <3>1. {f} \in SUBSET Frame /\ {f} \subseteq users
      BY <2>2
    <3>2. Pool!UserReturns({f})
      BY <2>7, <3>1 DEF Pool!UserReturns
    <3> QED
      BY <3>1, <3>2 DEF Pool!Next
  <2> QED
    BY <2>4, <2>5, <2>6, <2>7 DEF FramesMove
<1> QED
  BY <1>1, <1>2, HeapAlwaysFits, PTL DEF HeapSpec, ImplementsFramePool, Pool!Spec

-----------------------------------------------------------------------------
(***************************************************************************)
(* The linked lists: the pointers stand for sequences, and what the        *)
(* scheduler does to the lists is what NodeQueues does to its queues, for  *)
(* any number of nodes.                                                    *)
(***************************************************************************)

(***************************************************************************)
(* The lists that links stands for: h holds the sequences q when every     *)
(* list is chained along its sequence, no node lies in two places, and a   *)
(* node that lies nowhere points nowhere.                                  *)
(***************************************************************************)
Links ==
  [head : [List -> Pointer], tail : [List -> Pointer], size : [List -> Int],
   next : [Node -> Pointer], prev : [Node -> Pointer]]

Chain(h, l, s) ==
  /\ h.size[l] = Len(s)
  /\ h.head[l] = IF Len(s) = 0 THEN Null ELSE s[1]
  /\ h.tail[l] = IF Len(s) = 0 THEN Null ELSE s[Len(s)]
  /\ \A i \in 1..Len(s) : /\ h.next[s[i]] = IF i = Len(s) THEN Null ELSE s[i + 1]
                          /\ h.prev[s[i]] = IF i = 1 THEN Null ELSE s[i - 1]

Lies(s, x) == \E i \in 1..Len(s) : s[i] = x
Loose(q, x) == \A l \in List : ~Lies(q[l], x)

Apart(q) ==
  \A l, m \in List : \A i \in 1..Len(q[l]), j \in 1..Len(q[m]) :
    q[l][i] = q[m][j] => l = m /\ i = j

Represents(h, q) ==
  /\ h \in Links /\ q \in [List -> Seq(Node)]
  /\ \A l \in List : Chain(h, l, q[l])
  /\ Apart(q)
  /\ \A x \in Node : Loose(q, x) => h.next[x] = Null /\ h.prev[x] = Null

(***************************************************************************)
(* An operation on list l that leaves it chained along s, takes in loose   *)
(* nodes only, and clears the pointers of those it lets go.                *)
(***************************************************************************)
LEMMA Relinked ==
  ASSUME NEW h, NEW q, Represents(h, q), NEW g \in Links,
         NEW l \in List, NEW s \in Seq(Node), Chain(g, l, s),
         \A i, j \in 1..Len(s) : s[i] = s[j] => i = j,
         \A x \in Node : Lies(s, x) => Lies(q[l], x) \/ Loose(q, x),
         \A x \in Node : ~Lies(q[l], x) /\ ~Lies(s, x)
                            => g.next[x] = h.next[x] /\ g.prev[x] = h.prev[x],
         \A x \in Node : Lies(q[l], x) /\ ~Lies(s, x)
                            => g.next[x] = Null /\ g.prev[x] = Null,
         \A m \in List : m # l => /\ g.head[m] = h.head[m] /\ g.tail[m] = h.tail[m]
                                  /\ g.size[m] = h.size[m]
  PROVE  Represents(g, [q EXCEPT ![l] = s])
<1> DEFINE r == [q EXCEPT ![l] = s]
<1>1. /\ q \in [List -> Seq(Node)] /\ r \in [List -> Seq(Node)]
      /\ r[l] = s /\ \A m \in List : m # l => r[m] = q[m]
  BY DEF Represents
<1> HIDE DEF r
<1>2. \A m \in List, x \in Node : m # l /\ Lies(q[m], x) => ~Lies(q[l], x) /\ ~Lies(s, x)
  <2> SUFFICES ASSUME NEW m \in List, NEW x \in Node, m # l, Lies(q[m], x)
      PROVE  ~Lies(q[l], x)
    BY DEF Loose
  <2> QED
    BY DEF Represents, Apart, Lies
<1>3. ASSUME NEW m \in List PROVE Chain(g, m, r[m])
  <2>1. CASE m = l
    BY <1>1, <2>1
  <2>2. CASE m # l
    <3>1. Chain(h, m, q[m]) /\ r[m] = q[m] /\ q[m] \in Seq(Node)
      BY <1>1, <2>2 DEF Represents
    <3>2. ASSUME NEW i \in 1..Len(q[m])
          PROVE  g.next[q[m][i]] = h.next[q[m][i]] /\ g.prev[q[m][i]] = h.prev[q[m][i]]
      <4>1. q[m][i] \in Node /\ Lies(q[m], q[m][i])
        BY <3>1, ElementOfSeq DEF Lies
      <4> QED
        BY <4>1, <1>2, <2>2
    <3> QED
      BY <3>1, <3>2, <2>2 DEF Chain
  <2> QED
    BY <2>1, <2>2
<1>4. Apart(r)
  <2> SUFFICES ASSUME NEW k \in List, NEW m \in List, NEW i \in 1..Len(r[k]), NEW j \in 1..Len(r[m]),
                      r[k][i] = r[m][j]
      PROVE  k = m /\ i = j
    BY DEF Apart
  <2>1. r[k][i] \in Node /\ Lies(r[k], r[k][i]) /\ Lies(r[m], r[k][i])
    BY <1>1, ElementOfSeq DEF Lies
  <2>2. CASE k # l /\ m # l
    BY <1>1, <2>2 DEF Represents, Apart
  <2>3. CASE k = l /\ m = l
    BY <1>1, <2>3
  <2>4. CASE k # m
    BY <1>1, <1>2, <2>1, <2>2, <2>4
  <2> QED
    BY <2>2, <2>3, <2>4
<1>5. ASSUME NEW x \in Node, Loose(r, x) PROVE g.next[x] = Null /\ g.prev[x] = Null
  <2>1. ~Lies(s, x) /\ \A m \in List : m # l => ~Lies(q[m], x)
    BY <1>1, <1>5 DEF Loose
  <2>2. CASE Lies(q[l], x)
    BY <2>1, <2>2
  <2>3. CASE ~Lies(q[l], x)
    BY <2>1, <2>3 DEF Loose, Represents
  <2> QED
    BY <2>2, <2>3
<1> QED
  BY <1>1, <1>3, <1>4, <1>5 DEF Represents, r

(***************************************************************************)
(* What the places of one list tell of its pointers.                       *)
(***************************************************************************)
LEMMA Places ==
  ASSUME NEW h, NEW q, Represents(h, q), NEW l \in List
  PROVE  /\ h \in Links /\ Chain(h, l, q[l])
         /\ q \in [List -> Seq(Node)] /\ q[l] \in Seq(Node) /\ Len(q[l]) \in Nat
         /\ \A i \in 1..Len(q[l]) : q[l][i] \in Node
         /\ \A i, j \in 1..Len(q[l]) : q[l][i] = q[l][j] => i = j
BY ElementOfSeq, LenProperties DEF Represents, Apart

-----------------------------------------------------------------------------
(***************************************************************************)
(* enqueue and push of a loose node, into an empty list or another one.    *)
(***************************************************************************)
LEMMA OnlyNode ==
  ASSUME NEW h \in Links, NEW l \in List, NEW n \in Node
  PROVE  LET g == First(h, l, n)
         IN  /\ g \in Links
             /\ g.size = [h.size EXCEPT ![l] = @ + 1]
             /\ g.head = [h.head EXCEPT ![l] = n] /\ g.tail = [h.tail EXCEPT ![l] = n]
             /\ g.next = [h.next EXCEPT ![n] = Null] /\ g.prev = [h.prev EXCEPT ![n] = Null]
<1> DEFINE g == First(h, l, n)
<1>0. g = First(h, l, n)
  OBVIOUS
<1> HIDE DEF g
<1>1. g = [head |-> [h.head EXCEPT ![l] = n], tail |-> [h.tail EXCEPT ![l] = n],
           size |-> [h.size EXCEPT ![l] = @ + 1],
           next |-> [h.next EXCEPT ![n] = Null], prev |-> [h.prev EXCEPT ![n] = Null]]
  BY <1>0 DEF First, Links
<1>2. n \in Pointer /\ Null \in Pointer
  BY DEF Pointer
<1>3. /\ [h.head EXCEPT ![l] = n] \in [List -> Pointer]
      /\ [h.tail EXCEPT ![l] = n] \in [List -> Pointer]
      /\ [h.size EXCEPT ![l] = @ + 1] \in [List -> Int]
      /\ [h.next EXCEPT ![n] = Null] \in [Node -> Pointer]
      /\ [h.prev EXCEPT ![n] = Null] \in [Node -> Pointer]
  BY <1>2 DEF Links
<1>4. g \in Links
  BY <1>1, <1>3 DEF Links
<1> QED
  BY <1>1, <1>4 DEF g

LEMMA EnqueueAppends ==
  ASSUME NEW h, NEW q, Represents(h, q), NEW l \in List, NEW n \in Node, Loose(q, n)
  PROVE  Represents(enqueue(h, l, n), [q EXCEPT ![l] = Append(@, n)])
<1> DEFINE t == q[l]
           s == Append(t, n)
           g == enqueue(h, l, n)
<1>1. /\ h \in Links /\ Chain(h, l, t) /\ t \in Seq(Node) /\ Len(t) \in Nat
      /\ \A i \in 1..Len(t) : t[i] \in Node
      /\ \A i, j \in 1..Len(t) : t[i] = t[j] => i = j
  BY Places
<1>2. \A i \in 1..Len(t) : t[i] # n
  BY DEF Loose, Lies
<1>3. /\ s \in Seq(Node) /\ Len(s) = Len(t) + 1 /\ s[Len(t) + 1] = n
      /\ \A i \in 1..Len(t) : s[i] = t[i]
  BY <1>1, AppendProperties
<1> HIDE DEF s
<1>4. Null \notin Node
  BY LinkedListAssumption
<1>5. /\ g \in Links
      /\ g.size = [h.size EXCEPT ![l] = @ + 1] /\ g.tail = [h.tail EXCEPT ![l] = n]
      /\ g.head = [h.head EXCEPT ![l] = IF Len(t) = 0 THEN n ELSE @]
      /\ g.prev = [h.prev EXCEPT ![n] = IF Len(t) = 0 THEN Null ELSE h.tail[l]]
      /\ g.next = IF Len(t) = 0 THEN [h.next EXCEPT ![n] = Null]
                  ELSE [h.next EXCEPT ![n] = Null, ![h.tail[l]] = n]
  <2>1. CASE Len(t) = 0
    <3>1. h.head[l] = Null
      BY <1>1, <2>1 DEF Chain
    <3>2. g = First(h, l, n)
      BY <3>1 DEF enqueue
    <3> HIDE DEF g, t
    <3>3. h \in Links
      BY <1>1
    <3>4. /\ g \in Links
          /\ g.size = [h.size EXCEPT ![l] = @ + 1]
          /\ g.head = [h.head EXCEPT ![l] = n] /\ g.tail = [h.tail EXCEPT ![l] = n]
          /\ g.next = [h.next EXCEPT ![n] = Null] /\ g.prev = [h.prev EXCEPT ![n] = Null]
      BY <3>2, <3>3, OnlyNode
    <3> QED
      BY <3>4, <2>1
  <2>2. CASE Len(t) # 0
    <3>1. h.head[l] # Null /\ h.tail[l] = t[Len(t)] /\ t[Len(t)] \in Node
      BY <1>1, <1>4, <2>2 DEF Chain
    <3>2. g = [h EXCEPT !.next = [@ EXCEPT ![n] = Null, ![h.tail[l]] = n],
                 !.prev[n] = h.tail[l],
                 !.tail[l] = n, !.size[l] = @ + 1]
      BY <3>1 DEF enqueue
    <3> HIDE DEF g, t
    <3>3. h \in Links /\ h.tail[l] \in Node
      BY <1>1, <3>1
    <3>5. g = [head |-> h.head, tail |-> [h.tail EXCEPT ![l] = n],
               size |-> [h.size EXCEPT ![l] = @ + 1],
               next |-> [h.next EXCEPT ![n] = Null, ![h.tail[l]] = n],
               prev |-> [h.prev EXCEPT ![n] = h.tail[l]]]
      BY <3>2, <3>3 DEF Links
    <3>6. n \in Pointer /\ h.tail[l] \in Pointer /\ Null \in Pointer
      BY <3>3 DEF Pointer
    <3>7. /\ h.head \in [List -> Pointer]
          /\ [h.tail EXCEPT ![l] = n] \in [List -> Pointer]
          /\ [h.size EXCEPT ![l] = @ + 1] \in [List -> Int]
          /\ [h.next EXCEPT ![n] = Null, ![h.tail[l]] = n] \in [Node -> Pointer]
          /\ [h.prev EXCEPT ![n] = h.tail[l]] \in [Node -> Pointer]
      BY <3>3, <3>6 DEF Links
    <3>8. g \in Links
      BY <3>5, <3>7 DEF Links
    <3>9. [h.head EXCEPT ![l] = IF Len(t) = 0 THEN n ELSE @] = h.head
      BY <3>3, <2>2 DEF Links
    <3> QED
      BY <3>5, <3>8, <3>9, <2>2
  <2> QED
    BY <2>1, <2>2
<1> HIDE DEF g
<1>6. Chain(g, l, s)
  <2>1. ASSUME NEW i \in 1..Len(s)
        PROVE  /\ g.next[s[i]] = IF i = Len(s) THEN Null ELSE s[i + 1]
               /\ g.prev[s[i]] = IF i = 1 THEN Null ELSE s[i - 1]
    <3>1. CASE i = Len(t) + 1
      BY <1>1, <1>2, <1>3, <1>5, <3>1 DEF Chain, Links
    <3>2. CASE i \in 1..Len(t)
      <4>0. Len(t) \in 1..Len(t) /\ Len(t) # 0 /\ t[i] # n /\ (t[i] = t[Len(t)] => i = Len(t))
        BY <1>1, <1>2, <3>2
      <4>1. /\ h.next[t[i]] = IF i = Len(t) THEN Null ELSE t[i + 1]
            /\ h.prev[t[i]] = IF i = 1 THEN Null ELSE t[i - 1]
            /\ h.tail[l] = t[Len(t)] /\ t[i] # n /\ (t[i] = t[Len(t)] => i = Len(t)) /\ Len(t) # 0
        BY <4>0, <1>1, <3>2 DEF Chain
      <4>2. g.prev[t[i]] = h.prev[t[i]] /\ g.next[t[i]] = IF i = Len(t) THEN n ELSE h.next[t[i]]
        BY <4>1, <1>1, <1>5, <3>2 DEF Links
      <4> QED
        BY <4>1, <4>2, <1>1, <1>3, <3>2
    <3> QED
      BY <1>1, <1>3, <3>1, <3>2
  <2> QED
    BY <2>1, <1>1, <1>3, <1>5 DEF Chain, Links
<1>7. \A i, j \in 1..Len(s) : s[i] = s[j] => i = j
  <2> SUFFICES ASSUME NEW i \in 1..Len(s), NEW j \in 1..Len(s), s[i] = s[j] PROVE i = j
    OBVIOUS
  <2>1. (i \in 1..Len(t) \/ i = Len(t) + 1) /\ (j \in 1..Len(t) \/ j = Len(t) + 1)
    BY <1>1, <1>3
  <2> QED
    BY <2>1, <1>1, <1>2, <1>3
<1>8. \A x \in Node : Lies(s, x) <=> Lies(t, x) \/ x = n
  <2> SUFFICES ASSUME NEW x \in Node PROVE Lies(s, x) <=> Lies(t, x) \/ x = n
    OBVIOUS
  <2>1. ASSUME Lies(s, x), x # n PROVE Lies(t, x)
    <3>1. PICK i \in 1..Len(s) : s[i] = x
      BY <2>1 DEF Lies
    <3>2. i \in 1..Len(t)
      BY <3>1, <2>1, <1>1, <1>3
    <3> QED
      BY <3>1, <3>2, <1>3 DEF Lies
  <2>2. ASSUME Lies(t, x) PROVE Lies(s, x)
    <3>1. PICK i \in 1..Len(t) : t[i] = x
      BY <2>2 DEF Lies
    <3>2. i \in 1..Len(s) /\ s[i] = x
      BY <3>1, <1>1, <1>3
    <3> QED
      BY <3>2 DEF Lies
  <2>3. Lies(s, n)
    <3>1. Len(t) + 1 \in 1..Len(s)
      BY <1>1, <1>3
    <3> QED
      BY <3>1, <1>3 DEF Lies
  <2> QED
    BY <2>1, <2>2, <2>3
<1>9. \A x \in Node : ~Lies(t, x) /\ x # n
                        => g.next[x] = h.next[x] /\ g.prev[x] = h.prev[x]
  <2> SUFFICES ASSUME NEW x \in Node, ~Lies(t, x), x # n
      PROVE  g.next[x] = h.next[x] /\ g.prev[x] = h.prev[x]
    OBVIOUS
  <2>1. Len(t) # 0 => h.tail[l] # x
    BY <1>1 DEF Lies, Chain
  <2> QED
    BY <2>1, <1>1, <1>5 DEF Links
<1>10. Represents(g, [q EXCEPT ![l] = s])
  <2>1. \A m \in List : m # l => /\ g.head[m] = h.head[m] /\ g.tail[m] = h.tail[m]
                                 /\ g.size[m] = h.size[m]
    BY <1>1, <1>5 DEF Links
  <2>2. \A x \in Node : Lies(s, x) => Lies(q[l], x) \/ Loose(q, x)
    BY <1>8
  <2>3. \A x \in Node : ~Lies(q[l], x) /\ ~Lies(s, x)
                           => g.next[x] = h.next[x] /\ g.prev[x] = h.prev[x]
    BY <1>8, <1>9
  <2>4. \A x \in Node : Lies(q[l], x) /\ ~Lies(s, x)
                           => g.next[x] = Null /\ g.prev[x] = Null
    BY <1>8
  <2>5. s \in Seq(Node) /\ g \in Links
    BY <1>3, <1>5
  <2> HIDE DEF t
  <2> QED
    BY <1>6, <1>7, <2>1, <2>2, <2>3, <2>4, <2>5, Relinked
<1> QED
  BY <1>10 DEF g, s, t

LEMMA PushPutsFirst ==
  ASSUME NEW h, NEW q, Represents(h, q), NEW l \in List, NEW n \in Node, Loose(q, n)
  PROVE  Represents(push(h, l, n), [q EXCEPT ![l] = <<n>> \o @])
<1> DEFINE t == q[l]
           s == <<n>> \o t
           g == push(h, l, n)
<1>1. /\ h \in Links /\ Chain(h, l, t) /\ t \in Seq(Node) /\ Len(t) \in Nat
      /\ \A i \in 1..Len(t) : t[i] \in Node
      /\ \A i, j \in 1..Len(t) : t[i] = t[j] => i = j
  BY Places
<1>2. \A i \in 1..Len(t) : t[i] # n
  BY DEF Loose, Lies
<1>3. /\ s \in Seq(Node) /\ Len(s) = Len(t) + 1 /\ s[1] = n
      /\ \A i \in 2..(Len(t) + 1) : s[i] = t[i - 1]
  <2>1. <<n>> \in Seq(Node) /\ Len(<<n>>) = 1 /\ <<n>>[1] = n
    OBVIOUS
  <2> HIDE DEF t
  <2> QED
    BY <2>1, <1>1, ConcatProperties
<1> HIDE DEF s
<1>4. Null \notin Node
  BY LinkedListAssumption
<1>5. /\ g \in Links
      /\ g.size = [h.size EXCEPT ![l] = @ + 1] /\ g.head = [h.head EXCEPT ![l] = n]
      /\ g.tail = [h.tail EXCEPT ![l] = IF Len(t) = 0 THEN n ELSE @]
      /\ g.next = [h.next EXCEPT ![n] = IF Len(t) = 0 THEN Null ELSE h.head[l]]
      /\ g.prev = IF Len(t) = 0 THEN [h.prev EXCEPT ![n] = Null]
                  ELSE [h.prev EXCEPT ![n] = Null, ![h.head[l]] = n]
  <2>1. CASE Len(t) = 0
    <3>1. h.head[l] = Null
      BY <1>1, <2>1 DEF Chain
    <3>2. g = First(h, l, n)
      BY <3>1 DEF push
    <3> HIDE DEF g, t
    <3>3. h \in Links
      BY <1>1
    <3>4. /\ g \in Links
          /\ g.size = [h.size EXCEPT ![l] = @ + 1]
          /\ g.head = [h.head EXCEPT ![l] = n] /\ g.tail = [h.tail EXCEPT ![l] = n]
          /\ g.next = [h.next EXCEPT ![n] = Null] /\ g.prev = [h.prev EXCEPT ![n] = Null]
      BY <3>2, <3>3, OnlyNode
    <3> QED
      BY <3>4, <2>1
  <2>2. CASE Len(t) # 0
    <3>1. h.head[l] # Null /\ h.head[l] \in Node
      BY <1>1, <1>4, <2>2 DEF Chain
    <3>2. g = [h EXCEPT !.prev = [@ EXCEPT ![n] = Null, ![h.head[l]] = n],
                 !.next[n] = h.head[l],
                 !.head[l] = n, !.size[l] = @ + 1]
      BY <3>1 DEF push
    <3> HIDE DEF g, t
    <3>3. h \in Links /\ h.head[l] \in Node
      BY <1>1, <3>1
    <3>5. g = [head |-> [h.head EXCEPT ![l] = n], tail |-> h.tail,
               size |-> [h.size EXCEPT ![l] = @ + 1],
               next |-> [h.next EXCEPT ![n] = h.head[l]],
               prev |-> [h.prev EXCEPT ![n] = Null, ![h.head[l]] = n]]
      BY <3>2, <3>3 DEF Links
    <3>6. n \in Pointer /\ h.head[l] \in Pointer /\ Null \in Pointer
      BY <3>3 DEF Pointer
    <3>7. /\ [h.head EXCEPT ![l] = n] \in [List -> Pointer]
          /\ h.tail \in [List -> Pointer]
          /\ [h.size EXCEPT ![l] = @ + 1] \in [List -> Int]
          /\ [h.next EXCEPT ![n] = h.head[l]] \in [Node -> Pointer]
          /\ [h.prev EXCEPT ![n] = Null, ![h.head[l]] = n] \in [Node -> Pointer]
      BY <3>3, <3>6 DEF Links
    <3>8. g \in Links
      BY <3>5, <3>7 DEF Links
    <3>9. [h.tail EXCEPT ![l] = IF Len(t) = 0 THEN n ELSE @] = h.tail
      BY <3>3, <2>2 DEF Links
    <3> QED
      BY <3>5, <3>8, <3>9, <2>2
  <2> QED
    BY <2>1, <2>2
<1> HIDE DEF g
<1>6. Chain(g, l, s)
  <2>1. ASSUME NEW i \in 1..Len(s)
        PROVE  /\ g.next[s[i]] = IF i = Len(s) THEN Null ELSE s[i + 1]
               /\ g.prev[s[i]] = IF i = 1 THEN Null ELSE s[i - 1]
    <3>1. CASE i = 1
      <4>1. Len(t) # 0 => 2 \in 2..(Len(t) + 1) /\ h.head[l] = t[1] /\ t[1] # n
        BY <1>1, <1>2 DEF Chain
      <4> QED
        BY <4>1, <1>1, <1>3, <1>5, <3>1 DEF Links
    <3>2. CASE i \in 2..(Len(t) + 1)
      <4> DEFINE k == i - 1
      <4>1. k \in 1..Len(t) /\ i = k + 1 /\ s[i] = t[k] /\ Len(t) # 0 /\ 1 \in 1..Len(t)
        BY <1>1, <1>3, <3>2
      <4> HIDE DEF k
      <4>2. /\ h.next[t[k]] = IF k = Len(t) THEN Null ELSE t[k + 1]
            /\ h.prev[t[k]] = IF k = 1 THEN Null ELSE t[k - 1]
            /\ h.head[l] = t[1] /\ t[k] # n /\ (t[k] = t[1] => k = 1)
        BY <1>1, <1>2, <4>1 DEF Chain
      <4>3. g.next[t[k]] = h.next[t[k]] /\ g.prev[t[k]] = IF k = 1 THEN n ELSE h.prev[t[k]]
        BY <4>1, <4>2, <1>1, <1>5 DEF Links
      <4>4. /\ k # Len(t) => s[i + 1] = t[k + 1]
            /\ k # 1 => s[i - 1] = t[k - 1]
        BY <4>1, <1>1, <1>3
      <4> QED
        BY <4>1, <4>2, <4>3, <4>4, <1>1, <1>3
    <3> QED
      BY <1>1, <1>3, <3>1, <3>2
  <2>2. Len(t) # 0 => s[Len(s)] = t[Len(t)]
    BY <1>1, <1>3
  <2>3. g.head[l] = s[1] /\ g.size[l] = Len(s)
    BY <1>1, <1>3, <1>5 DEF Chain, Links
  <2>4. g.tail[l] = s[Len(s)]
    BY <2>2, <1>1, <1>3, <1>5 DEF Chain, Links
  <2> QED
    BY <2>1, <2>3, <2>4, <1>1, <1>3 DEF Chain
<1>7. \A i, j \in 1..Len(s) : s[i] = s[j] => i = j
  <2> SUFFICES ASSUME NEW i \in 1..Len(s), NEW j \in 1..Len(s), s[i] = s[j] PROVE i = j
    OBVIOUS
  <2>1. /\ i = 1 \/ (i - 1 \in 1..Len(t) /\ s[i] = t[i - 1])
        /\ j = 1 \/ (j - 1 \in 1..Len(t) /\ s[j] = t[j - 1])
    BY <1>1, <1>3
  <2>2. CASE i = 1 \/ j = 1
    BY <2>1, <2>2, <1>2, <1>3
  <2>3. CASE i # 1 /\ j # 1
    <3>1. i - 1 = j - 1
      BY <2>1, <2>3, <1>1
    <3> QED
      BY <3>1
  <2> QED
    BY <2>2, <2>3
<1>8. \A x \in Node : Lies(s, x) <=> Lies(t, x) \/ x = n
  <2> SUFFICES ASSUME NEW x \in Node PROVE Lies(s, x) <=> Lies(t, x) \/ x = n
    OBVIOUS
  <2>1. ASSUME Lies(s, x), x # n PROVE Lies(t, x)
    <3>1. PICK i \in 1..Len(s) : s[i] = x
      BY <2>1 DEF Lies
    <3>2. i - 1 \in 1..Len(t) /\ t[i - 1] = x
      <4>1. i # 1
        BY <3>1, <2>1, <1>3
      <4>2. i \in 2..(Len(t) + 1) /\ i - 1 \in 1..Len(t)
        BY <4>1, <1>1, <1>3
      <4> QED
        BY <3>1, <4>2, <1>3
    <3> QED
      BY <3>2 DEF Lies
  <2>2. ASSUME Lies(t, x) PROVE Lies(s, x)
    <3>1. PICK i \in 1..Len(t) : t[i] = x
      BY <2>2 DEF Lies
    <3>2. i + 1 \in 1..Len(s) /\ s[i + 1] = x
      <4>1. i + 1 \in 1..Len(s) /\ i + 1 \in 2..(Len(t) + 1) /\ i + 1 - 1 = i
        BY <1>1, <1>3
      <4>2. s[i + 1] = t[i + 1 - 1]
        BY <4>1, <1>3
      <4> QED
        BY <3>1, <4>1, <4>2
    <3> QED
      BY <3>2 DEF Lies
  <2>3. Lies(s, n)
    <3>1. 1 \in 1..Len(s)
      BY <1>1, <1>3
    <3> QED
      BY <3>1, <1>3 DEF Lies
  <2> QED
    BY <2>1, <2>2, <2>3
<1>9. \A x \in Node : ~Lies(t, x) /\ x # n
                        => g.next[x] = h.next[x] /\ g.prev[x] = h.prev[x]
  <2> SUFFICES ASSUME NEW x \in Node, ~Lies(t, x), x # n
      PROVE  g.next[x] = h.next[x] /\ g.prev[x] = h.prev[x]
    OBVIOUS
  <2>1. Len(t) # 0 => h.head[l] # x
    BY <1>1 DEF Lies, Chain
  <2> QED
    BY <2>1, <1>1, <1>5 DEF Links
<1>10. Represents(g, [q EXCEPT ![l] = s])
  <2>1. \A m \in List : m # l => /\ g.head[m] = h.head[m] /\ g.tail[m] = h.tail[m]
                                 /\ g.size[m] = h.size[m]
    BY <1>1, <1>5 DEF Links
  <2>2. \A x \in Node : Lies(s, x) => Lies(q[l], x) \/ Loose(q, x)
    BY <1>8
  <2>3. \A x \in Node : ~Lies(q[l], x) /\ ~Lies(s, x)
                           => g.next[x] = h.next[x] /\ g.prev[x] = h.prev[x]
    BY <1>8, <1>9
  <2>4. \A x \in Node : Lies(q[l], x) /\ ~Lies(s, x)
                           => g.next[x] = Null /\ g.prev[x] = Null
    BY <1>8
  <2>5. s \in Seq(Node) /\ g \in Links
    BY <1>3, <1>5
  <2> HIDE DEF t
  <2> QED
    BY <1>6, <1>7, <2>1, <2>2, <2>3, <2>4, <2>5, Relinked
<1> QED
  BY <1>10 DEF g, s, t

-----------------------------------------------------------------------------
(***************************************************************************)
(* The sequence without its place i: those in front stay, those behind     *)
(* move up.                                                                *)
(***************************************************************************)
LEMMA WithoutPlace ==
  ASSUME NEW S, NEW s \in Seq(S), NEW k \in 1..Len(s)
  PROVE  LET t == Queues!RemoveAt(s, k)
         IN  /\ t \in Seq(S) /\ Len(t) = Len(s) - 1
             /\ \A i \in 1..(Len(s) - 1) : t[i] = IF i < k THEN s[i] ELSE s[i + 1]
<1> DEFINE a == SubSeq(s, 1, k - 1)
           b == SubSeq(s, k + 1, Len(s))
           t == Queues!RemoveAt(s, k)
<1>1. DOMAIN s = 1..Len(s) /\ Len(s) \in Nat
  BY LenProperties
<1>2. /\ a \in Seq(S) /\ Len(a) = k - 1
      /\ \A i \in 1..(k - 1) : a[i] = s[i]
  BY <1>1, SubSeqProperties, ElementOfSeq
<1>3. /\ b \in Seq(S) /\ Len(b) = Len(s) - k
      /\ \A i \in 1..(Len(s) - k) : b[i] = s[k + i]
  <2>1. k + 1 \in Int /\ Len(s) \in Int /\ \A i \in (k + 1)..Len(s) : s[i] \in S
    BY <1>1, ElementOfSeq
  <2>2. /\ b \in Seq(S)
        /\ Len(b) = IF k + 1 <= Len(s) THEN Len(s) - (k + 1) + 1 ELSE 0
        /\ \A i \in 1..(Len(s) - (k + 1) + 1) : b[i] = s[(k + 1) + i - 1]
    BY <2>1, SubSeqProperties
  <2> HIDE DEF b
  <2>3. Len(b) = Len(s) - k
    BY <1>1, <2>2
  <2>4. ASSUME NEW i \in 1..(Len(s) - k) PROVE b[i] = s[k + i]
    <3>1. i \in 1..(Len(s) - (k + 1) + 1) /\ (k + 1) + i - 1 = k + i
      BY <1>1
    <3>2. b[i] = s[(k + 1) + i - 1]
      BY <2>2, <3>1
    <3> QED BY <3>1, <3>2
  <2> QED BY <2>2, <2>3, <2>4
<1>t. t = a \o b
  BY DEF Queues!RemoveAt
<1> HIDE DEF a, b, t
<1>4. /\ t \in Seq(S) /\ Len(t) = Len(s) - 1
      /\ \A i \in 1..(Len(s) - 1) : t[i] = IF i < k THEN s[i] ELSE s[i + 1]
  <2>1. /\ t \in Seq(S) /\ Len(t) = Len(a) + Len(b)
        /\ \A i \in 1..(Len(a) + Len(b)) :
             t[i] = IF i <= Len(a) THEN a[i] ELSE b[i - Len(a)]
    BY <1>2, <1>3, <1>t, ConcatProperties
  <2>2. Len(a) + Len(b) = Len(s) - 1
    BY <1>1, <1>2, <1>3
  <2>3. ASSUME NEW i \in 1..(Len(s) - 1)
        PROVE  t[i] = IF i < k THEN s[i] ELSE s[i + 1]
    <3>1. CASE i < k
      BY <1>1, <1>2, <2>1, <2>2, <3>1
    <3>2. CASE i >= k
      <4>1. i - (k - 1) \in 1..(Len(s) - k) /\ k + (i - (k - 1)) = i + 1
        BY <1>1, <3>2
      <4>2. b[i - (k - 1)] = s[i + 1]
        BY <1>3, <4>1
      <4>3. ~(i <= Len(a)) /\ i - Len(a) = i - (k - 1) /\ i \in 1..(Len(a) + Len(b))
        BY <1>1, <1>2, <2>2, <3>2
      <4>4. t[i] = b[i - (k - 1)]
        BY <2>1, <4>3
      <4> QED BY <1>1, <3>2, <4>2, <4>4
    <3> QED BY <1>1, <3>1, <3>2
  <2> QED BY <2>1, <2>2, <2>3
<1> QED BY <1>4 DEF t

(***************************************************************************)
(* One node taken out: its neighbours are linked with each other, it       *)
(* points nowhere any more, and nothing else changes.                      *)
(***************************************************************************)
Bypasses(g, h, l, s, i) ==
  /\ g.size = [h.size EXCEPT ![l] = @ - 1]
  /\ g.head = IF i = 1 THEN [h.head EXCEPT ![l] = h.next[s[1]]] ELSE h.head
  /\ g.tail = IF i = Len(s) THEN [h.tail EXCEPT ![l] = h.prev[s[i]]] ELSE h.tail
  /\ g.next = IF i = 1 THEN [h.next EXCEPT ![s[i]] = Null]
              ELSE [h.next EXCEPT ![s[i - 1]] = h.next[s[i]], ![s[i]] = Null]
  /\ g.prev = IF i = Len(s) THEN [h.prev EXCEPT ![s[i]] = Null]
              ELSE [h.prev EXCEPT ![s[i + 1]] = h.prev[s[i]], ![s[i]] = Null]

LEMMA BypassedNode ==
  ASSUME NEW h, NEW q, Represents(h, q), NEW l \in List, NEW i \in 1..Len(q[l]),
         NEW g \in Links, Bypasses(g, h, l, q[l], i)
  PROVE  Represents(g, [q EXCEPT ![l] = Queues!RemoveAt(@, i)])
<1> DEFINE s == q[l]
           t == Queues!RemoveAt(s, i)
<1>1. /\ h \in Links /\ Chain(h, l, s) /\ s \in Seq(Node) /\ Len(s) \in Nat
      /\ \A j \in 1..Len(s) : s[j] \in Node
      /\ \A j, k \in 1..Len(s) : s[j] = s[k] => j = k
  BY Places
<1>2. /\ t \in Seq(Node) /\ Len(t) = Len(s) - 1
      /\ \A j \in 1..(Len(s) - 1) : t[j] = IF j < i THEN s[j] ELSE s[j + 1]
  BY <1>1, WithoutPlace
<1> HIDE DEF t
<1>3. /\ i > 1 => i - 1 \in 1..Len(s) /\ s[i - 1] \in Node
      /\ i < Len(s) => i + 1 \in 1..Len(s) /\ s[i + 1] \in Node
      /\ s[i] \in Node /\ i \in 1..Len(s)
  BY <1>1
<1>b. Bypasses(g, h, l, s, i)
  OBVIOUS
<1> HIDE DEF s
<1>4. ASSUME NEW k \in 1..Len(s), k # i
      PROVE  /\ g.next[s[k]] = IF k = i - 1 THEN h.next[s[i]] ELSE h.next[s[k]]
             /\ g.prev[s[k]] = IF k = i + 1 THEN h.prev[s[i]] ELSE h.prev[s[k]]
  <2>1. /\ s[k] \in Node /\ s[k] # s[i]
        /\ i > 1 => (s[k] = s[i - 1] <=> k = i - 1)
        /\ i < Len(s) => (s[k] = s[i + 1] <=> k = i + 1)
    BY <1>1, <1>3, <1>4
  <2>2. g.next[s[k]] = IF k = i - 1 THEN h.next[s[i]] ELSE h.next[s[k]]
    BY <2>1, <1>1, <1>3, <1>b DEF Bypasses, Links
  <2>3. g.prev[s[k]] = IF k = i + 1 THEN h.prev[s[i]] ELSE h.prev[s[k]]
    BY <2>1, <1>1, <1>3, <1>b DEF Bypasses, Links
  <2> QED
    BY <2>2, <2>3
<1>5. g.next[s[i]] = Null /\ g.prev[s[i]] = Null
  BY <1>1, <1>3, <1>b DEF Bypasses, Links
<1>6. \A j \in 1..Len(s) : /\ h.next[s[j]] = IF j = Len(s) THEN Null ELSE s[j + 1]
                           /\ h.prev[s[j]] = IF j = 1 THEN Null ELSE s[j - 1]
  BY <1>1 DEF Chain
<1>7. Chain(g, l, t)
  <2>1. ASSUME NEW j \in 1..Len(t)
        PROVE  /\ g.next[t[j]] = IF j = Len(t) THEN Null ELSE t[j + 1]
               /\ g.prev[t[j]] = IF j = 1 THEN Null ELSE t[j - 1]
    <3>1. CASE j < i
      <4>1. /\ j \in 1..Len(s) /\ j # i /\ t[j] = s[j] /\ j # i + 1
            /\ j # 1 => t[j - 1] = s[j - 1]
        BY <1>1, <1>2, <3>1
      <4>2. g.prev[t[j]] = IF j = 1 THEN Null ELSE t[j - 1]
        BY <4>1, <1>4, <1>6
      <4>3. CASE j = i - 1
        <5>1. j # Len(t) => t[j + 1] = s[i + 1]
          BY <4>3, <1>1, <1>2
        <5>2. j = Len(t) <=> i = Len(s)
          BY <4>3, <1>1, <1>2
        <5>3. g.next[t[j]] = h.next[s[i]]
          BY <4>1, <4>3, <1>4
        <5> QED
          BY <5>1, <5>2, <5>3, <1>3, <1>6, <4>2
      <4>4. CASE j # i - 1
        <5>1. j + 1 < i /\ j # Len(t) /\ j # Len(s) /\ j + 1 \in 1..(Len(s) - 1)
          BY <1>3, <4>4, <1>1, <1>2, <3>1
        <5>2. t[j + 1] = s[j + 1]
          BY <5>1, <1>2
        <5>3. g.next[t[j]] = h.next[s[j]]
          BY <4>1, <4>4, <1>4
        <5> QED
          BY <5>1, <5>2, <5>3, <4>1, <4>2, <1>6
      <4> QED
        BY <4>3, <4>4
    <3>2. CASE j >= i
      <4>1. /\ j + 1 \in 1..Len(s) /\ j + 1 # i /\ t[j] = s[j + 1] /\ j + 1 # i - 1
            /\ j + 1 # 1 /\ j + 1 - 1 = j /\ (j + 1 = Len(s) <=> j = Len(t))
        BY <1>1, <1>2, <3>2
      <4>2. g.next[t[j]] = IF j = Len(t) THEN Null ELSE t[j + 1]
        <5>1. g.next[t[j]] = h.next[s[j + 1]]
          BY <4>1, <1>4
        <5>2. h.next[s[j + 1]] = IF j = Len(t) THEN Null ELSE s[j + 1 + 1]
          BY <4>1, <1>6
        <5>3. j # Len(t) => t[j + 1] = s[j + 1 + 1]
          BY <1>1, <1>2, <3>2
        <5> QED
          BY <5>1, <5>2, <5>3
      <4>3. CASE j = i
        <5>1. g.prev[t[j]] = h.prev[s[i]]
          BY <4>1, <4>3, <1>4
        <5>2. j # 1 => t[j - 1] = s[i - 1]
          BY <4>3, <1>1, <1>2
        <5> QED
          BY <5>1, <5>2, <4>2, <4>3, <1>3, <1>6
      <4>4. CASE j # i
        <5>1. g.prev[t[j]] = h.prev[s[j + 1]]
          BY <4>1, <4>4, <1>4
        <5>2. h.prev[s[j + 1]] = s[j]
          BY <4>1, <1>6
        <5>3. j # 1 /\ j - 1 \in 1..(Len(s) - 1) /\ ~(j - 1 < i) /\ j - 1 + 1 = j
          BY <1>3, <4>4, <1>1, <1>2, <3>2
        <5>4. t[j - 1] = s[j]
          BY <5>3, <1>2
        <5> QED
          BY <5>1, <5>2, <5>3, <5>4, <4>2
      <4> QED
        BY <4>3, <4>4
    <3> QED
      BY <1>3, <1>1, <1>2, <3>1, <3>2
  <2>2. g.size[l] = Len(t)
    BY <1>1, <1>2, <1>b DEF Bypasses, Links, Chain
  <2>3. g.head[l] = IF Len(t) = 0 THEN Null ELSE t[1]
    <3>1. CASE i = 1
      <4>1. /\ g.head[l] = h.next[s[i]] /\ (Len(t) # 0 => t[1] = s[i + 1])
            /\ (Len(t) = 0 <=> i = Len(s))
        BY <1>1, <1>2, <1>3, <1>b, <3>1 DEF Bypasses, Links
      <4> QED
        BY <4>1, <1>3, <1>6
    <3>2. CASE i # 1
      <4>1. 1 \in 1..(Len(s) - 1) /\ 1 < i /\ Len(s) # 0 /\ Len(t) # 0
        BY <1>1, <1>2, <1>3, <3>2
      <4>2. t[1] = s[1]
        BY <4>1, <1>2
      <4>3. g.head[l] = h.head[l]
        BY <1>b, <3>2 DEF Bypasses
      <4> QED
        BY <4>1, <4>2, <4>3, <1>1 DEF Chain
    <3> QED
      BY <3>1, <3>2
  <2>4. g.tail[l] = IF Len(t) = 0 THEN Null ELSE t[Len(t)]
    <3>1. CASE i = Len(s)
      <4>1. /\ g.tail[l] = h.prev[s[i]] /\ (Len(t) # 0 => t[Len(t)] = s[i - 1])
            /\ (Len(t) = 0 <=> i = 1)
        BY <1>1, <1>2, <1>b, <3>1 DEF Bypasses, Links
      <4> QED
        BY <4>1, <1>3, <1>6
    <3>2. CASE i # Len(s)
      <4>1. Len(t) # 0 /\ t[Len(t)] = s[Len(s)] /\ Len(s) # 0
        BY <1>3, <1>1, <1>2, <3>2
      <4>2. g.tail[l] = h.tail[l]
        BY <1>b, <3>2 DEF Bypasses
      <4> QED
        BY <4>1, <4>2, <1>1 DEF Chain
    <3> QED
      BY <3>1, <3>2
  <2> QED
    BY <2>1, <2>2, <2>3, <2>4 DEF Chain
<1>8. \A j, k \in 1..Len(t) : t[j] = t[k] => j = k
  <2> SUFFICES ASSUME NEW j \in 1..Len(t), NEW k \in 1..Len(t), t[j] = t[k] PROVE j = k
    OBVIOUS
  <2>1. /\ (j < i /\ j \in 1..Len(s) /\ t[j] = s[j])
             \/ (j >= i /\ j + 1 \in 1..Len(s) /\ t[j] = s[j + 1])
        /\ (k < i /\ k \in 1..Len(s) /\ t[k] = s[k])
             \/ (k >= i /\ k + 1 \in 1..Len(s) /\ t[k] = s[k + 1])
    BY <1>1, <1>2
  <2> QED
    BY <2>1, <1>1
<1>9. \A x \in Node : Lies(t, x) <=> Lies(s, x) /\ x # s[i]
  <2> SUFFICES ASSUME NEW x \in Node PROVE Lies(t, x) <=> Lies(s, x) /\ x # s[i]
    OBVIOUS
  <2>1. ASSUME Lies(t, x) PROVE Lies(s, x) /\ x # s[i]
    <3>1. PICK j \in 1..Len(t) : t[j] = x
      BY <2>1 DEF Lies
    <3>2. CASE j < i
      <4>1. j \in 1..Len(s) /\ s[j] = x /\ j # i
        BY <3>1, <3>2, <1>1, <1>2
      <4> QED
        BY <4>1, <1>1, <1>3 DEF Lies
    <3>3. CASE j >= i
      <4>1. j + 1 \in 1..Len(s) /\ s[j + 1] = x /\ j + 1 # i
        BY <3>1, <3>3, <1>1, <1>2
      <4> QED
        BY <4>1, <1>1, <1>3 DEF Lies
    <3> QED
      BY <1>3, <3>2, <3>3, <1>1, <1>2
  <2>2. ASSUME Lies(s, x), x # s[i] PROVE Lies(t, x)
    <3>1. PICK j \in 1..Len(s) : s[j] = x
      BY <2>2 DEF Lies
    <3>2. CASE j < i
      <4>1. j \in 1..Len(t) /\ t[j] = x
        BY <1>3, <3>1, <3>2, <1>1, <1>2
      <4> QED
        BY <4>1 DEF Lies
    <3>3. CASE j > i
      <4>1. j - 1 \in 1..Len(t) /\ t[j - 1] = x
        BY <1>3, <3>1, <3>3, <1>1, <1>2
      <4> QED
        BY <4>1 DEF Lies
    <3> QED
      BY <1>3, <3>1, <3>2, <3>3, <2>2
  <2> QED
    BY <2>1, <2>2
<1>10. \A x \in Node : ~Lies(s, x) => g.next[x] = h.next[x] /\ g.prev[x] = h.prev[x]
  <2> SUFFICES ASSUME NEW x \in Node, ~Lies(s, x)
      PROVE  g.next[x] = h.next[x] /\ g.prev[x] = h.prev[x]
    OBVIOUS
  <2>1. x # s[i] /\ (i > 1 => x # s[i - 1]) /\ (i < Len(s) => x # s[i + 1])
    BY <1>3 DEF Lies
  <2>2. g.next[x] = h.next[x]
    BY <2>1, <1>1, <1>3, <1>b DEF Bypasses, Links
  <2>3. g.prev[x] = h.prev[x]
    BY <2>1, <1>1, <1>3, <1>b DEF Bypasses, Links
  <2> QED
    BY <2>2, <2>3
<1>11. Represents(g, [q EXCEPT ![l] = t])
  <2>1. \A m \in List : m # l => /\ g.head[m] = h.head[m] /\ g.tail[m] = h.tail[m]
                                 /\ g.size[m] = h.size[m]
    BY <1>1, <1>b DEF Bypasses, Links
  <2>2. \A x \in Node : Lies(t, x) => Lies(q[l], x) \/ Loose(q, x)
    BY <1>9 DEF s
  <2>3. \A x \in Node : ~Lies(q[l], x) /\ ~Lies(t, x)
                           => g.next[x] = h.next[x] /\ g.prev[x] = h.prev[x]
    BY <1>10 DEF s
  <2>4. \A x \in Node : Lies(q[l], x) /\ ~Lies(t, x)
                           => g.next[x] = Null /\ g.prev[x] = Null
    BY <1>5, <1>9 DEF s
  <2>5. t \in Seq(Node)
    BY <1>2
  <2> QED
    BY <1>7, <1>8, <2>1, <2>2, <2>3, <2>4, <2>5, Relinked
<1> QED
  BY <1>11 DEF s, t
(***************************************************************************)
(* dequeue takes out the first node, pop the last, and remove the node it  *)
(* is given: each leaves the list with its neighbours linked.              *)
(***************************************************************************)
LEMMA TwoPointers ==
  ASSUME NEW f \in [Node -> Pointer], NEW a, NEW b, NEW u \in Pointer, NEW v \in Pointer
  PROVE  [f EXCEPT ![a] = u, ![b] = v] \in [Node -> Pointer]
OBVIOUS

LEMMA PointersOf ==
  ASSUME NEW h, NEW q, Represents(h, q), NEW l \in List, NEW i \in 1..Len(q[l])
  PROVE  LET s == q[l]
         IN  /\ Len(s) \in Nat /\ 1 \in 1..Len(s) /\ Len(s) \in 1..Len(s)
             /\ s[i] \in Node /\ s[1] \in Node /\ s[Len(s)] \in Node
             /\ h.head[l] = s[1] /\ h.tail[l] = s[Len(s)]
             /\ s[i] = s[1] <=> i = 1
             /\ s[i] = s[Len(s)] <=> i = Len(s)
             /\ s[1] = s[Len(s)] <=> 1 = Len(s)
             /\ h.next[s[i]] = IF i = Len(s) THEN Null ELSE s[i + 1]
             /\ h.prev[s[i]] = IF i = 1 THEN Null ELSE s[i - 1]
             /\ i # Len(s) => s[i + 1] \in Node
             /\ i # 1 => s[i - 1] \in Node
<1> DEFINE s == q[l]
<1>1. /\ Chain(h, l, s) /\ Len(s) \in Nat
      /\ \A j \in 1..Len(s) : s[j] \in Node
      /\ \A j, k \in 1..Len(s) : s[j] = s[k] => j = k
  BY Places
<1>0. i \in 1..Len(s)
  OBVIOUS
<1> HIDE DEF s
<1>2. 1 \in 1..Len(s) /\ Len(s) \in 1..Len(s) /\ Len(s) # 0
  BY <1>0, <1>1
<1>3. (i # Len(s) => i + 1 \in 1..Len(s)) /\ (i # 1 => i - 1 \in 1..Len(s))
  BY <1>0, <1>1
<1>4. /\ s[i] = s[1] <=> i = 1
      /\ s[i] = s[Len(s)] <=> i = Len(s)
      /\ s[1] = s[Len(s)] <=> 1 = Len(s)
  BY <1>0, <1>1, <1>2
<1>5. /\ h.next[s[i]] = IF i = Len(s) THEN Null ELSE s[i + 1]
      /\ h.prev[s[i]] = IF i = 1 THEN Null ELSE s[i - 1]
      /\ h.head[l] = s[1] /\ h.tail[l] = s[Len(s)]
  BY <1>0, <1>1, <1>2 DEF Chain
<1> QED
  BY <1>0, <1>1, <1>2, <1>3, <1>4, <1>5 DEF s

(***************************************************************************)
(* The only node of a list taken out.                                      *)
(***************************************************************************)
LEMMA LastBypasses ==
  ASSUME NEW h, NEW q, Represents(h, q), NEW l \in List, Len(q[l]) = 1
  PROVE  Last(h, l) \in Links /\ Bypasses(Last(h, l), h, l, q[l], 1)
<1> DEFINE n == h.head[l]
           g == Last(h, l)
<1>1. h \in Links /\ n = q[l][1] /\ n \in Node /\ h.next[n] = Null /\ h.prev[n] = Null
  <2>1. 1 \in 1..Len(q[l])
    OBVIOUS
  <2>2. h \in Links
    BY Places
  <2>3. \A i \in 1..Len(q[l]) :
          /\ q[l][1] \in Node /\ h.head[l] = q[l][1]
          /\ h.next[q[l][i]] = IF i = Len(q[l]) THEN Null ELSE q[l][i + 1]
          /\ h.prev[q[l][i]] = IF i = 1 THEN Null ELSE q[l][i - 1]
    BY PointersOf
  <2> QED
    BY <2>1, <2>2, <2>3
<1>2. g = [h EXCEPT !.head[l] = Null, !.tail[l] = Null, !.size[l] = @ - 1,
                    !.next[n] = Null, !.prev[n] = Null]
  BY DEF Last
<1> HIDE DEF g, n
<1>3. g = [head |-> [h.head EXCEPT ![l] = Null], tail |-> [h.tail EXCEPT ![l] = Null],
           size |-> [h.size EXCEPT ![l] = @ - 1],
           next |-> [h.next EXCEPT ![n] = Null], prev |-> [h.prev EXCEPT ![n] = Null]]
  BY <1>1, <1>2 DEF Links
<1>4. /\ [h.head EXCEPT ![l] = Null] \in [List -> Pointer]
      /\ [h.tail EXCEPT ![l] = Null] \in [List -> Pointer]
      /\ [h.size EXCEPT ![l] = @ - 1] \in [List -> Int]
      /\ [h.next EXCEPT ![n] = Null] \in [Node -> Pointer]
      /\ [h.prev EXCEPT ![n] = Null] \in [Node -> Pointer]
  BY <1>1 DEF Links, Pointer
<1>5. g \in Links
  BY <1>3, <1>4 DEF Links
<1>6. Bypasses(g, h, l, q[l], 1)
  BY <1>1, <1>3 DEF Bypasses
<1> QED
  BY <1>5, <1>6 DEF g

LEMMA DequeueBypasses ==
  ASSUME NEW h, NEW q, Represents(h, q), NEW l \in List, 1 \in 1..Len(q[l])
  PROVE  dequeue(h, l) \in Links /\ Bypasses(dequeue(h, l), h, l, q[l], 1)
<1> DEFINE s == q[l]
           n == s[1]
           x == h.next[n]
           g == dequeue(h, l)
<1>0. h \in Links
  BY Places
<1>p. \A i \in 1..Len(s) :
        /\ Len(s) \in Nat /\ s[1] \in Node /\ h.head[l] = s[1] /\ h.tail[l] = s[Len(s)]
        /\ s[1] = s[Len(s)] <=> 1 = Len(s)
        /\ h.next[s[i]] = IF i = Len(s) THEN Null ELSE s[i + 1]
        /\ h.prev[s[i]] = IF i = 1 THEN Null ELSE s[i - 1]
        /\ i # Len(s) => s[i + 1] \in Node
  BY PointersOf
<1>1. /\ Len(s) \in Nat /\ n \in Node /\ h.head[l] = n /\ h.tail[l] = s[Len(s)]
      /\ n = s[Len(s)] <=> 1 = Len(s)
      /\ x = IF 1 = Len(s) THEN Null ELSE s[1 + 1]
      /\ h.prev[n] = Null
      /\ 1 # Len(s) => s[1 + 1] \in Node
  BY <1>p
<1>2. CASE 1 = Len(s)
  <2>1. g = Last(h, l)
    BY <1>1, <1>2 DEF dequeue
  <2> QED
    BY <1>2, <2>1, LastBypasses
<1>3. CASE 1 # Len(s)
  <2>1. g = [h EXCEPT !.head[l] = x, !.size[l] = @ - 1,
                      !.prev = [@ EXCEPT ![x] = Null, ![n] = Null],
                      !.next[n] = Null]
    BY <1>1, <1>3 DEF dequeue
  <2> HIDE DEF g, x, n, s
  <2>2. x \in Node
    BY <1>1, <1>3
  <2>3. g = [head |-> [h.head EXCEPT ![l] = x], tail |-> h.tail,
             size |-> [h.size EXCEPT ![l] = @ - 1],
             next |-> [h.next EXCEPT ![n] = Null],
             prev |-> [h.prev EXCEPT ![x] = Null, ![n] = Null]]
    BY <1>0, <2>1 DEF Links
  <2>4. /\ h.head \in [List -> Pointer] /\ h.tail \in [List -> Pointer]
        /\ h.size \in [List -> Int]
        /\ h.next \in [Node -> Pointer] /\ h.prev \in [Node -> Pointer]
        /\ x \in Pointer /\ Null \in Pointer
    BY <1>0, <2>2 DEF Links, Pointer
  <2>5. [h.prev EXCEPT ![x] = Null, ![n] = Null] \in [Node -> Pointer]
    BY <2>4, TwoPointers
  <2>6. /\ [h.head EXCEPT ![l] = x] \in [List -> Pointer]
        /\ [h.size EXCEPT ![l] = @ - 1] \in [List -> Int]
        /\ [h.next EXCEPT ![n] = Null] \in [Node -> Pointer]
    <3>1. [h.head EXCEPT ![l] = x] \in [List -> Pointer]
      BY <2>4
    <3>2. [h.size EXCEPT ![l] = @ - 1] \in [List -> Int]
      BY <2>4
    <3>3. [h.next EXCEPT ![n] = Null] \in [Node -> Pointer]
      BY <2>4
    <3> QED
      BY <3>1, <3>2, <3>3
  <2>7. g \in Links
    BY <2>3, <2>4, <2>5, <2>6 DEF Links
  <2>8. /\ g.size = [h.size EXCEPT ![l] = @ - 1] /\ g.head = [h.head EXCEPT ![l] = x]
        /\ g.tail = h.tail /\ g.next = [h.next EXCEPT ![n] = Null]
        /\ g.prev = [h.prev EXCEPT ![x] = Null, ![n] = Null]
    BY <2>3
  <2>9. x = s[1 + 1] /\ h.prev[n] = Null
    BY <1>1, <1>3
  <2>10. Bypasses(g, h, l, s, 1)
    BY <2>8, <2>9, <1>3 DEF Bypasses, n, x
  <2> QED
    BY <2>7, <2>10 DEF g, s
<1> QED
  BY <1>2, <1>3
LEMMA PopBypasses ==
  ASSUME NEW h, NEW q, Represents(h, q), NEW l \in List, Len(q[l]) \in 1..Len(q[l])
  PROVE  pop(h, l) \in Links /\ Bypasses(pop(h, l), h, l, q[l], Len(q[l]))
<1> DEFINE s == q[l]
           n == s[Len(s)]
           x == h.prev[n]
           g == pop(h, l)
<1>0. h \in Links
  BY Places
<1>p. \A i \in 1..Len(s) :
        /\ Len(s) \in Nat /\ s[Len(s)] \in Node /\ h.head[l] = s[1] /\ h.tail[l] = s[Len(s)]
        /\ s[1] = s[Len(s)] <=> 1 = Len(s)
        /\ h.next[s[i]] = IF i = Len(s) THEN Null ELSE s[i + 1]
        /\ h.prev[s[i]] = IF i = 1 THEN Null ELSE s[i - 1]
        /\ i # 1 => s[i - 1] \in Node
  BY PointersOf
<1>1. /\ Len(s) \in Nat /\ n \in Node /\ h.head[l] = s[1] /\ h.tail[l] = n
      /\ s[1] = n <=> 1 = Len(s)
      /\ x = IF Len(s) = 1 THEN Null ELSE s[Len(s) - 1]
      /\ h.next[n] = Null
      /\ Len(s) # 1 => s[Len(s) - 1] \in Node
  BY <1>p
<1>2. CASE Len(s) = 1
  <2>1. pop(h, l) = Last(h, l)
    BY <1>1, <1>2 DEF pop
  <2> QED
    BY <1>2, <2>1, LastBypasses
<1>3. CASE Len(s) # 1
  <2>1. g = [h EXCEPT !.tail[l] = x, !.size[l] = @ - 1,
                      !.next = [@ EXCEPT ![x] = Null, ![n] = Null],
                      !.prev[n] = Null]
    BY <1>1, <1>3 DEF pop
  <2> HIDE DEF g, x, n, s
  <2>2. x \in Node
    BY <1>1, <1>3
  <2>3. g = [head |-> h.head, tail |-> [h.tail EXCEPT ![l] = x],
             size |-> [h.size EXCEPT ![l] = @ - 1],
             next |-> [h.next EXCEPT ![x] = Null, ![n] = Null],
             prev |-> [h.prev EXCEPT ![n] = Null]]
    BY <1>0, <2>1 DEF Links
  <2>4. /\ h.head \in [List -> Pointer] /\ h.tail \in [List -> Pointer]
        /\ h.size \in [List -> Int]
        /\ h.next \in [Node -> Pointer] /\ h.prev \in [Node -> Pointer]
        /\ x \in Pointer /\ Null \in Pointer
    BY <1>0, <2>2 DEF Links, Pointer
  <2>5. [h.next EXCEPT ![x] = Null, ![n] = Null] \in [Node -> Pointer]
    BY <2>4, TwoPointers
  <2>6. /\ [h.tail EXCEPT ![l] = x] \in [List -> Pointer]
        /\ [h.size EXCEPT ![l] = @ - 1] \in [List -> Int]
        /\ [h.prev EXCEPT ![n] = Null] \in [Node -> Pointer]
    <3>1. [h.tail EXCEPT ![l] = x] \in [List -> Pointer]
      BY <2>4
    <3>2. [h.size EXCEPT ![l] = @ - 1] \in [List -> Int]
      BY <2>4
    <3>3. [h.prev EXCEPT ![n] = Null] \in [Node -> Pointer]
      BY <2>4
    <3> QED
      BY <3>1, <3>2, <3>3
  <2>7. g \in Links
    BY <2>3, <2>4, <2>5, <2>6 DEF Links
  <2>8. /\ g.size = [h.size EXCEPT ![l] = @ - 1] /\ g.tail = [h.tail EXCEPT ![l] = x]
        /\ g.head = h.head /\ g.prev = [h.prev EXCEPT ![n] = Null]
        /\ g.next = [h.next EXCEPT ![x] = Null, ![n] = Null]
    BY <2>3
  <2>9. x = s[Len(s) - 1] /\ h.next[n] = Null
    BY <1>1, <1>3
  <2>10. Bypasses(g, h, l, s, Len(s))
    BY <2>8, <2>9, <1>3 DEF Bypasses, n, x
  <2> QED
    BY <2>7, <2>10 DEF g, s
<1> QED
  BY <1>2, <1>3

LEMMA RemoveBypasses ==
  ASSUME NEW h, NEW q, Represents(h, q), NEW l \in List, NEW i \in 1..Len(q[l])
  PROVE  /\ remove(h, l, q[l][i]) \in Links
         /\ Bypasses(remove(h, l, q[l][i]), h, l, q[l], i)
<1> DEFINE s == q[l]
           n == s[i]
           u == h.prev[n]
           v == h.next[n]
           g == remove(h, l, n)
<1>0. h \in Links
  BY Places
<1>1. /\ Len(s) \in Nat /\ 1 \in 1..Len(s) /\ Len(s) \in 1..Len(s) /\ n \in Node
      /\ h.head[l] = s[1] /\ h.tail[l] = s[Len(s)]
      /\ n = s[1] <=> i = 1
      /\ n = s[Len(s)] <=> i = Len(s)
      /\ v = IF i = Len(s) THEN Null ELSE s[i + 1]
      /\ u = IF i = 1 THEN Null ELSE s[i - 1]
      /\ i # Len(s) => s[i + 1] \in Node
      /\ i # 1 => s[i - 1] \in Node
  BY PointersOf
<1>2. CASE i = 1
  <2>1. remove(h, l, n) = dequeue(h, l)
    BY <1>1, <1>2 DEF remove
  <2> QED
    BY <1>1, <1>2, <2>1, DequeueBypasses
<1>3. CASE i # 1 /\ i = Len(s)
  <2>1. remove(h, l, n) = pop(h, l)
    BY <1>1, <1>3 DEF remove
  <2> QED
    BY <1>1, <1>3, <2>1, PopBypasses
<1>4. CASE i # 1 /\ i # Len(s)
  <2>1. g = [h EXCEPT !.prev = [@ EXCEPT ![v] = u, ![n] = Null],
                      !.next = [@ EXCEPT ![u] = v, ![n] = Null],
                      !.size[l] = @ - 1]
    BY <1>1, <1>4 DEF remove
  <2> HIDE DEF g, u, v, n, s
  <2>2. u \in Node /\ v \in Node
    BY <1>1, <1>4
  <2>3. g = [head |-> h.head, tail |-> h.tail,
             size |-> [h.size EXCEPT ![l] = @ - 1],
             next |-> [h.next EXCEPT ![u] = v, ![n] = Null],
             prev |-> [h.prev EXCEPT ![v] = u, ![n] = Null]]
    BY <1>0, <2>1 DEF Links
  <2>4. /\ h.head \in [List -> Pointer] /\ h.tail \in [List -> Pointer]
        /\ h.size \in [List -> Int]
        /\ h.next \in [Node -> Pointer] /\ h.prev \in [Node -> Pointer]
        /\ u \in Pointer /\ v \in Pointer /\ Null \in Pointer
    BY <1>0, <2>2 DEF Links, Pointer
  <2>5. [h.next EXCEPT ![u] = v, ![n] = Null] \in [Node -> Pointer]
    BY <2>4, TwoPointers
  <2>6. [h.prev EXCEPT ![v] = u, ![n] = Null] \in [Node -> Pointer]
    BY <2>4, TwoPointers
  <2>7. [h.size EXCEPT ![l] = @ - 1] \in [List -> Int]
    BY <2>4
  <2>8. g \in Links
    BY <2>3, <2>4, <2>5, <2>6, <2>7 DEF Links
  <2>9. /\ g.size = [h.size EXCEPT ![l] = @ - 1] /\ g.tail = h.tail
        /\ g.head = h.head
        /\ g.next = [h.next EXCEPT ![u] = v, ![n] = Null]
        /\ g.prev = [h.prev EXCEPT ![v] = u, ![n] = Null]
    BY <2>3
  <2>10. u = s[i - 1] /\ v = s[i + 1]
    BY <1>1, <1>4
  <2>11. Bypasses(g, h, l, s, i)
    BY <2>9, <2>10, <1>4 DEF Bypasses, n, u, v
  <2> QED
    BY <2>8, <2>11 DEF g, n, s
<1> QED
  BY <1>2, <1>3, <1>4

LEMMA RemoveTakesOut ==
  ASSUME NEW h, NEW q, Represents(h, q), NEW l \in List, NEW i \in 1..Len(q[l])
  PROVE  Represents(remove(h, l, q[l][i]), [q EXCEPT ![l] = Queues!RemoveAt(@, i)])
BY RemoveBypasses, BypassedNode

LEMMA DequeueTakesFirst ==
  ASSUME NEW h, NEW q, Represents(h, q), NEW l \in List, Len(q[l]) # 0
  PROVE  Represents(dequeue(h, l), [q EXCEPT ![l] = Queues!RemoveAt(@, 1)])
<1>1. 1 \in 1..Len(q[l])
  BY Places
<1> QED
  BY <1>1, DequeueBypasses, BypassedNode
-----------------------------------------------------------------------------
(***************************************************************************)
(* A walk along next from the head sees the sequence of the list, and ends.*)
(***************************************************************************)
LEMMA ListsAreShort ==
  ASSUME NEW h, NEW q, Represents(h, q), NEW l \in List
  PROVE  Cardinality(Node) \in Nat /\ Len(q[l]) <= Cardinality(Node)
<1> DEFINE s == q[l]
<1>1. /\ Len(s) \in Nat /\ s \in Seq(Node)
      /\ \A j \in 1..Len(s) : s[j] \in Node
      /\ \A j, k \in 1..Len(s) : s[j] = s[k] => j = k
  BY Places
<1> HIDE DEF s
<1>2. IsFiniteSet(Node) /\ Cardinality(Node) \in Nat
  BY LinkedListAssumption, FS_CardinalityType
<1>3. s \in [1..Len(s) -> Node]
  BY <1>1
<1>4. s \in Injection(1..Len(s), Node)
  BY <1>1, <1>3 DEF Injection, IsInjective
<1>5. Cardinality(1..Len(s)) <= Cardinality(Node)
  BY <1>2, <1>4, FS_Injection
<1>6. Len(s) \in Int /\ 1 \in Int
  BY <1>1
<1>7. Cardinality(1..Len(s)) = IF 1 > Len(s) THEN 0 ELSE Len(s) - 1 + 1
  BY <1>6, FS_Interval
<1> QED
  BY <1>1, <1>2, <1>5, <1>7 DEF s

Walk(g, h, l) ==
  g = [i \in 1..(Cardinality(Node) + 1) |->
         IF i = 1 THEN h.head[l] ELSE IF g[i - 1] = Null THEN Null ELSE h.next[g[i - 1]]]

LEMMA WalkIs ==
  ASSUME NEW g, NEW h, NEW l, Walk(g, h, l), Cardinality(Node) \in Nat
  PROVE  /\ DOMAIN g = 1..(Cardinality(Node) + 1)
         /\ g[1] = h.head[l]
         /\ \A i \in 1..(Cardinality(Node) + 1) : i # 1 =>
              g[i] = IF g[i - 1] = Null THEN Null ELSE h.next[g[i - 1]]
<1> DEFINE N == Cardinality(Node)
           f == [i \in 1..(N + 1) |->
                   IF i = 1 THEN h.head[l] ELSE IF g[i - 1] = Null THEN Null ELSE h.next[g[i - 1]]]
<1>1. g = f
  BY DEF Walk
<1>2. N \in Nat /\ 1 \in 1..(N + 1)
  OBVIOUS
<1> HIDE DEF N
<1>3. /\ DOMAIN f = 1..(N + 1) /\ f[1] = h.head[l]
      /\ \A i \in 1..(N + 1) : i # 1 =>
              f[i] = IF g[i - 1] = Null THEN Null ELSE h.next[g[i - 1]]
  BY <1>2
<1> HIDE DEF f
<1> QED
  BY <1>1, <1>3 DEF N

LEMMA WalkFollows ==
  ASSUME NEW h, NEW q, Represents(h, q), NEW l \in List, NEW g, Walk(g, h, l)
  PROVE  \A i \in 1..(Cardinality(Node) + 1) :
           g[i] = IF i <= Len(q[l]) THEN q[l][i] ELSE Null
<1> DEFINE N == Cardinality(Node)
           s == q[l]
           S == {i \in Nat : i <= N => g[i + 1] = IF i + 1 <= Len(s) THEN s[i + 1] ELSE Null}
<1>1. /\ N \in Nat /\ Len(s) \in Nat /\ Len(s) <= N /\ Chain(h, l, s)
      /\ \A j \in 1..Len(s) : s[j] \in Node
  BY ListsAreShort, Places
<1>2. /\ g[1] = h.head[l]
      /\ \A i \in 1..(N + 1) : i # 1 =>
              g[i] = IF g[i - 1] = Null THEN Null ELSE h.next[g[i - 1]]
  BY <1>1, WalkIs
<1>3. Null \notin Node
  BY LinkedListAssumption
<1> HIDE DEF N, s
<1>4. 0 \in S
  BY <1>1, <1>2 DEF Chain
<1>5. ASSUME NEW i \in Nat, i \in S PROVE i + 1 \in S
  <2> SUFFICES ASSUME i + 1 <= N
      PROVE  g[i + 1 + 1] = IF i + 1 + 1 <= Len(s) THEN s[i + 1 + 1] ELSE Null
    OBVIOUS
  <2>1. g[i + 1] = IF i + 1 <= Len(s) THEN s[i + 1] ELSE Null
    BY <1>1, <1>5
  <2>2. i + 1 + 1 \in 1..(N + 1) /\ i + 1 + 1 # 1 /\ i + 1 + 1 - 1 = i + 1
    BY <1>1
  <2>3. g[i + 1 + 1] = IF g[i + 1] = Null THEN Null ELSE h.next[g[i + 1]]
    BY <1>2, <2>2
  <2>4. CASE i + 1 <= Len(s)
    <3>1. i + 1 \in 1..Len(s) /\ (i + 1 = Len(s) <=> ~(i + 1 + 1 <= Len(s)))
      BY <1>1, <2>4
    <3>2. h.next[s[i + 1]] = IF i + 1 = Len(s) THEN Null ELSE s[i + 1 + 1]
      BY <1>1, <3>1 DEF Chain
    <3> QED
      BY <1>1, <1>3, <2>1, <2>3, <2>4, <3>1, <3>2
  <2>5. CASE ~(i + 1 <= Len(s))
    BY <1>1, <2>1, <2>3, <2>5
  <2> QED
    BY <2>4, <2>5
<1>6. Nat \subseteq S
  <2> HIDE DEF S
  <2> QED
    BY <1>4, <1>5, Induced
<1>7. ASSUME NEW i \in 1..(N + 1) PROVE g[i] = IF i <= Len(s) THEN s[i] ELSE Null
  <2>1. i - 1 \in Nat /\ i - 1 <= N /\ i - 1 + 1 = i
    BY <1>1
  <2>2. i - 1 \in S
    BY <1>6, <2>1
  <2> QED
    BY <2>1, <2>2
<1> QED
  BY <1>7 DEF N, s

LEMMA WalkExists ==
  ASSUME NEW h, NEW q, Represents(h, q), NEW l \in List
  PROVE  \E g : Walk(g, h, l)
<1> DEFINE N == Cardinality(Node)
           s == q[l]
           g == [i \in 1..(N + 1) |-> IF i <= Len(s) THEN s[i] ELSE Null]
           f == [i \in 1..(N + 1) |->
                   IF i = 1 THEN h.head[l] ELSE IF g[i - 1] = Null THEN Null ELSE h.next[g[i - 1]]]
<1>1. /\ N \in Nat /\ Len(s) \in Nat /\ Len(s) <= N /\ Chain(h, l, s)
      /\ \A j \in 1..Len(s) : s[j] \in Node
  BY ListsAreShort, Places
<1>2. Null \notin Node
  BY LinkedListAssumption
<1> HIDE DEF N, s
<1>3. \A i \in 1..(N + 1) : g[i] = IF i <= Len(s) THEN s[i] ELSE Null
  OBVIOUS
<1> HIDE DEF g
<1>4. ASSUME NEW i \in 1..(N + 1)
      PROVE  g[i] = IF i = 1 THEN h.head[l] ELSE IF g[i - 1] = Null THEN Null ELSE h.next[g[i - 1]]
  <2>1. CASE i = 1
    BY <1>1, <1>3, <2>1 DEF Chain
  <2>2. CASE i # 1
    <3>1. i - 1 \in 1..(N + 1) /\ i - 1 + 1 = i
      BY <1>1, <2>2
    <3>2. g[i - 1] = IF i - 1 <= Len(s) THEN s[i - 1] ELSE Null
      BY <1>3, <3>1
    <3>3. CASE i - 1 <= Len(s)
      <4>1. i - 1 \in 1..Len(s) /\ (i - 1 = Len(s) <=> ~(i <= Len(s)))
        BY <1>1, <3>1, <3>3
      <4>2. h.next[s[i - 1]] = IF i - 1 = Len(s) THEN Null ELSE s[i - 1 + 1]
        BY <1>1, <4>1 DEF Chain
      <4>3. s[i - 1] # Null
        BY <1>1, <1>2, <4>1
      <4> QED
        BY <1>3, <2>2, <3>1, <3>2, <3>3, <4>1, <4>2, <4>3
    <3>4. CASE ~(i - 1 <= Len(s))
      <4>1. ~(i <= Len(s))
        BY <1>1, <3>1, <3>4
      <4> QED
        BY <1>3, <2>2, <3>2, <3>4, <4>1
    <3> QED
      BY <3>3, <3>4
  <2> QED
    BY <2>1, <2>2
<1>5. g = f
  BY <1>4 DEF g
<1>6. Walk(g, h, l)
  BY <1>5 DEF Walk, N
<1> QED
  BY <1>6

LEMMA ReachedIsList ==
  ASSUME NEW h, NEW q, Represents(h, q), NEW l \in List
  PROVE  Reached(h, l) = q[l]
<1> DEFINE N == Cardinality(Node)
           s == q[l]
           g == CHOOSE x : Walk(x, h, l)
<1>1. Walk(g, h, l)
  BY WalkExists
<1>2. Reached(h, l) = [i \in 1..Cardinality({j \in DOMAIN g : g[j] # Null}) |-> g[i]]
  BY DEF Reached, Walk
<1> HIDE DEF g
<1>3. /\ N \in Nat /\ Len(s) \in Nat /\ Len(s) <= N /\ s \in Seq(Node)
      /\ \A j \in 1..Len(s) : s[j] \in Node
  BY ListsAreShort, Places
<1>4. Null \notin Node
  BY LinkedListAssumption
<1>5. DOMAIN g = 1..(N + 1)
  BY <1>1, <1>3, WalkIs
<1>6. \A i \in 1..(N + 1) : g[i] = IF i <= Len(s) THEN s[i] ELSE Null
  BY <1>1, WalkFollows
<1> HIDE DEF N, s
<1>7. {j \in DOMAIN g : g[j] # Null} = 1..Len(s)
  <2>1. ASSUME NEW j \in DOMAIN g, g[j] # Null PROVE j \in 1..Len(s)
    BY <1>3, <1>5, <1>6, <2>1
  <2>2. ASSUME NEW j \in 1..Len(s) PROVE j \in DOMAIN g /\ g[j] # Null
    <3>1. j \in 1..(N + 1) /\ j <= Len(s) /\ s[j] \in Node
      BY <1>3
    <3> QED
      BY <1>4, <1>5, <1>6, <3>1
  <2> QED
    BY <2>1, <2>2
<1>8. Cardinality(1..Len(s)) = Len(s)
  <2>1. Len(s) \in Int /\ 1 \in Int
    BY <1>3
  <2>2. Cardinality(1..Len(s)) = IF 1 > Len(s) THEN 0 ELSE Len(s) - 1 + 1
    BY <2>1, FS_Interval
  <2> QED
    BY <1>3, <2>2
<1>9. \A i \in 1..Len(s) : g[i] = s[i]
  <2> SUFFICES ASSUME NEW i \in 1..Len(s) PROVE g[i] = s[i]
    OBVIOUS
  <2>1. i \in 1..(N + 1) /\ i <= Len(s)
    BY <1>3
  <2> QED
    BY <1>6, <2>1
<1>10. Reached(h, l) = [i \in 1..Len(s) |-> g[i]]
  BY <1>2, <1>7, <1>8
<1>11. s = [i \in 1..Len(s) |-> s[i]]
  BY <1>3
<1> QED
  BY <1>9, <1>10, <1>11 DEF s
-----------------------------------------------------------------------------
(***************************************************************************)
(* The inductive invariant: the pointers represent what a walk along them  *)
(* sees.                                                                   *)
(***************************************************************************)
Seqs(h) == [l \in List |-> Reached(h, l)]

ListsIInv == code \in [Node -> Int] /\ Represents(links, Seqs(links))

LEMMA SeqsAre ==
  ASSUME NEW h, NEW q, Represents(h, q)
  PROVE  Seqs(h) = q
<1>1. q \in [List -> Seq(Node)]
  BY DEF Represents
<1>2. \A l \in List : Reached(h, l) = q[l]
  BY ReachedIsList
<1> QED
  BY <1>1, <1>2 DEF Seqs

LEMMA MembersLie ==
  ASSUME NEW h, NEW q, Represents(h, q), NEW l \in List, NEW n
  PROVE  has_member(h, l, n) <=> Lies(q[l], n)
<1>1. Reached(h, l) = q[l] /\ q[l] \in Seq(Node)
  BY ReachedIsList, Places
<1> DEFINE s == q[l]
<1>2. Reached(h, l) = s /\ s \in Seq(Node)
  BY <1>1
<1> HIDE DEF s
<1>3. DOMAIN s = 1..Len(s)
  BY <1>2
<1> QED
  BY <1>2, <1>3 DEF has_member, Range, Lies, s

LEMMA InitRepresents ==
  ListsInit => ListsIInv /\ Seqs(links) = [l \in List |-> << >>]
<1> SUFFICES ASSUME ListsInit PROVE ListsIInv /\ Seqs(links) = [l \in List |-> << >>]
  OBVIOUS
<1> DEFINE q == [l \in List |-> << >>]
<1>1. /\ q \in [List -> Seq(Node)]
      /\ \A l \in List : q[l] = << >> /\ Len(q[l]) = 0
  OBVIOUS
<1> HIDE DEF q
<1>2. links \in Links /\ code \in [Node -> Int]
  BY DEF ListsInit, Links, Pointer
<1>3. ASSUME NEW l \in List PROVE Chain(links, l, q[l])
  <2>1. links.size[l] = 0 /\ links.head[l] = Null /\ links.tail[l] = Null
    BY DEF ListsInit
  <2> QED
    BY <1>1, <2>1 DEF Chain
<1>4. Apart(q)
  BY <1>1 DEF Apart
<1>5. \A x \in Node : links.next[x] = Null /\ links.prev[x] = Null
  BY DEF ListsInit
<1>6. Represents(links, q)
  BY <1>1, <1>2, <1>3, <1>4, <1>5 DEF Represents
<1>7. Seqs(links) = q
  BY <1>6, SeqsAre
<1> QED
  BY <1>2, <1>6, <1>7 DEF ListsIInv, q

(***************************************************************************)
(* Pointers that represent sequences fit together.                         *)
(***************************************************************************)
LEMMA RepresentedIsWellLinked == ListsIInv => WellLinked
<1> SUFFICES ASSUME ListsIInv PROVE WellLinked
  OBVIOUS
<1> DEFINE q == Seqs(links)
<1>1. Represents(links, q)
  BY DEF ListsIInv
<1> HIDE DEF q
<1>2. ASSUME NEW l \in List PROVE Linked(l, Reached(links, l))
  <2> DEFINE s == Reached(links, l)
  <2>1. s = q[l]
    BY <1>1, ReachedIsList
  <2>2. /\ Chain(links, l, q[l]) /\ q[l] \in Seq(Node) /\ Len(q[l]) \in Nat
        /\ \A j, k \in 1..Len(q[l]) : q[l][j] = q[l][k] => j = k
    BY <1>1, Places
  <2> HIDE DEF s
  <2>3. /\ Chain(links, l, s) /\ s \in Seq(Node) /\ Len(s) \in Nat
        /\ \A j, k \in 1..Len(s) : s[j] = s[k] => j = k
    BY <2>1, <2>2
  <2>4. DOMAIN s = 1..Len(s) /\ (s = << >> <=> Len(s) = 0) /\ (s # << >> => Head(s) = s[1])
    BY <2>3, EmptySeq
  <2>5. IsInjective(s)
    BY <2>3, <2>4 DEF IsInjective
  <2>6. /\ links.size[l] = Len(s)
        /\ links.head[l] = IF s = << >> THEN Null ELSE Head(s)
        /\ links.tail[l] = IF s = << >> THEN Null ELSE s[Len(s)]
    BY <2>3, <2>4 DEF Chain
  <2>7. \A i \in DOMAIN s : links.prev[s[i]] = IF i = 1 THEN Null ELSE s[i - 1]
    BY <2>3, <2>4 DEF Chain
  <2>8. Linked(l, s)
    BY <2>5, <2>6, <2>7 DEF Linked
  <2> QED
    BY <2>8 DEF s
<1>3. ASSUME NEW n \in Node
      PROVE  /\ Cardinality({l \in List : has_member(links, l, n)}) <= 1
             /\ Detached(n) => links.next[n] = Null /\ links.prev[n] = Null
  <2>1. \A l \in List : has_member(links, l, n) <=> Lies(q[l], n)
    BY <1>1, MembersLie
  <2>2. Detached(n) => links.next[n] = Null /\ links.prev[n] = Null
    BY <1>1, <2>1 DEF Detached, Represents, Loose
  <2> DEFINE T == {l \in List : has_member(links, l, n)}
  <2>3. \A l, m \in T : l = m
    BY <1>1, <2>1 DEF Represents, Apart, Lies
  <2>4. T = {} \/ \E l : T = {l}
    BY <2>3
  <2> HIDE DEF T
  <2>5. Cardinality(T) <= 1
    <3>1. CASE T = {}
      BY <3>1, FS_EmptySet
    <3>2. ASSUME NEW l, T = {l} PROVE Cardinality(T) <= 1
      <4>1. Cardinality({l}) = 1
        BY FS_Singleton
      <4> QED
        BY <3>2, <4>1
    <3> QED
      BY <2>4, <3>1, <3>2
  <2> QED
    BY <2>2, <2>5 DEF T
<1> QED
  BY <1>2, <1>3 DEF WellLinked
-----------------------------------------------------------------------------
(***************************************************************************)
(* Each operation of the scheduler, of links and of the queues.            *)
(***************************************************************************)
LEMMA Represented ==
  ASSUME ListsIInv
  PROVE  /\ Represents(links, Seqs(links)) /\ code \in [Node -> Int]
         /\ Seqs(links) \in [List -> Seq(Node)]
         /\ [l \in List |-> Reached(links, l)] = Seqs(links)
BY DEF ListsIInv, Seqs, Represents

LEMMA DetachedIsLoose ==
  ASSUME ListsIInv, NEW n \in Node, Detached(n)
  PROVE  Loose(Seqs(links), n) /\ n \notin Queues!Queued
<1> DEFINE q == Seqs(links)
<1>1. Represents(links, q) /\ q \in [List -> Seq(Node)] /\ [l \in List |-> Reached(links, l)] = q
  BY Represented
<1> HIDE DEF q
<1>2. \A l \in List : has_member(links, l, n) <=> Lies(q[l], n)
  BY <1>1, MembersLie
<1>3. Loose(q, n)
  BY <1>2 DEF Detached, Loose
<1>4. n \notin UNION {Range([m \in List |-> Reached(links, m)][l]) : l \in List}
  <2>1. \A l \in List : n \notin Range(Reached(links, l))
    BY DEF Detached, has_member
  <2> QED
    BY <2>1
<1>5. n \notin Queues!Queued
  BY <1>4 DEF Queues!Queued, Queues!Range, Range
<1> QED
  BY <1>3, <1>5 DEF q

LEMMA NextSeqs ==
  ASSUME NEW q, Represents(links', q), code' \in [Node -> Int]
  PROVE  ListsIInv' /\ [l \in List |-> Reached(links', l)] = q
<1>1. Seqs(links') = q
  BY SeqsAre
<1>2. Represents(links', Seqs(links'))
  BY <1>1
<1> QED
  BY <1>1, <1>2 DEF ListsIInv, Seqs

LEMMA JoinStep ==
  ASSUME ListsIInv, NEW n \in Node, Detached(n), NEW l \in List, NEW c \in Int,
         links' = enqueue(links, l, n), code' = [code EXCEPT ![n] = c]
  PROVE  ListsIInv' /\ Queues!Join(l, n, c)
<1> DEFINE q == Seqs(links)
           r == [q EXCEPT ![l] = Append(@, n)]
<1>1. /\ Represents(links, q) /\ code \in [Node -> Int]
      /\ [m \in List |-> Reached(links, m)] = q
  BY Represented
<1>2. Loose(q, n) /\ n \notin Queues!Queued
  BY DetachedIsLoose
<1> HIDE DEF q
<1>3. Represents(links', r)
  BY <1>1, <1>2, EnqueueAppends
<1>4. code' \in [Node -> Int]
  BY <1>1
<1> HIDE DEF r
<1>5. ListsIInv' /\ [m \in List |-> Reached(links', m)] = r
  BY <1>3, <1>4, NextSeqs
<1>6. [m \in List |-> Reached(links, m)]' = [[m \in List |-> Reached(links, m)] EXCEPT ![l] = Append(@, n)]
  BY <1>1, <1>5 DEF r
<1> QED
  BY <1>2, <1>5, <1>6 DEF Queues!Join

LEMMA JoinFirstStep ==
  ASSUME ListsIInv, NEW n \in Node, Detached(n), NEW l \in List,
         links' = push(links, l, n), code' = code
  PROVE  ListsIInv' /\ Queues!JoinFirst(l, n)
<1> DEFINE q == Seqs(links)
           r == [q EXCEPT ![l] = <<n>> \o @]
<1>1. /\ Represents(links, q) /\ code \in [Node -> Int]
      /\ [m \in List |-> Reached(links, m)] = q
  BY Represented
<1>2. Loose(q, n) /\ n \notin Queues!Queued
  BY DetachedIsLoose
<1> HIDE DEF q
<1>3. Represents(links', r)
  BY <1>1, <1>2, PushPutsFirst
<1>4. code' \in [Node -> Int]
  BY <1>1
<1> HIDE DEF r
<1>5. ListsIInv' /\ [m \in List |-> Reached(links', m)] = r
  BY <1>3, <1>4, NextSeqs
<1>6. [m \in List |-> Reached(links, m)]' = [[m \in List |-> Reached(links, m)] EXCEPT ![l] = <<n>> \o @]
  BY <1>1, <1>5 DEF r
<1> QED
  BY <1>2, <1>5, <1>6 DEF Queues!JoinFirst

LEMMA LeaveStep ==
  ASSUME ListsIInv, NEW l \in List, NEW i \in 1..Len(Seqs(links)[l]), NEW c \in Int,
         Represents(links', [Seqs(links) EXCEPT ![l] = Queues!RemoveAt(@, i)]),
         code' = [code EXCEPT ![Seqs(links)[l][i]] = c]
  PROVE  ListsIInv' /\ Queues!Leave(l, i, c)
<1> DEFINE q == Seqs(links)
           r == [q EXCEPT ![l] = Queues!RemoveAt(@, i)]
<1>1. /\ Represents(links, q) /\ code \in [Node -> Int]
      /\ [m \in List |-> Reached(links, m)] = q
  BY Represented
<1>2. Represents(links', r) /\ code' = [code EXCEPT ![q[l][i]] = c]
  OBVIOUS
<1> HIDE DEF q, r
<1>3. code' \in [Node -> Int]
  BY <1>1, <1>2
<1>4. ListsIInv' /\ [m \in List |-> Reached(links', m)] = r
  BY <1>2, <1>3, NextSeqs
<1>5. [m \in List |-> Reached(links, m)]'
        = [[m \in List |-> Reached(links, m)] EXCEPT ![l] = Queues!RemoveAt(@, i)]
  BY <1>1, <1>4 DEF r
<1> QED
  BY <1>1, <1>2, <1>4, <1>5 DEF Queues!Leave
LEMMA UnblockMoves ==
  ASSUME NEW h, NEW q, Represents(h, q), NEW l \in List, l # "ready",
         NEW i \in 1..Len(q[l])
  PROVE  Represents(unblock(h, l, q[l][i]),
                    [q EXCEPT ![l] = Queues!RemoveAt(@, i), !["ready"] = Append(@, q[l][i])])
<1> DEFINE s == q[l]
           n == s[i]
           t == Queues!RemoveAt(s, i)
           q1 == [q EXCEPT ![l] = Queues!RemoveAt(@, i)]
           g == remove(h, l, n)
<1>1. Represents(g, q1)
  BY RemoveTakesOut
<1>2. /\ q \in [List -> Seq(Node)] /\ s \in Seq(Node) /\ Len(s) \in Nat
      /\ \A j \in 1..Len(s) : s[j] \in Node
      /\ \A j, k \in 1..Len(s) : s[j] = s[k] => j = k
  BY Places
<1>3. /\ Len(t) = Len(s) - 1
      /\ \A j \in 1..(Len(s) - 1) : t[j] = IF j < i THEN s[j] ELSE s[j + 1]
  BY <1>2, WithoutPlace
<1>4. q1[l] = t /\ \A m \in List : m # l => q1[m] = q[m]
  BY <1>2
<1>5. n \in Node /\ i \in 1..Len(s) /\ Lies(q[l], n)
  BY <1>2 DEF Lies
<1> HIDE DEF t
<1>6. ~Lies(t, n)
  <2> SUFFICES ASSUME NEW j \in 1..Len(t), t[j] = n PROVE FALSE
    BY DEF Lies
  <2>1. \/ j \in 1..Len(s) /\ j # i /\ t[j] = s[j]
        \/ j + 1 \in 1..Len(s) /\ j + 1 # i /\ t[j] = s[j + 1]
    <3>1. j < i \/ ~(j < i)
      OBVIOUS
    <3> HIDE DEF n, s
    <3> QED
      BY <1>2, <1>3, <1>5, <3>1
  <2> QED
    BY <1>2, <1>5, <2>1
<1>7. \A m \in List : m # l => ~Lies(q[m], n)
  <2> SUFFICES ASSUME NEW m \in List, m # l, Lies(q[m], n) PROVE FALSE
    OBVIOUS
  <2>1. PICK j \in 1..Len(q[m]) : q[m][j] = q[l][i]
    BY DEF Lies
  <2> QED
    BY <2>1 DEF Represents, Apart
<1>8. Loose(q1, n)
  BY <1>4, <1>6, <1>7 DEF Loose
<1>9. "ready" \in List
  BY DEF List
<1>10. [q1 EXCEPT !["ready"] = Append(@, n)]
         = [q EXCEPT ![l] = Queues!RemoveAt(@, i), !["ready"] = Append(@, q[l][i])]
  BY <1>2, <1>9
<1> HIDE DEF g, q1
<1>11. Represents(enqueue(g, "ready", n), [q1 EXCEPT !["ready"] = Append(@, n)])
  BY <1>1, <1>5, <1>8, <1>9, EnqueueAppends
<1> QED
  BY <1>10, <1>11 DEF unblock, g

LEMMA MoveStep ==
  ASSUME ListsIInv, NEW n \in Node, Unblock(n)
  PROVE  ListsIInv' /\ \E i \in DOMAIN Seqs(links)["blocked"] : Queues!Move("blocked", i)
<1> DEFINE q == Seqs(links)
<1>1. /\ Represents(links, q) /\ code \in [Node -> Int]
      /\ [m \in List |-> Reached(links, m)] = q
      /\ q \in [List -> Seq(Node)]
  BY Represented
<1>2. "blocked" \in List /\ "blocked" # "ready"
  BY DEF List
<1>3. has_member(links, "blocked", n) /\ links' = unblock(links, "blocked", n) /\ code' = code
  BY DEF Unblock
<1> HIDE DEF q
<1>4. PICK i \in 1..Len(q["blocked"]) : q["blocked"][i] = n
  BY <1>1, <1>2, <1>3, MembersLie DEF Lies
<1> DEFINE r == [q EXCEPT !["blocked"] = Queues!RemoveAt(@, i), !["ready"] = Append(@, q["blocked"][i])]
<1>5. Represents(links', r)
  <2>1. Represents(unblock(links, "blocked", q["blocked"][i]), r)
    BY <1>1, <1>2, UnblockMoves
  <2> QED
    BY <1>3, <1>4, <2>1
<1>6. i \in DOMAIN q["blocked"]
  BY <1>1, <1>2, <1>4
<1>7. code' \in [Node -> Int]
  BY <1>1, <1>3
<1> HIDE DEF r
<1>8. ListsIInv' /\ [m \in List |-> Reached(links', m)] = r
  BY <1>5, <1>7, NextSeqs
<1>9. [m \in List |-> Reached(links, m)]'
        = [[m \in List |-> Reached(links, m)] EXCEPT
             !["blocked"] = Queues!RemoveAt(@, i),
             !["ready"] = Append(@, [m \in List |-> Reached(links, m)]["blocked"][i])]
  BY <1>1, <1>8 DEF r
<1>10. Queues!Move("blocked", i)
  BY <1>3, <1>9 DEF Queues!Move
<1> QED
  BY <1>6, <1>8, <1>10 DEF q

LEMMA BlockStep ==
  ASSUME ListsIInv, NEW n \in Node, NEW l \in List, Block(l, n)
  PROVE  ListsIInv' /\ Queues!Join(l, n, code[n])
<1>1. code \in [Node -> Int]
  BY Represented
<1>2. code[n] \in Int /\ [code EXCEPT ![n] = code[n]] = code
  BY <1>1
<1> QED
  BY <1>2, JoinStep DEF Block

LEMMA HBlockStep ==
  ASSUME ListsIInv, NEW n \in Node, HBlock(n)
  PROVE  ListsIInv' /\ Queues!JoinFirst("blocked", n)
BY JoinFirstStep DEF HBlock, List

LEMMA RunNextReadyStep ==
  ASSUME ListsIInv, RunNextReady
  PROVE  /\ ListsIInv' /\ 1 \in DOMAIN Seqs(links)["ready"]
         /\ Queues!Leave("ready", 1, code[Seqs(links)["ready"][1]])
<1> DEFINE q == Seqs(links)
           n == q["ready"][1]
           c == code[n]
<1>1. /\ Represents(links, q) /\ code \in [Node -> Int] /\ q \in [List -> Seq(Node)]
  BY Represented
<1>2. "ready" \in List
  BY DEF List
<1>3. Chain(links, "ready", q["ready"]) /\ Len(q["ready"]) \in Nat
  BY <1>1, <1>2, Places
<1>4. Len(q["ready"]) # 0 /\ links' = dequeue(links, "ready") /\ code' = code
  BY <1>3 DEF RunNextReady, Chain
<1>5. 1 \in 1..Len(q["ready"]) /\ n \in Node
  BY <1>1, <1>2, <1>3, <1>4, ElementOfSeq
<1>6. Represents(links', [q EXCEPT !["ready"] = Queues!RemoveAt(@, 1)])
  BY <1>1, <1>2, <1>4, DequeueTakesFirst
<1>7. c \in Int /\ code' = [code EXCEPT ![n] = c]
  BY <1>1, <1>4, <1>5
<1> HIDE DEF c
<1>8. ListsIInv' /\ Queues!Leave("ready", 1, c)
  BY <1>2, <1>5, <1>6, <1>7, LeaveStep
<1>9. 1 \in DOMAIN q["ready"]
  BY <1>1, <1>2, <1>5
<1> QED
  BY <1>8, <1>9 DEF c

LEMMA BlockDelayStep ==
  ASSUME ListsIInv, NEW n \in Node, NEW c \in Codes, BlockDelay(n, c)
  PROVE  ListsIInv' /\ Queues!Join("delayed", n, c)
<1>1. c \in Int
  BY LinkedListAssumption
<1> QED
  BY <1>1, JoinStep DEF BlockDelay, List

LEMMA NewObjectStep ==
  ASSUME ListsIInv, NEW n \in Node, NEW c \in Codes, NewObject(n, c)
  PROVE  ListsIInv' /\ Queues!Join("objects", n, c)
<1>1. c \in Int
  BY LinkedListAssumption
<1> QED
  BY <1>1, JoinStep DEF NewObject, List

LEMMA ReclaimStep ==
  ASSUME ListsIInv, NEW id \in Codes, Reclaim(id)
  PROVE  ListsIInv' /\ \E i \in DOMAIN Seqs(links)["objects"] : Queues!Leave("objects", i, -1)
<1> DEFINE q == Seqs(links)
           s == Reached(links, "objects")
           hits == {i \in DOMAIN s : code[s[i]] = id}
           k == CHOOSE i \in hits : \A j \in hits : i <= j
           c == -1
<1>1. /\ Represents(links, q) /\ code \in [Node -> Int] /\ q \in [List -> Seq(Node)]
  BY Represented
<1>2. "objects" \in List
  BY DEF List
<1>3. s = q["objects"] /\ DOMAIN s = 1..Len(s) /\ DOMAIN s = DOMAIN q["objects"]
  BY <1>1, <1>2, ReachedIsList
<1>4. find(links, "objects", id) = IF hits = {} THEN Null ELSE s[k]
  BY DEF find
<1>5. hits # {}
  BY <1>4 DEF Reclaim
<1>6. k \in hits
  <2>1. hits \in SUBSET Nat
    BY <1>3
  <2> HIDE DEF hits
  <2>2. \E i \in hits : \A j \in hits : i <= j
    BY <1>5, <2>1, LeastOf
  <2> QED
    BY <2>2
<1> HIDE DEF k
<1>7. k \in 1..Len(s) /\ k \in DOMAIN s
  BY <1>3, <1>6
<1>8. /\ links' = remove(links, "objects", s[k])
      /\ code' = [code EXCEPT ![s[k]] = c]
  BY <1>4, <1>5 DEF Reclaim
<1> HIDE DEF hits, s
<1>9. Represents(links', [q EXCEPT !["objects"] = Queues!RemoveAt(@, k)])
  BY <1>1, <1>2, <1>3, <1>7, <1>8, RemoveTakesOut
<1>10. c \in Int
  OBVIOUS
<1> HIDE DEF c
<1>11. ListsIInv' /\ Queues!Leave("objects", k, c)
  BY <1>2, <1>3, <1>7, <1>8, <1>9, <1>10, LeaveStep
<1> QED
  BY <1>3, <1>7, <1>11 DEF c
-----------------------------------------------------------------------------
(***************************************************************************)
(* unblock_all: the loop moves head after head, until the list is empty.   *)
(***************************************************************************)
EmptyingRound(x) ==
  IF x.size["blocked"] = 0 THEN x
  ELSE enqueue(dequeue(x, "blocked"), "ready", x.head["blocked"])

EmptyingRun(g, h, n) ==
  g = [k \in 0..n |-> IF k = 0 THEN h ELSE EmptyingRound(g[k - 1])]

LEMMA EmptyingRunIs ==
  ASSUME NEW h, NEW n \in Nat, NEW g, EmptyingRun(g, h, n)
  PROVE  g[0] = h /\ \A k \in 1..n : g[k] = EmptyingRound(g[k - 1])
<1> DEFINE Round(k) == IF k = 0 THEN h ELSE EmptyingRound(g[k - 1])
<1>1. SUFFICES \A k \in 0..n : g[k] = Round(k)
  <2>1. \A k \in 1..n : k \in 0..n /\ k # 0
    OBVIOUS
  <2> QED
    BY <2>1
<1>2. g = [k \in 0..n |-> Round(k)]
  BY DEF EmptyingRun
<1> HIDE DEF Round
<1> QED
  BY <1>2

LEMMA EmptyingRuns ==
  ASSUME NEW h, NEW n \in Nat
  PROVE  \E g : EmptyingRun(g, h, n)
<1> DEFINE S == {i \in Nat : \E g : EmptyingRun(g, h, i)}
<1>1. 0 \in S
  <2>1. EmptyingRun([k \in 0..0 |-> h], h, 0)
    BY DEF EmptyingRun
  <2> QED
    BY <2>1
<1>2. ASSUME NEW i \in Nat, i \in S PROVE i + 1 \in S
  <2>1. PICK g : EmptyingRun(g, h, i)
    BY <1>2
  <2>2. g[0] = h /\ \A k \in 1..i : g[k] = EmptyingRound(g[k - 1])
    <3>1. g[0] = h
      BY <2>1, EmptyingRunIs
    <3>2. ASSUME NEW k \in 1..i PROVE g[k] = EmptyingRound(g[k - 1])
      BY <2>1, EmptyingRunIs
    <3> QED
      BY <3>1, <3>2
  <2> DEFINE f == [k \in 0..(i + 1) |-> IF k = 0 THEN h ELSE EmptyingRound(g[k - 1])]
  <2>3. ASSUME NEW k \in 1..(i + 1) PROVE f[k - 1] = g[k - 1]
    <3>1. k - 1 \in 0..(i + 1) /\ (k - 1 = 0 \/ k - 1 \in 1..i)
      OBVIOUS
    <3>2. CASE k - 1 = 0
      BY <2>2, <3>1, <3>2
    <3>3. CASE k - 1 \in 1..i
      BY <2>2, <3>1, <3>3
    <3> QED
      BY <3>1, <3>2, <3>3
  <2> DEFINE f2 == [k \in 0..(i + 1) |-> IF k = 0 THEN h ELSE EmptyingRound(f[k - 1])]
  <2>4. \A k \in 0..(i + 1) : f[k] = f2[k]
    <3> SUFFICES ASSUME NEW k \in 0..(i + 1) PROVE f[k] = f2[k]
      OBVIOUS
    <3>1. CASE k = 0
      BY <3>1
    <3>2. CASE k # 0
      <4>1. k \in 1..(i + 1)
        BY <3>2
      <4>2. f[k] = EmptyingRound(g[k - 1])
        BY <3>2
      <4>3. f2[k] = EmptyingRound(f[k - 1])
        BY <3>2
      <4> HIDE DEF f, f2
      <4> QED
        BY <2>3, <4>1, <4>2, <4>3
    <3> QED
      BY <3>1, <3>2
  <2>5. f = f2
    BY <2>4
  <2>6. EmptyingRun(f, h, i + 1)
    BY <2>5 DEF EmptyingRun
  <2>7. i + 1 \in Nat
    OBVIOUS
  <2> HIDE DEF f
  <2> QED
    BY <2>6, <2>7
<1>3. n \in S
  <2> HIDE DEF S
  <2> QED
    BY <1>1, <1>2, Induced
<1> QED
  BY <1>3

(***************************************************************************)
(* What is left of b after k rounds, and r followed by what was moved.     *)
(***************************************************************************)
Rest(b, k) == SubSeq(b, k + 1, Len(b))
Followed(r, b, k) == r \o SubSeq(b, 1, k)
Emptied(q, k) ==
  [q EXCEPT !["blocked"] = Rest(q["blocked"], k),
            !["ready"] = Followed(q["ready"], q["blocked"], k)]

LEMMA RestIs ==
  ASSUME NEW b \in Seq(Node), NEW k \in 0..Len(b)
  PROVE  /\ Rest(b, k) \in Seq(Node) /\ Len(Rest(b, k)) = Len(b) - k
         /\ \A j \in 1..(Len(b) - k) : Rest(b, k)[j] = b[j + k]
<1>1. Len(b) \in Nat /\ \A j \in 1..Len(b) : b[j] \in Node
  BY LenProperties, ElementOfSeq
<1>2. k + 1 \in Int /\ Len(b) \in Int /\ \A j \in (k + 1)..Len(b) : b[j] \in Node
  BY <1>1
<1>3. /\ Rest(b, k) \in Seq(Node)
      /\ Len(Rest(b, k)) = IF k + 1 <= Len(b) THEN Len(b) - (k + 1) + 1 ELSE 0
      /\ \A j \in 1..(Len(b) - (k + 1) + 1) : Rest(b, k)[j] = b[(k + 1) + j - 1]
  BY <1>2, SubSeqProperties DEF Rest
<1>4. Len(b) - (k + 1) + 1 = Len(b) - k
  BY <1>1
<1> DEFINE c == Rest(b, k)
<1> HIDE DEF c
<1>5. ASSUME NEW j \in 1..(Len(b) - k) PROVE c[j] = b[j + k]
  <2>1. (k + 1) + j - 1 = j + k
    BY <1>1
  <2>2. j \in 1..(Len(b) - (k + 1) + 1)
    BY <1>4
  <2>3. c[j] = b[(k + 1) + j - 1]
    BY <1>3, <2>2 DEF c
  <2> QED
    BY <2>1, <2>3
<1>6. c \in Seq(Node) /\ Len(c) = Len(b) - k
  <2>1. c \in Seq(Node) /\ Len(c) = IF k + 1 <= Len(b) THEN Len(b) - (k + 1) + 1 ELSE 0
    BY <1>3 DEF c
  <2> QED
    BY <1>1, <2>1
<1> QED
  BY <1>5, <1>6 DEF c

LEMMA FollowedIs ==
  ASSUME NEW r \in Seq(Node), NEW b \in Seq(Node), NEW k \in 0..Len(b)
  PROVE  LET f == Followed(r, b, k)
         IN  /\ f \in Seq(Node) /\ Len(f) = Len(r) + k
             /\ \A j \in 1..(Len(r) + k) : f[j] = IF j <= Len(r) THEN r[j] ELSE b[j - Len(r)]
<1> DEFINE c == SubSeq(b, 1, k)
<1>1. /\ Len(b) \in Nat /\ \A j \in 1..Len(b) : b[j] \in Node
      /\ Len(r) \in Nat
  BY LenProperties, ElementOfSeq
<1>2. 1 \in Int /\ k \in Int /\ \A j \in 1..k : b[j] \in Node
  BY <1>1
<1>3. /\ c \in Seq(Node)
      /\ Len(c) = IF 1 <= k THEN k - 1 + 1 ELSE 0
      /\ \A j \in 1..(k - 1 + 1) : c[j] = b[1 + j - 1]
  BY <1>2, SubSeqProperties
<1>4. Len(c) = k /\ \A j \in 1..k : c[j] = b[j]
  BY <1>1, <1>3
<1> HIDE DEF c
<1>5. /\ r \o c \in Seq(Node) /\ Len(r \o c) = Len(r) + Len(c)
      /\ \A j \in 1..(Len(r) + Len(c)) : (r \o c)[j] = IF j <= Len(r) THEN r[j] ELSE c[j - Len(r)]
  BY <1>3, ConcatProperties
<1>6. \A j \in 1..(Len(r) + k) : ~(j <= Len(r)) => j - Len(r) \in 1..k
  BY <1>1
<1> QED
  BY <1>4, <1>5, <1>6 DEF Followed, c

LEMMA FirstOfRest ==
  ASSUME NEW b \in Seq(Node), NEW k \in Nat, k < Len(b)
  PROVE  /\ Len(Rest(b, k)) # 0 /\ Rest(b, k)[1] = b[k + 1]
         /\ Queues!RemoveAt(Rest(b, k), 1) = Rest(b, k + 1)
<1>1. Len(b) \in Nat /\ k \in 0..Len(b) /\ k + 1 \in 0..Len(b)
  BY LenProperties
<1> DEFINE c == Rest(b, k)
           d == Rest(b, k + 1)
<1>2. c \in Seq(Node) /\ Len(c) = Len(b) - k /\ \A j \in 1..(Len(b) - k) : c[j] = b[j + k]
  BY <1>1, RestIs
<1>3. /\ d \in Seq(Node) /\ Len(d) = Len(b) - (k + 1)
      /\ \A j \in 1..(Len(b) - (k + 1)) : d[j] = b[j + (k + 1)]
  BY <1>1, RestIs
<1> DEFINE t == Queues!RemoveAt(c, 1)
<1> HIDE DEF c, d
<1>4. 1 \in 1..Len(c) /\ c[1] = b[k + 1]
  BY <1>1, <1>2
<1>5. /\ t \in Seq(Node) /\ Len(t) = Len(c) - 1
      /\ \A i \in 1..(Len(c) - 1) : t[i] = IF i < 1 THEN c[i] ELSE c[i + 1]
  BY <1>2, <1>4, WithoutPlace
<1> HIDE DEF t
<1>6. Len(t) = Len(d)
  BY <1>1, <1>2, <1>3, <1>5
<1>7. ASSUME NEW i \in 1..Len(t) PROVE t[i] = d[i]
  <2>1. /\ i \in 1..(Len(c) - 1) /\ ~(i < 1) /\ i + 1 \in 1..(Len(b) - k)
        /\ i \in 1..(Len(b) - (k + 1)) /\ i + 1 + k = i + (k + 1)
    BY <1>1, <1>2, <1>3, <1>5
  <2> QED
    BY <1>2, <1>3, <1>5, <2>1
<1>8. t = d
  BY <1>3, <1>5, <1>6, <1>7, SeqEqual
<1> QED
  BY <1>1, <1>2, <1>4, <1>8 DEF c, d, t

LEMMA NextOfFollowed ==
  ASSUME NEW r \in Seq(Node), NEW b \in Seq(Node), NEW k \in Nat, k < Len(b)
  PROVE  Append(Followed(r, b, k), b[k + 1]) = Followed(r, b, k + 1)
<1>1. Len(b) \in Nat /\ k \in 0..Len(b) /\ k + 1 \in 0..Len(b) /\ k + 1 \in 1..Len(b) /\ Len(r) \in Nat
  BY LenProperties
<1> DEFINE f == Followed(r, b, k)
           d == Followed(r, b, k + 1)
           t == Append(f, b[k + 1])
<1>2. /\ f \in Seq(Node) /\ Len(f) = Len(r) + k
      /\ \A j \in 1..(Len(r) + k) : f[j] = IF j <= Len(r) THEN r[j] ELSE b[j - Len(r)]
  BY <1>1, FollowedIs
<1>3. /\ d \in Seq(Node) /\ Len(d) = Len(r) + (k + 1)
      /\ \A j \in 1..(Len(r) + (k + 1)) : d[j] = IF j <= Len(r) THEN r[j] ELSE b[j - Len(r)]
  BY <1>1, FollowedIs
<1> HIDE DEF f, d
<1>4. b[k + 1] \in Node
  BY <1>1, ElementOfSeq
<1>5. /\ t \in Seq(Node) /\ Len(t) = Len(f) + 1 /\ t[Len(f) + 1] = b[k + 1]
      /\ \A j \in 1..Len(f) : t[j] = f[j]
  BY <1>2, <1>4, AppendProperties
<1> HIDE DEF t
<1>6. Len(t) = Len(d)
  BY <1>1, <1>2, <1>3, <1>5
<1>7. ASSUME NEW i \in 1..Len(t) PROVE t[i] = d[i]
  <2>1. CASE i \in 1..Len(f)
    <3>1. i \in 1..(Len(r) + k) /\ i \in 1..(Len(r) + (k + 1))
      BY <1>1, <1>2, <2>1
    <3> QED
      BY <1>2, <1>3, <1>5, <2>1, <3>1
  <2>2. CASE i = Len(f) + 1
    <3>1. i \in 1..(Len(r) + (k + 1)) /\ ~(i <= Len(r)) /\ i - Len(r) = k + 1
      BY <1>1, <1>2, <2>2
    <3> QED
      BY <1>3, <1>5, <2>2, <3>1
  <2> QED
    BY <1>1, <1>2, <1>5, <2>1, <2>2
<1>8. t = d
  BY <1>3, <1>5, <1>6, <1>7, SeqEqual
<1> QED
  BY <1>8 DEF f, d, t
LEMMA RoundEmpties ==
  ASSUME NEW h, NEW q, Represents(h, q)
  PROVE  /\ Len(q["blocked"]) = 0 => EmptyingRound(h) = h
         /\ Len(q["blocked"]) # 0 =>
              Represents(EmptyingRound(h),
                         [q EXCEPT !["blocked"] = Queues!RemoveAt(@, 1),
                                   !["ready"] = Append(@, q["blocked"][1])])
<1> DEFINE b == q["blocked"]
           r == [q EXCEPT !["blocked"] = Queues!RemoveAt(@, 1), !["ready"] = Append(@, b[1])]
<1>1. "blocked" \in List /\ "blocked" # "ready"
  BY DEF List
<1>2. Chain(h, "blocked", b) /\ Len(b) \in Nat
  BY <1>1, Places
<1>3. h.size["blocked"] = Len(b)
  BY <1>2 DEF Chain
<1>4. ASSUME Len(b) = 0 PROVE EmptyingRound(h) = h
  BY <1>3, <1>4 DEF EmptyingRound
<1>5. ASSUME Len(b) # 0 PROVE Represents(EmptyingRound(h), r)
  <2>1. 1 \in 1..Len(b) /\ h.head["blocked"] = b[1]
    BY <1>2, <1>5 DEF Chain
  <2>2. EmptyingRound(h) = unblock(h, "blocked", b[1])
    BY <1>3, <1>5, <2>1 DEF EmptyingRound, unblock, remove
  <2>3. Represents(unblock(h, "blocked", b[1]), r)
    BY <1>1, <2>1, UnblockMoves
  <2> QED
    BY <2>2, <2>3
<1> QED
  BY <1>4, <1>5

LEMMA EmptiedOnce ==
  ASSUME NEW q \in [List -> Seq(Node)], NEW k \in Nat, k < Len(q["blocked"])
  PROVE  LET e == Emptied(q, k)
         IN  /\ Len(e["blocked"]) # 0
             /\ [e EXCEPT !["blocked"] = Queues!RemoveAt(@, 1), !["ready"] = Append(@, e["blocked"][1])]
                  = Emptied(q, k + 1)
<1> DEFINE b == q["blocked"]
           r == q["ready"]
           e == Emptied(q, k)
<1>1. "blocked" \in List /\ "ready" \in List /\ "blocked" # "ready"
  BY DEF List
<1>2. b \in Seq(Node) /\ r \in Seq(Node)
  BY <1>1
<1>3. /\ Len(Rest(b, k)) # 0 /\ Rest(b, k)[1] = b[k + 1]
      /\ Queues!RemoveAt(Rest(b, k), 1) = Rest(b, k + 1)
  BY <1>2, FirstOfRest
<1>4. Append(Followed(r, b, k), b[k + 1]) = Followed(r, b, k + 1)
  BY <1>2, NextOfFollowed
<1>5. e["blocked"] = Rest(b, k) /\ e["ready"] = Followed(r, b, k)
  BY <1>1 DEF Emptied
<1>6. [e EXCEPT !["blocked"] = Queues!RemoveAt(@, 1), !["ready"] = Append(@, b[k + 1])]
        = [q EXCEPT !["blocked"] = Queues!RemoveAt(Rest(b, k), 1),
                    !["ready"] = Append(Followed(r, b, k), b[k + 1])]
  BY <1>1 DEF Emptied
<1> QED
  BY <1>3, <1>4, <1>5, <1>6 DEF Emptied

LEMMA EmptiedAll ==
  ASSUME NEW q \in [List -> Seq(Node)]
  PROVE  Emptied(q, Len(q["blocked"]))
           = [q EXCEPT !["blocked"] = << >>, !["ready"] = @ \o q["blocked"]]
<1> DEFINE b == q["blocked"]
           r == q["ready"]
<1>1. "blocked" \in List /\ "ready" \in List /\ "blocked" # "ready"
  BY DEF List
<1>2. b \in Seq(Node) /\ r \in Seq(Node) /\ Len(b) \in 0..Len(b)
  <2>1. b \in Seq(Node) /\ r \in Seq(Node)
    BY <1>1
  <2> QED
    BY <2>1, LenProperties
<1> HIDE DEF b, r
<1>3. Rest(b, Len(b)) = << >>
  <2>1. Rest(b, Len(b)) \in Seq(Node) /\ Len(Rest(b, Len(b))) = Len(b) - Len(b)
    BY <1>2, RestIs
  <2>2. Len(b) - Len(b) = 0
    BY <1>2, LenProperties
  <2> QED
    BY <2>1, <2>2, EmptySeq
<1>4. SubSeq(b, 1, Len(b)) = b
  <2> DEFINE c == SubSeq(b, 1, Len(b))
  <2>1. /\ Len(b) \in Nat /\ 1 \in Int /\ Len(b) \in Int
        /\ \A j \in 1..Len(b) : b[j] \in Node
    BY <1>2, LenProperties, ElementOfSeq
  <2>2. /\ c \in Seq(Node) /\ Len(c) = IF 1 <= Len(b) THEN Len(b) - 1 + 1 ELSE 0
        /\ \A j \in 1..(Len(b) - 1 + 1) : c[j] = b[1 + j - 1]
    BY <2>1, SubSeqProperties
  <2> HIDE DEF c
  <2>3. Len(c) = Len(b) /\ \A j \in 1..Len(c) : c[j] = b[j]
    BY <2>1, <2>2
  <2>4. c = b
    BY <1>2, <2>2, <2>3, SeqEqual
  <2> QED
    BY <2>4 DEF c
<1>5. Followed(r, b, Len(b)) = r \o b
  BY <1>4 DEF Followed
<1> QED
  BY <1>1, <1>3, <1>5 DEF Emptied, b, r

LEMMA EmptiedNone ==
  ASSUME NEW q \in [List -> Seq(Node)]
  PROVE  Emptied(q, 0) = q
<1> DEFINE b == q["blocked"]
           r == q["ready"]
<1>1. "blocked" \in List /\ "ready" \in List /\ "blocked" # "ready"
  BY DEF List
<1>2. b \in Seq(Node) /\ r \in Seq(Node)
  BY <1>1
<1> HIDE DEF b, r
<1>3. Len(b) \in Nat /\ Len(r) \in Nat /\ 0 \in 0..Len(b)
  BY <1>2, LenProperties
<1>4. Rest(b, 0) = b
  <2>1. /\ Rest(b, 0) \in Seq(Node) /\ Len(Rest(b, 0)) = Len(b) - 0
        /\ \A j \in 1..(Len(b) - 0) : Rest(b, 0)[j] = b[j + 0]
    BY <1>2, <1>3, RestIs
  <2>2. Len(Rest(b, 0)) = Len(b) /\ \A j \in 1..Len(b) : Rest(b, 0)[j] = b[j]
    BY <1>3, <2>1
  <2> QED
    BY <1>2, <2>1, <2>2, SeqEqual
<1>5. Followed(r, b, 0) = r
  <2> DEFINE f == Followed(r, b, 0)
  <2>1. /\ f \in Seq(Node) /\ Len(f) = Len(r) + 0
        /\ \A j \in 1..(Len(r) + 0) : f[j] = IF j <= Len(r) THEN r[j] ELSE b[j - Len(r)]
    BY <1>2, <1>3, FollowedIs
  <2> HIDE DEF f
  <2>2. Len(f) = Len(r) /\ \A j \in 1..Len(f) : f[j] = r[j]
    BY <1>3, <2>1
  <2>3. f = r
    BY <1>2, <2>1, <2>2, SeqEqual
  <2> QED
    BY <2>3 DEF f
<1> QED
  BY <1>1, <1>4, <1>5 DEF Emptied, b, r

LEMMA RunEmpties ==
  ASSUME NEW h, NEW q, Represents(h, q), NEW n \in Nat, Len(q["blocked"]) <= n,
         NEW g, EmptyingRun(g, h, n)
  PROVE  Represents(g[n], [q EXCEPT !["blocked"] = << >>, !["ready"] = @ \o q["blocked"]])
<1> DEFINE b == q["blocked"]
           L == Len(b)
           Done(k) == \E m \in 0..L : (m = k \/ m = L) /\ Represents(g[k], Emptied(q, m))
           S == {k \in Nat : k <= n => Done(k)}
<1>1. q \in [List -> Seq(Node)] /\ "blocked" \in List
  BY DEF Represents, List
<1>2. b \in Seq(Node) /\ L \in Nat
  <2>1. b \in Seq(Node)
    BY <1>1
  <2> QED
    BY <2>1, LenProperties
<1>3. g[0] = h
  BY EmptyingRunIs
<1>4. ASSUME NEW k \in 1..n PROVE g[k] = EmptyingRound(g[k - 1])
  BY EmptyingRunIs
<1>5. 0 \in S
  <2>1. Represents(g[0], Emptied(q, 0)) /\ 0 \in 0..L
    BY <1>1, <1>2, <1>3, EmptiedNone
  <2> QED
    BY <2>1
<1>6. ASSUME NEW k \in Nat, k \in S PROVE k + 1 \in S
  <2> SUFFICES ASSUME k + 1 <= n PROVE Done(k + 1)
    OBVIOUS
  <2>1. PICK m \in 0..L : (m = k \/ m = L) /\ Represents(g[k], Emptied(q, m))
    BY <1>6
  <2>2. g[k + 1] = EmptyingRound(g[k])
    <3>1. k + 1 \in 1..n /\ k + 1 - 1 = k
      OBVIOUS
    <3> QED
      BY <1>4, <3>1
  <2> DEFINE e == Emptied(q, m)
  <2>3. CASE m < L
    <3>1. /\ Len(e["blocked"]) # 0
          /\ [e EXCEPT !["blocked"] = Queues!RemoveAt(@, 1), !["ready"] = Append(@, e["blocked"][1])]
                = Emptied(q, m + 1)
      <4>1. m \in Nat /\ m < Len(q["blocked"])
        BY <1>2, <2>3
      <4> QED
        BY <1>1, <4>1, EmptiedOnce
    <3>2. Represents(g[k], e)
      BY <2>1
    <3> HIDE DEF e
    <3>3. Represents(EmptyingRound(g[k]), Emptied(q, m + 1))
      BY <3>1, <3>2, RoundEmpties
    <3>4. m + 1 \in 0..L /\ m + 1 = k + 1
      BY <1>2, <2>1, <2>3
    <3> HIDE DEF L
    <3> QED
      BY <2>2, <3>3, <3>4
  <2>4. CASE m = L
    <3>1. Len(Rest(b, L)) = 0
      <4>1. L \in 0..L
        BY <1>2
      <4>2. Len(Rest(b, L)) = L - L
        BY <1>2, <4>1, RestIs
      <4> QED
        BY <1>2, <4>2
    <3>2. e["blocked"] = Rest(b, L)
      BY <1>1, <2>4 DEF Emptied, List
    <3>3. Represents(g[k], e) /\ Len(e["blocked"]) = 0
      BY <2>1, <3>1, <3>2
    <3> HIDE DEF e
    <3>4. EmptyingRound(g[k]) = g[k]
      BY <3>3, RoundEmpties
    <3> QED
      BY <2>1, <2>2, <2>4, <3>4
  <2> QED
    BY <1>2, <2>1, <2>3, <2>4
<1>7. n \in S
  <2> HIDE DEF S
  <2> QED
    BY <1>5, <1>6, Induced
<1>8. n <= n
  OBVIOUS
<1>9. Represents(g[n], Emptied(q, L))
  <2>1. PICK m \in 0..L : (m = n \/ m = L) /\ Represents(g[n], Emptied(q, m))
    BY <1>7, <1>8
  <2>2. m = L
    BY <1>2, <2>1
  <2> QED
    BY <2>1, <2>2
<1> QED
  BY <1>1, <1>9, EmptiedAll

LEMMA MoveAllStep ==
  ASSUME ListsIInv, UnblockAll
  PROVE  ListsIInv' /\ Queues!MoveAll("blocked")
<1> DEFINE N == Cardinality(Node)
           q == Seqs(links)
           g == CHOOSE x : EmptyingRun(x, links, N)
           r == [q EXCEPT !["blocked"] = << >>, !["ready"] = @ \o q["blocked"]]
<1>1. /\ Represents(links, q) /\ code \in [Node -> Int]
      /\ [m \in List |-> Reached(links, m)] = q
  BY Represented
<1>2. N \in Nat /\ Len(q["blocked"]) <= N
  BY <1>1, ListsAreShort DEF List
<1>3. EmptyingRun(g, links, N)
  BY <1>2, EmptyingRuns
<1>4. links' = g[N] /\ code' = code
  BY DEF UnblockAll, EmptyingRun, EmptyingRound
<1> HIDE DEF g, q
<1>5. Represents(links', r)
  BY <1>1, <1>2, <1>3, <1>4, RunEmpties
<1>6. code' \in [Node -> Int]
  BY <1>1, <1>4
<1> HIDE DEF r
<1>7. ListsIInv' /\ [m \in List |-> Reached(links', m)] = r
  BY <1>5, <1>6, NextSeqs
<1>8. [m \in List |-> Reached(links, m)]'
        = [[m \in List |-> Reached(links, m)] EXCEPT
             !["blocked"] = << >>,
             !["ready"] = @ \o [m \in List |-> Reached(links, m)]["blocked"]]
  BY <1>1, <1>7 DEF r
<1> QED
  BY <1>4, <1>7, <1>8 DEF Queues!MoveAll
-----------------------------------------------------------------------------
(***************************************************************************)
(* check_delay: the loop counts down sleeper after sleeper, until one is   *)
(* due and takes the loop with it to the end of the ready list.            *)
(***************************************************************************)
WakingRound(w) == IF w.curr = Null THEN w ELSE CheckDelayRound(w)

WakingRun(g, w, n) ==
  g = [k \in 0..n |-> IF k = 0 THEN w ELSE WakingRound(g[k - 1])]

LEMMA WakingRunIs ==
  ASSUME NEW w, NEW n \in Nat, NEW g, WakingRun(g, w, n)
  PROVE  g[0] = w /\ \A k \in 1..n : g[k] = WakingRound(g[k - 1])
<1> DEFINE Round(k) == IF k = 0 THEN w ELSE WakingRound(g[k - 1])
<1>1. SUFFICES \A k \in 0..n : g[k] = Round(k)
  <2>1. \A k \in 1..n : k \in 0..n /\ k # 0
    OBVIOUS
  <2> QED
    BY <2>1
<1>2. g = [k \in 0..n |-> Round(k)]
  BY DEF WakingRun
<1> HIDE DEF Round
<1> QED
  BY <1>2

LEMMA WakingRuns ==
  ASSUME NEW w, NEW n \in Nat
  PROVE  \E g : WakingRun(g, w, n)
<1> DEFINE S == {i \in Nat : \E g : WakingRun(g, w, i)}
<1>1. 0 \in S
  <2>1. WakingRun([k \in 0..0 |-> w], w, 0)
    BY DEF WakingRun
  <2> QED
    BY <2>1
<1>2. ASSUME NEW i \in Nat, i \in S PROVE i + 1 \in S
  <2>1. PICK g : WakingRun(g, w, i)
    BY <1>2
  <2>2. g[0] = w /\ \A k \in 1..i : g[k] = WakingRound(g[k - 1])
    <3>1. g[0] = w
      BY <2>1, WakingRunIs
    <3>2. ASSUME NEW k \in 1..i PROVE g[k] = WakingRound(g[k - 1])
      BY <2>1, WakingRunIs
    <3> QED
      BY <3>1, <3>2
  <2> DEFINE f == [k \in 0..(i + 1) |-> IF k = 0 THEN w ELSE WakingRound(g[k - 1])]
  <2>3. ASSUME NEW k \in 1..(i + 1) PROVE f[k - 1] = g[k - 1]
    <3>1. k - 1 \in 0..(i + 1) /\ (k - 1 = 0 \/ k - 1 \in 1..i)
      OBVIOUS
    <3>2. CASE k - 1 = 0
      BY <2>2, <3>1, <3>2
    <3>3. CASE k - 1 \in 1..i
      BY <2>2, <3>1, <3>3
    <3> QED
      BY <3>1, <3>2, <3>3
  <2> DEFINE f2 == [k \in 0..(i + 1) |-> IF k = 0 THEN w ELSE WakingRound(f[k - 1])]
  <2>4. \A k \in 0..(i + 1) : f[k] = f2[k]
    <3> SUFFICES ASSUME NEW k \in 0..(i + 1) PROVE f[k] = f2[k]
      OBVIOUS
    <3>1. CASE k = 0
      BY <3>1
    <3>2. CASE k # 0
      <4>1. k \in 1..(i + 1)
        BY <3>2
      <4>2. f[k] = WakingRound(g[k - 1])
        BY <3>2
      <4>3. f2[k] = WakingRound(f[k - 1])
        BY <3>2
      <4> HIDE DEF f, f2
      <4> QED
        BY <2>3, <4>1, <4>2, <4>3
    <3> QED
      BY <3>1, <3>2
  <2>5. f = f2
    BY <2>4
  <2>6. WakingRun(f, w, i + 1)
    BY <2>5 DEF WakingRun
  <2>7. i + 1 \in Nat
    OBVIOUS
  <2> HIDE DEF f
  <2> QED
    BY <2>6, <2>7
<1>3. n \in S
  <2> HIDE DEF S
  <2> QED
    BY <1>1, <1>2, Induced
<1> QED
  BY <1>3


TickedBy(c, d, k) ==
  [n \in Node |-> IF \E i \in 1..k : d[i] = n THEN c[n] - 1 ELSE c[n]]

DueIn(c, d) == {i \in DOMAIN d : c[d[i]] = 1}

(***************************************************************************)
(* The first k sleepers are counted down, none of them due; or one was.    *)
(***************************************************************************)
Counting(w, h, c, d, k) ==
  /\ w.links = h /\ w.code = TickedBy(c, d, k)
  /\ w.curr = IF k = Len(d) THEN Null ELSE d[k + 1]
  /\ \A i \in 1..k : c[d[i]] # 1

Ended(w, h, c, d) ==
  /\ w.curr = Null
  /\ \E i \in DueIn(c, d) :
       /\ \A j \in DueIn(c, d) : i <= j
       /\ w.code = TickedBy(c, d, i)
       /\ w.links = unblock(h, "delayed", d[i])

LEMMA OneMoreTicked ==
  ASSUME NEW c \in [Node -> Int], NEW d \in Seq(Node), NEW k \in Nat, k < Len(d),
         \A i, j \in 1..Len(d) : d[i] = d[j] => i = j
  PROVE  /\ [TickedBy(c, d, k) EXCEPT ![d[k + 1]] = @ - 1] = TickedBy(c, d, k + 1)
         /\ TickedBy(c, d, k + 1)[d[k + 1]] = c[d[k + 1]] - 1
<1> DEFINE s == d[k + 1]
           a == TickedBy(c, d, k)
           b == TickedBy(c, d, k + 1)
<1>1. Len(d) \in Nat /\ k + 1 \in 1..Len(d) /\ s \in Node
  BY LenProperties, ElementOfSeq
<1>2. \A i \in 1..k : d[i] # s
  BY <1>1
<1>3. a[s] = c[s]
  BY <1>1, <1>2 DEF TickedBy
<1>4. b[s] = c[s] - 1
  BY <1>1 DEF TickedBy
<1>5. ASSUME NEW n \in Node, n # s PROVE a[n] = b[n]
  <2>1. (\E i \in 1..k : d[i] = n) <=> (\E i \in 1..(k + 1) : d[i] = n)
    BY <1>5
  <2> QED
    BY <2>1 DEF TickedBy
<1>6. /\ a = [n \in Node |-> a[n]] /\ b = [n \in Node |-> b[n]]
  BY DEF TickedBy
<1> HIDE DEF a, b, s
<1>7. [a EXCEPT ![s] = @ - 1] = b
  BY <1>1, <1>3, <1>4, <1>5, <1>6
<1> QED
  BY <1>4, <1>7 DEF a, b, s

LEMMA WokenIsLast ==
  ASSUME NEW h, NEW q, Represents(h, q), NEW l \in List, l # "ready", NEW i \in 1..Len(q[l])
  PROVE  unblock(h, l, q[l][i]).next[q[l][i]] = Null
<1> DEFINE n == q[l][i]
           g == unblock(h, l, n)
           r == [q EXCEPT ![l] = Queues!RemoveAt(@, i), !["ready"] = Append(@, n)]
           s == r["ready"]
<1>1. Represents(g, r)
  BY UnblockMoves
<1>2. "ready" \in List /\ q \in [List -> Seq(Node)] /\ n \in Node
  BY Places DEF List
<1>3. s = Append(q["ready"], n) /\ q["ready"] \in Seq(Node)
  BY <1>2
<1>4. Len(s) = Len(q["ready"]) + 1 /\ s[Len(q["ready"]) + 1] = n /\ Len(q["ready"]) \in Nat
  BY <1>2, <1>3, AppendProperties, LenProperties
<1>5. Len(s) \in 1..Len(s) /\ s[Len(s)] = n
  BY <1>4
<1>6. Chain(g, "ready", s)
  BY <1>1, <1>2 DEF Represents
<1> HIDE DEF s, g, n
<1>7. g.next[s[Len(s)]] = Null
  BY <1>5, <1>6 DEF Chain
<1> QED
  BY <1>5, <1>7 DEF g, n

LEMMA RoundCounts ==
  ASSUME NEW h, NEW q, Represents(h, q), NEW c \in [Node -> Int],
         NEW k \in Nat, k < Len(q["delayed"]), NEW w, Counting(w, h, c, q["delayed"], k)
  PROVE  \/ Counting(WakingRound(w), h, c, q["delayed"], k + 1)
         \/ Ended(WakingRound(w), h, c, q["delayed"])
<1> DEFINE d == q["delayed"]
           n == d[k + 1]
           b == TickedBy(c, d, k + 1)
           x == CheckDelayRound(w)
<1>1. "delayed" \in List /\ "delayed" # "ready"
  BY DEF List
<1>2. /\ Chain(h, "delayed", d) /\ d \in Seq(Node) /\ Len(d) \in Nat
      /\ \A i \in 1..Len(d) : d[i] \in Node
      /\ \A i, j \in 1..Len(d) : d[i] = d[j] => i = j
  BY <1>1, Places
<1>0. k < Len(d) /\ Counting(w, h, c, d, k)
  OBVIOUS
<1>3. k + 1 \in 1..Len(d) /\ n \in Node /\ k # Len(d)
  BY <1>0, <1>2
<1>4. w.links = h /\ w.code = TickedBy(c, d, k) /\ w.curr = n /\ \A i \in 1..k : c[d[i]] # 1
  BY <1>0, <1>3 DEF Counting
<1>5. [w.code EXCEPT ![w.curr] = @ - 1] = b /\ b[n] = c[n] - 1 /\ c[n] \in Int
  <2> HIDE DEF d
  <2>1. /\ [TickedBy(c, d, k) EXCEPT ![d[k + 1]] = @ - 1] = TickedBy(c, d, k + 1)
        /\ TickedBy(c, d, k + 1)[d[k + 1]] = c[d[k + 1]] - 1
    BY <1>0, <1>2, OneMoreTicked
  <2>2. c[n] \in Int
    BY <1>3
  <2> QED
    BY <1>4, <2>1, <2>2
<1>6. WakingRound(w) = x
  BY <1>3, <1>4, LinkedListAssumption DEF WakingRound
<1>7. x = LET y == IF b[n] = 0 THEN unblock(h, "delayed", n) ELSE h
          IN  [links |-> y, code |-> b, curr |-> y.next[n]]
  BY <1>4, <1>5 DEF CheckDelayRound
<1> HIDE DEF x, b
<1>8. CASE c[n] = 1
  <2>1. b[n] = 0
    BY <1>5, <1>8
  <2>2. unblock(h, "delayed", n).next[n] = Null
    BY <1>1, <1>3, WokenIsLast
  <2> HIDE DEF d
  <2>3. x.links = unblock(h, "delayed", n) /\ x.code = b /\ x.curr = Null
    BY <1>7, <2>1, <2>2
  <2>4. k + 1 \in DueIn(c, d)
    BY <1>2, <1>3, <1>8 DEF DueIn
  <2>5. \A j \in DueIn(c, d) : k + 1 <= j
    <3> SUFFICES ASSUME NEW j \in DueIn(c, d), ~(k + 1 <= j) PROVE FALSE
      OBVIOUS
    <3>1. j \in 1..Len(d) /\ c[d[j]] = 1
      BY <1>2 DEF DueIn
    <3>2. j \in 1..k
      BY <1>2, <3>1
    <3> QED
      BY <1>4, <3>1, <3>2
  <2>6. Ended(x, h, c, d)
    BY <2>3, <2>4, <2>5 DEF Ended, b
  <2> QED
    BY <1>6, <2>6 DEF d
<1>9. CASE c[n] # 1
  <2>1. b[n] # 0
    BY <1>5, <1>9
  <2> HIDE DEF d
  <2>2. x.links = h /\ x.code = b /\ x.curr = h.next[n]
    BY <1>7, <2>1
  <2>3. h.next[n] = IF k + 1 = Len(d) THEN Null ELSE d[k + 1 + 1]
    BY <1>2, <1>3 DEF Chain
  <2>4. \A i \in 1..(k + 1) : c[d[i]] # 1
    <3>1. \A i \in 1..(k + 1) : i \in 1..k \/ i = k + 1
      OBVIOUS
    <3> QED
      BY <1>4, <1>9, <3>1
  <2>5. Counting(x, h, c, d, k + 1)
    BY <2>2, <2>3, <2>4 DEF Counting, b
  <2> QED
    BY <1>6, <2>5 DEF d
<1> QED
  BY <1>8, <1>9
(***************************************************************************)
(* What the loop has done when there is no sleeper left to look at.        *)
(***************************************************************************)
CountedOut(w, h, c, d) ==
  \/ Counting(w, h, c, d, Len(d)) /\ DueIn(c, d) = {}
  \/ Ended(w, h, c, d)

LEMMA RunWakes ==
  ASSUME NEW h, NEW q, Represents(h, q), NEW c \in [Node -> Int],
         NEW n \in Nat, Len(q["delayed"]) <= n, NEW w, NEW g, WakingRun(g, w, n),
         w.links = h, w.code = c, w.curr = h.head["delayed"]
  PROVE  CountedOut(g[n], h, c, q["delayed"])
<1> DEFINE d == q["delayed"]
           L == Len(d)
           Done(k) == \/ \E m \in 0..L : (m = k \/ m = L) /\ Counting(g[k], h, c, d, m)
                      \/ Ended(g[k], h, c, d)
           S == {k \in Nat : k <= n => Done(k)}
<1>1. "delayed" \in List
  BY DEF List
<1>2. /\ Chain(h, "delayed", d) /\ d \in Seq(Node) /\ L \in Nat
      /\ \A i \in 1..L : d[i] \in Node
  BY <1>1, Places
<1>3. g[0] = w
  BY WakingRunIs
<1>4. ASSUME NEW k \in 1..n PROVE g[k] = WakingRound(g[k - 1])
  BY WakingRunIs
<1>0. w.links = h /\ w.code = c /\ w.curr = h.head["delayed"] /\ L <= n
  OBVIOUS
<1>r. ASSUME NEW m \in Nat, m < L, NEW x, Counting(x, h, c, d, m)
      PROVE  Counting(WakingRound(x), h, c, d, m + 1) \/ Ended(WakingRound(x), h, c, d)
  BY <1>r, RoundCounts
<1> HIDE DEF d, L
<1>5. 0 \in S
  <2>1. TickedBy(c, d, 0) = c
    <3>1. \A x \in Node : ~\E i \in 1..0 : d[i] = x
      OBVIOUS
    <3>2. TickedBy(c, d, 0) = [x \in Node |-> c[x]]
      BY <3>1 DEF TickedBy
    <3> QED
      BY <3>2
  <2>2. h.head["delayed"] = IF 0 = Len(d) THEN Null ELSE d[0 + 1]
    BY <1>2 DEF Chain
  <2>3. Counting(w, h, c, d, 0)
    BY <1>0, <2>1, <2>2 DEF Counting
  <2>4. 0 \in 0..L
    BY <1>2
  <2> QED
    BY <1>3, <2>3, <2>4
<1>6. ASSUME NEW k \in Nat, k \in S PROVE k + 1 \in S
  <2> SUFFICES ASSUME k + 1 <= n PROVE Done(k + 1)
    OBVIOUS
  <2>1. Done(k)
    BY <1>6
  <2>2. g[k + 1] = WakingRound(g[k])
    <3>1. k + 1 \in 1..n /\ k + 1 - 1 = k
      OBVIOUS
    <3> QED
      BY <1>4, <3>1
  <2>3. ASSUME NEW m \in 0..L, m = k, m < L, Counting(g[k], h, c, d, m) PROVE Done(k + 1)
    <3>1. m \in Nat /\ m + 1 \in 0..L /\ m + 1 = k + 1
      BY <1>2, <2>3
    <3>2. Counting(g[k + 1], h, c, d, m + 1) \/ Ended(g[k + 1], h, c, d)
      BY <1>r, <2>2, <2>3, <3>1
    <3> QED
      BY <3>1, <3>2
  <2>4. ASSUME Counting(g[k], h, c, d, L) PROVE Done(k + 1)
    <3>1. g[k].curr = Null
      BY <2>4 DEF Counting, L
    <3>2. g[k + 1] = g[k] /\ L \in 0..L
      BY <1>2, <2>2, <3>1 DEF WakingRound
    <3> QED
      BY <2>4, <3>2
  <2>5. ASSUME Ended(g[k], h, c, d) PROVE Done(k + 1)
    <3>1. g[k + 1] = g[k]
      BY <2>2, <2>5 DEF WakingRound, Ended
    <3> QED
      BY <2>5, <3>1
  <2>6. \A m \in 0..L : m < L \/ m = L
    BY <1>2
  <2> QED
    BY <2>1, <2>3, <2>4, <2>5, <2>6
<1>7. n \in S
  <2> HIDE DEF S
  <2> QED
    BY <1>5, <1>6, Induced
<1>8. n <= n
  OBVIOUS
<1>9. Counting(g[n], h, c, d, L) \/ Ended(g[n], h, c, d)
  <2>1. \A m \in 0..L : m = n \/ m = L => m = L
    BY <1>0, <1>2
  <2> QED
    BY <1>7, <1>8, <2>1
<1>10. ASSUME Counting(g[n], h, c, d, L) PROVE DueIn(c, d) = {}
  <2>1. \A i \in 1..L : c[d[i]] # 1
    BY <1>10 DEF Counting
  <2>2. DOMAIN d = 1..L
    BY <1>2 DEF L
  <2> QED
    BY <2>1, <2>2 DEF DueIn
<1>11. CountedOut(g[n], h, c, d)
  BY <1>9, <1>10 DEF CountedOut, L
<1> QED
  BY <1>11 DEF d

LEMMA TickedByType ==
  ASSUME NEW c \in [Node -> Int], NEW d, NEW k
  PROVE  TickedBy(c, d, k) \in [Node -> Int]
<1>1. \A n \in Node : (IF \E i \in 1..k : d[i] = n THEN c[n] - 1 ELSE c[n]) \in Int
  OBVIOUS
<1> QED
  BY <1>1 DEF TickedBy

LEMMA TickStep ==
  ASSUME ListsIInv, CheckDelay
  PROVE  ListsIInv' /\ Queues!Tick
<1> DEFINE N == Cardinality(Node)
           w == [links |-> links, code |-> code, curr |-> links.head["delayed"]]
           g == CHOOSE x : WakingRun(x, w, N)
           q == [m \in List |-> Reached(links, m)]
           d == q["delayed"]
<1>1. Represents(links, q) /\ code \in [Node -> Int] /\ q \in [List -> Seq(Node)]
  BY Represented
<1>2. N \in Nat /\ Len(d) <= N /\ d \in Seq(Node)
  <2> HIDE DEF q
  <2> QED
    BY <1>1, ListsAreShort DEF List
<1>3. WakingRun(g, w, N)
  BY <1>2, WakingRuns
<1>4. links' = g[N].links /\ code' = g[N].code
  BY DEF CheckDelay, WakingRun, WakingRound
<1>5. CountedOut(g[N], links, code, d)
  <2> HIDE DEF g, q
  <2>1. w.links = links /\ w.code = code /\ w.curr = links.head["delayed"]
    OBVIOUS
  <2> HIDE DEF w
  <2> QED
    BY <1>1, <1>2, <1>3, <2>1, RunWakes
<1>6. /\ Queues!Due = DueIn(code, d)
      /\ \A k : Queues!Ticked(k) = TickedBy(code, d, k)
  BY DEF Queues!Due, Queues!Ticked, DueIn, TickedBy
<1> HIDE DEF g
<1>7. CASE Counting(g[N], links, code, d, Len(d)) /\ DueIn(code, d) = {}
  <2>1. links' = links /\ code' = TickedBy(code, d, Len(d))
    BY <1>4, <1>7 DEF Counting
  <2>2. code' \in [Node -> Int]
    BY <1>1, <2>1, TickedByType
  <2>3. Represents(links', q)
    BY <1>1, <2>1
  <2>4. ListsIInv' /\ [m \in List |-> Reached(links', m)] = q
    <3> HIDE DEF q
    <3> QED
      BY <2>2, <2>3, NextSeqs
  <2>5. Queues!Due = {} /\ code' = Queues!Ticked(Len(d))
    BY <1>6, <1>7, <2>1
  <2>6. [m \in List |-> Reached(links, m)]' = [m \in List |-> Reached(links, m)]
    BY <2>4
  <2> QED
    BY <2>4, <2>5, <2>6 DEF Queues!Tick
<1>8. CASE Ended(g[N], links, code, d)
  <2>1. PICK i \in DueIn(code, d) :
          /\ \A j \in DueIn(code, d) : i <= j
          /\ g[N].code = TickedBy(code, d, i)
          /\ g[N].links = unblock(links, "delayed", d[i])
    BY <1>8 DEF Ended
  <2>2. links' = unblock(links, "delayed", d[i]) /\ code' = TickedBy(code, d, i)
    BY <1>4, <2>1
  <2>3. i \in 1..Len(d)
    BY <1>2 DEF DueIn
  <2>4. code' \in [Node -> Int]
    BY <1>1, <2>2, TickedByType
  <2> DEFINE r == [q EXCEPT !["delayed"] = Queues!RemoveAt(@, i), !["ready"] = Append(@, q["delayed"][i])]
  <2>5. Represents(links', r)
    <3>1. links' = unblock(links, "delayed", q["delayed"][i]) /\ i \in 1..Len(q["delayed"])
      BY <2>2, <2>3
    <3>2. "delayed" \in List /\ "delayed" # "ready"
      BY DEF List
    <3> HIDE DEF q
    <3>3. Represents(unblock(links, "delayed", q["delayed"][i]), r)
      BY <1>1, <3>1, <3>2, UnblockMoves
    <3> QED
      BY <3>1, <3>3
  <2>6. ListsIInv' /\ [m \in List |-> Reached(links', m)] = r
    <3> HIDE DEF r
    <3> QED
      BY <2>4, <2>5, NextSeqs
  <2>7. /\ i \in Queues!Due /\ \A j \in Queues!Due : i <= j
        /\ code' = Queues!Ticked(i)
    BY <1>6, <2>1, <2>2
  <2>8. [m \in List |-> Reached(links, m)]'
          = [[m \in List |-> Reached(links, m)] EXCEPT
               !["delayed"] = Queues!RemoveAt(@, i),
               !["ready"] = Append(@, [m \in List |-> Reached(links, m)]["delayed"][i])]
    BY <2>6
  <2> HIDE DEF q, r
  <2>9. Queues!Tick
    BY <2>7, <2>8 DEF Queues!Tick
  <2> QED
    BY <2>6, <2>9
<1> QED
  BY <1>5, <1>7, <1>8 DEF CountedOut
-----------------------------------------------------------------------------
(***************************************************************************)
(* The disjuncts of the queues' next-state relation, one by one.           *)
(***************************************************************************)
LEMMA TicksAndMoves ==
  /\ Queues!Tick => Queues!Next
  /\ \A l \in List : Queues!MoveAll(l) => Queues!Next
BY DEF Queues!Next

LEMMA Joins ==
  ASSUME NEW l \in List, NEW n \in Node
  PROVE  /\ Queues!JoinFirst(l, n) => Queues!Next
         /\ \A c \in Codes : Queues!Join(l, n, c) => Queues!Next
         /\ Queues!Join(l, n, code[n]) => Queues!Next
<1>1. Queues!JoinFirst(l, n) => Queues!Next
  BY DEF Queues!Next
<1>2. ASSUME NEW c \in Codes \cup {code[n]}, Queues!Join(l, n, c) PROVE Queues!Next
  BY <1>2 DEF Queues!Next
<1>3. code[n] \in Codes \cup {code[n]} /\ \A c \in Codes : c \in Codes \cup {code[n]}
  OBVIOUS
<1> QED
  BY <1>1, <1>2, <1>3

LEMMA LeavesAndMoves ==
  ASSUME NEW l \in List, NEW i \in DOMAIN Seqs(links)[l]
  PROVE  /\ Queues!Move(l, i) => Queues!Next
         /\ Queues!Leave(l, i, -1) => Queues!Next
         /\ Queues!Leave(l, i, code[Seqs(links)[l][i]]) => Queues!Next
<1> DEFINE q == [m \in List |-> Reached(links, m)]
<1>1. i \in DOMAIN q[l] /\ Seqs(links) = q
  BY DEF Seqs
<1>2. Queues!Move(l, i) => Queues!Next
  BY <1>1 DEF Queues!Next
<1>3. ASSUME NEW c \in {-1, code[q[l][i]]}, Queues!Leave(l, i, c) PROVE Queues!Next
  BY <1>1, <1>3 DEF Queues!Next
<1>4. Queues!Leave(l, i, -1) => Queues!Next
  BY <1>3
<1>5. Queues!Leave(l, i, code[q[l][i]]) => Queues!Next
  BY <1>3
<1> QED
  BY <1>1, <1>2, <1>4, <1>5

(***************************************************************************)
(* Every step keeps the invariant and is a step of the queues.             *)
(***************************************************************************)
LEMMA ListsStep == ListsIInv /\ ListsNext => ListsIInv' /\ Queues!Next
<1> SUFFICES ASSUME ListsIInv, ListsNext PROVE ListsIInv' /\ Queues!Next
  OBVIOUS
<1>0. "ready" \in List /\ "blocked" \in List /\ "delayed" \in List /\ "objects" \in List
  BY DEF List
<1>1. CASE RunNextReady
  <2> DEFINE c == code[Seqs(links)["ready"][1]]
  <2>1. ListsIInv' /\ 1 \in DOMAIN Seqs(links)["ready"] /\ Queues!Leave("ready", 1, c)
    BY <1>1, RunNextReadyStep
  <2> QED
    BY <1>0, <2>1, LeavesAndMoves
<1>2. CASE UnblockAll
  BY <1>0, <1>2, MoveAllStep, TicksAndMoves
<1>3. CASE CheckDelay
  BY <1>3, TickStep, TicksAndMoves
<1>4. ASSUME NEW n \in Node, NEW l \in List, Block(l, n) PROVE ListsIInv' /\ Queues!Next
  BY <1>4, BlockStep, Joins
<1>5. ASSUME NEW n \in Node, HBlock(n) PROVE ListsIInv' /\ Queues!Next
  BY <1>0, <1>5, HBlockStep, Joins
<1>6. ASSUME NEW n \in Node, Unblock(n) PROVE ListsIInv' /\ Queues!Next
  <2>1. PICK i \in DOMAIN Seqs(links)["blocked"] : ListsIInv' /\ Queues!Move("blocked", i)
    BY <1>6, MoveStep
  <2> QED
    BY <1>0, <2>1, LeavesAndMoves
<1>7. ASSUME NEW n \in Node, NEW c \in Codes, BlockDelay(n, c) PROVE ListsIInv' /\ Queues!Next
  BY <1>0, <1>7, BlockDelayStep, Joins
<1>8. ASSUME NEW n \in Node, NEW c \in Codes, NewObject(n, c) PROVE ListsIInv' /\ Queues!Next
  BY <1>0, <1>8, NewObjectStep, Joins
<1>9. ASSUME NEW c \in Codes, Reclaim(c) PROVE ListsIInv' /\ Queues!Next
  <2>1. PICK i \in DOMAIN Seqs(links)["objects"] : ListsIInv' /\ Queues!Leave("objects", i, -1)
    BY <1>9, ReclaimStep
  <2> QED
    BY <1>0, <2>1, LeavesAndMoves
<1> QED
  BY <1>1, <1>2, <1>3, <1>4, <1>5, <1>6, <1>7, <1>8, <1>9 DEF ListsNext

LEMMA ListsStutter ==
  ListsIInv /\ UNCHANGED listsVars => ListsIInv' /\ UNCHANGED Queues!vars
BY DEF ListsIInv, Seqs, listsVars, Queues!vars

(***************************************************************************)
(* Theorem ListsAlwaysRepresent.  Whatever the scheduler and the objects   *)
(* of the kernel do with enqueue, push, dequeue, pop and remove, the       *)
(* pointers of the four lists represent sequences of nodes that share no   *)
(* node, and a node in no list points nowhere.                             *)
(***************************************************************************)
THEOREM ListsAlwaysRepresent == ListsSpec => []ListsIInv
<1>1. ListsInit => ListsIInv
  BY InitRepresents
<1>2. ListsIInv /\ [ListsNext]_listsVars => ListsIInv'
  BY ListsStep, ListsStutter
<1> QED
  BY <1>1, <1>2, PTL DEF ListsSpec

(***************************************************************************)
(* Theorem ListsAlwaysWellLinked.  head, tail, size, next and prev of      *)
(* every list fit together after every operation, for any number of nodes  *)
(* (linked_list.c: enqueue to remove).                                     *)
(***************************************************************************)
THEOREM ListsAlwaysWellLinked == ListsSpec => []WellLinked
<1>1. ListsIInv => WellLinked
  BY RepresentedIsWellLinked
<1> QED
  BY <1>1, ListsAlwaysRepresent, PTL

(***************************************************************************)
(* Theorem ListsAreQueues.  The lists behave as the queues that the other  *)
(* modules take them for; the walk of check_delay along a list that it     *)
(* relinks wakes the first sleeper that is due and counts down no node     *)
(* behind it, and unblock_all keeps the order of those it wakes.           *)
(***************************************************************************)
THEOREM ListsAreQueues == ListsSpec => ImplementsNodeQueues
<1>1. ListsInit => ListsIInv /\ Queues!Init
  <2> SUFFICES ASSUME ListsInit PROVE ListsIInv /\ Queues!Init
    OBVIOUS
  <2>1. ListsIInv /\ [l \in List |-> Reached(links, l)] = [l \in List |-> << >>]
    BY InitRepresents DEF Seqs
  <2>2. code = [n \in Node |-> -1]
    BY DEF ListsInit
  <2> QED
    BY <2>1, <2>2 DEF Queues!Init
<1>2. ListsIInv /\ [ListsNext]_listsVars => ListsIInv' /\ [Queues!Next]_(Queues!vars)
  BY ListsStep, ListsStutter
<1> QED
  BY <1>1, <1>2, PTL DEF ListsSpec, ImplementsNodeQueues, Queues!Spec

=============================================================================
