------------------------------ MODULE FrameTable ------------------------------
(***************************************************************************)
(* The allocator of physical frames (ksrc/memory.c): get_frame and         *)
(* vacate_frame on free_frame_t.  The bit vector is an array of cells of   *)
(* CellSize bits, a cell being given as the set of its bits that are 1.    *)
(* Frame numbers count from BASE_FRAME.                                    *)
(***************************************************************************)
EXTENDS Integers, FiniteSets

CONSTANTS
  TableSize,  \* free_frame.size
  CellSize,   \* CELL_SIZE
  NoFrame     \* ERROR

ASSUME FrameTableAssumption ==
  /\ TableSize \in Nat
  /\ CellSize \in Nat \ {0}
  /\ NoFrame \notin 0..TableSize

VARIABLE free_frame  \* bit_vector, avail_pfn (the next to hand out), filled

Frame == 0..(TableSize - 1)
Cell == 0..(TableSize \div CellSize)

FrameTableType ==
  [bit_vector : [Cell -> SUBSET (0..(CellSize - 1))],
   avail_pfn : 0..TableSize, filled : 0..TableSize]

(***************************************************************************)
(* KernelStart, which allocates one cell more than TableSize fills.        *)
(***************************************************************************)
FrameTableInit ==
  free_frame = [bit_vector |-> [c \in Cell |-> {}], avail_pfn |-> 0, filled |-> 0]

get_bit(bits, index) == index % CellSize \in bits[index \div CellSize]

set_bit(bits, index, bit) ==
  [bits EXCEPT ![index \div CellSize] =
     IF bit = 1 THEN @ \cup {index % CellSize} ELSE @ \ {index % CellSize}]

(***************************************************************************)
(* Fault: the frame behind the one handed out is taken for free.           *)
(***************************************************************************)
NextFreeFollowing(bits, pfn) == pfn + 1

(***************************************************************************)
(* The scan of get_frame from pfn on: it stops at the first 0 bit, at the  *)
(* latest at TableSize.                                                    *)
(***************************************************************************)
NextFree(bits, pfn) ==
  CHOOSE n \in pfn..TableSize :
    /\ n = TableSize \/ ~get_bit(bits, n)
    /\ \A k \in pfn..(n - 1) : get_bit(bits, k)

(***************************************************************************)
(* get_frame on the table ff, of frame pfn (FIXED) or of the one that is   *)
(* assigned automatically: what it returns, and the table it leaves.       *)
(***************************************************************************)
AutoAssigned(ff) == ff.avail_pfn
Got(ff, pfn) == IF ff.filled >= TableSize THEN NoFrame ELSE pfn

get_frame(ff, pfn) ==
  LET bits == set_bit(ff.bit_vector, pfn, 1) IN
  IF ff.filled >= TableSize THEN ff
  ELSE [bit_vector |-> bits, filled |-> ff.filled + 1,
        avail_pfn |-> IF pfn = ff.avail_pfn THEN NextFree(bits, pfn) ELSE ff.avail_pfn]

(***************************************************************************)
(* Fault: vacate_frame leaves avail_pfn alone.                             *)
(***************************************************************************)
AvailAfterVacateKept(ff, pfn) == ff.avail_pfn

AvailAfterVacate(ff, pfn) == IF pfn < ff.avail_pfn THEN pfn ELSE ff.avail_pfn

vacate_frame(ff, pfn) ==
  [bit_vector |-> set_bit(ff.bit_vector, pfn, 0), filled |-> ff.filled - 1,
   avail_pfn |-> AvailAfterVacate(ff, pfn)]

FreeIn(ff) == {f \in Frame : ~get_bit(ff.bit_vector, f)}
FreeFrames == FreeIn(free_frame)

=============================================================================
