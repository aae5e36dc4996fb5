------------------------------ MODULE KernelHeap ------------------------------
(***************************************************************************)
(* The kernel's own pages: VM_setup of ksrc/kernel.c, which maps region 0  *)
(* before virtual memory is enabled, SetKernelBrk, which malloc calls      *)
(* before and after, and the page below the kernel stack through which     *)
(* frames are copied, all on the frame table of FrameTable.                *)
(*                                                                         *)
(* Addresses are in units of 1/PageSize of a page.  User space takes and   *)
(* gives back frames one by one; who may do so, and that enough are left,  *)
(* is the matter of Memory.  The entries of the kernel stack are those of  *)
(* boot, which belong to init: KCSwitch exchanges them (ContextSwitch).    *)
(***************************************************************************)
EXTENDS FrameTable, Functions

CONSTANTS
  Pages,      \* NUM_PAGES_0
  PageSize,   \* addresses told apart in a page
  TextPages,  \* the pages below _kernel_data_start
  DataEnd,    \* _kernel_data_end
  OrigBrk,    \* _kernel_orig_brk
  KStackPage  \* BASE_PAGE_KSTACK

ASSUME KernelHeapAssumption ==
  /\ {Pages, PageSize, TextPages, DataEnd, OrigBrk, KStackPage} \subseteq Nat \ {0}
  /\ TextPages * PageSize <= DataEnd /\ DataEnd <= OrigBrk
  /\ OrigBrk < (KStackPage - 1) * PageSize
  /\ KStackPage < Pages /\ Pages <= TableSize

VARIABLES
  vm,    \* REG_VM_ENABLE
  pt,    \* kernel_pt.pt: the valid entries
  brk,   \* kernel_pt.brk
  users  \* the frames in entries of user page tables and kernel stacks

heapVars == <<free_frame, vm, pt, brk, users>>

Page == 0..(Pages - 1)

HeapTypeOK ==
  /\ free_frame \in FrameTableType
  /\ vm \in BOOLEAN
  /\ DOMAIN pt \subseteq Page /\ Range(pt) \subseteq Frame
  /\ brk \in Nat
  /\ users \subseteq Frame

-----------------------------------------------------------------------------
HeapInit ==
  /\ FrameTableInit
  /\ vm = FALSE
  /\ pt = <<>>
  /\ brk = OrigBrk
  /\ users = {}

UpToPage(addr) == ((addr + PageSize - 1) \div PageSize) * PageSize

(***************************************************************************)
(* One round of a loop that maps pages, with the frame of the page's own   *)
(* number (FIXED) or with any, and of one that takes pages away.           *)
(***************************************************************************)
Mapped(m, vpn, pfn) ==
  [ff |-> get_frame(m.ff, pfn),
   pt |-> [v \in DOMAIN m.pt \cup {vpn} |-> IF v = vpn THEN Got(m.ff, pfn) ELSE m.pt[v]]]

MapFixed(m, vpn) == Mapped(m, vpn, vpn)
MapAuto(m, vpn) == Mapped(m, vpn, AutoAssigned(m.ff))

Unmapped(entries, vpn) == Restrict(entries, DOMAIN entries \ {vpn})
Unmap(m, vpn) == [ff |-> vacate_frame(m.ff, m.pt[vpn]), pt |-> Unmapped(m.pt, vpn)]

Table0 == [ff |-> free_frame, pt |-> pt]
Becomes(m) == free_frame' = m.ff /\ pt' = m.pt

(***************************************************************************)
(* VM_setup: text, data and heap up to the page that holds the address     *)
(* brk, and the kernel stack.                                              *)
(***************************************************************************)
MappedAtBoot(vpn) == vpn < TextPages \/ vpn <= brk \div PageSize \/ vpn >= KStackPage

Booted(m) ==
  LET after[k \in 0..Pages] ==
        IF k = 0 THEN m
        ELSE IF MappedAtBoot(k - 1) THEN MapFixed(after[k - 1], k - 1) ELSE after[k - 1]
  IN  after[Pages]

VM_setup ==
  /\ ~vm
  /\ vm' = TRUE
  /\ Becomes(Booted(Table0))
  /\ UNCHANGED <<brk, users>>

(***************************************************************************)
(* Fault: SetKernelBrk takes the page behind the new break for the last    *)
(* one to be used.                                                         *)
(***************************************************************************)
NextBrkVpnBehind(addr) == UpToPage(addr) \div PageSize

(***************************************************************************)
(* The greatest page in use, and the greatest to be used, of SetKernelBrk. *)
(***************************************************************************)
CurrBrkVpn == UpToPage(brk) \div PageSize - 1
NextBrkVpn(addr) == UpToPage(addr) \div PageSize - 1

(***************************************************************************)
(* Fault: the heap may use the page below the kernel stack.                *)
(***************************************************************************)
BrkAllowedToKStack(addr) ==
  addr >= UpToPage(DataEnd) /\ addr <= KStackPage * PageSize

(***************************************************************************)
(* The test of SetKernelBrk.                                               *)
(***************************************************************************)
BrkAllowed(addr) ==
  addr >= UpToPage(DataEnd) /\ addr < KStackPage * PageSize - PageSize

(***************************************************************************)
(* Its loops: n pages are mapped behind last, n pages up to last unmapped. *)
(***************************************************************************)
Grown(m, last, n) ==
  LET after[k \in 0..n] == IF k = 0 THEN m ELSE MapAuto(after[k - 1], last + k)
  IN  after[n]

Shrunk(m, last, n) ==
  LET after[k \in 0..n] == IF k = 0 THEN m ELSE Unmap(after[k - 1], last - (k - 1))
  IN  after[n]

(***************************************************************************)
(* SetKernelBrk, as long as there are frames: the callers compare with     *)
(* frames_left first, and where they do not is shown in Memory.            *)
(***************************************************************************)
SetKernelBrk(addr) ==
  LET more == NextBrkVpn(addr) - CurrBrkVpn
  IN  /\ BrkAllowed(addr)
      /\ brk' = UpToPage(addr)
      /\ UNCHANGED <<vm, users>>
      /\ \/ ~vm /\ UNCHANGED <<free_frame, pt>>
         \/ /\ vm /\ more >= 0 /\ more <= Cardinality(FreeFrames)
            /\ Becomes(Grown(Table0, CurrBrkVpn, more))
         \/ /\ vm /\ more < 0
            /\ Becomes(Shrunk(Table0, CurrBrkVpn, -more))

(***************************************************************************)
(* A frame for a user page (UserBrk, the user stack, LoadProgram), one     *)
(* that copy_user_mem or KCCopy fills through the page dummy, and one that *)
(* a user page or a kernel stack gives back.                               *)
(***************************************************************************)
dummy == KStackPage - 1

GetForUser ==
  /\ vm /\ FreeFrames # {}
  /\ users' = users \cup {AutoAssigned(free_frame)}
  /\ free_frame' = get_frame(free_frame, AutoAssigned(free_frame))
  /\ UNCHANGED <<vm, pt, brk>>

CopyThroughDummy ==
  /\ vm /\ FreeFrames # {}
  /\ LET m == MapAuto(Table0, dummy)
     IN  /\ free_frame' = m.ff
         /\ users' = users \cup {m.pt[dummy]}
         /\ pt' = Unmapped(m.pt, dummy)
  /\ UNCHANGED <<vm, brk>>

VacateOfUser ==
  /\ \E f \in users : users' = users \ {f} /\ free_frame' = vacate_frame(free_frame, f)
  /\ UNCHANGED <<vm, pt, brk>>

HeapNext ==
  \/ VM_setup
  \/ \E addr \in 0..(KStackPage * PageSize) : SetKernelBrk(addr)
  \/ GetForUser
  \/ CopyThroughDummy
  \/ VacateOfUser

HeapSpec == HeapInit /\ [][HeapNext]_heapVars

-----------------------------------------------------------------------------
(***************************************************************************)
(* The three parts of free_frame_t agree: filled counts the bits, and      *)
(* avail_pfn is the first free frame (TableSize when there is none), so    *)
(* that get_frame never hands out a frame twice, which no line of it       *)
(* checks.                                                                 *)
(***************************************************************************)
FrameTableAgrees ==
  /\ HeapTypeOK
  /\ free_frame.filled = TableSize - Cardinality(FreeFrames)
  /\ \A f \in FreeFrames : free_frame.avail_pfn <= f
  /\ free_frame.avail_pfn \in FreeFrames \cup {TableSize}

(***************************************************************************)
(* A frame in use is in one entry, of the kernel's table or of a user's.   *)
(* VM_setup maps one page more than SetKernelBrk counts, so that one frame *)
(* may be overwritten and lost -- never a second one, however the heap     *)
(* grows and shrinks.                                                      *)
(***************************************************************************)
Lost == Frame \ (FreeFrames \cup users \cup Range(pt))

AtMostOneFrameIsLost ==
  /\ users \cap Range(pt) = {} /\ (users \cup Range(pt)) \cap FreeFrames = {}
  /\ IsInjective(pt)
  /\ vm => Cardinality(Lost) <= 1

(***************************************************************************)
(* Every page below the break, and of the kernel stack, is mapped: no copy *)
(* through dummy takes a page of the heap away, and shrinking the heap     *)
(* stops in time.                                                          *)
(***************************************************************************)
HeapIsMapped == vm => (0..CurrBrkVpn) \cup (KStackPage..(Pages - 1)) \subseteq DOMAIN pt

Pool == INSTANCE FramePool WITH free <- FreeFrames, user <- users

(***************************************************************************)
(* The allocator keeps the promise of FramePool: "Gets a free physical     *)
(* frame, marks it as occupied, and returns the frame #" (memory.h).       *)
(***************************************************************************)
ImplementsFramePool == Pool!Spec

=============================================================================
