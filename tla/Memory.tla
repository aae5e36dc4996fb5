-------------------------------- MODULE Memory --------------------------------
(***************************************************************************)
(* Who maps which physical frame: the page tables of ksrc/memory.c, the    *)
(* copies made by Fork (process_copy, copy_kernel), UserBrk, the growth of *)
(* the user stack in TrapMemory, the address space that LoadProgram builds *)
(* and the kernel heap.                                                    *)
(*                                                                         *)
(* The allocator is FramePool, which KernelHeap implements: a set of free  *)
(* frames, of which frames_left counts the members.  The frames that       *)
(* VM_setup and idle_setup take at boot are not members of Frame, and the  *)
(* kernel heap counts from the break at which init is loaded.              *)
(*                                                                         *)
(* Any live process may run next, and Exit and Wait may destroy any        *)
(* terminated processes: which ones is the matter of ProcTable.            *)
(*                                                                         *)
(* Addresses count from VMEM_1_BASE, in units of 1/PageSize of a page;     *)
(* brk, data_end and stack_low are page-aligned and given as pages.        *)
(***************************************************************************)
EXTENDS Integers, FiniteSets, Functions

CONSTANTS
  Proc,      \* the memory of one process each
  InitProc,  \* init, whose exit halts the machine
  Frame,     \* the numbers of the frames left after boot
  Pages,     \* MAX_PT_LEN: the pages of region 1
  PageSize,  \* addresses told apart in a page
  KStack,    \* NUM_KSTACK_PAGES
  MaxHeap,   \* the pages by which the kernel heap may grow
  Image,     \* the executables: their text, data and stack pages
  Boot,      \* the executable of init
  NoFrame    \* ERROR, from get_frame

ASSUME MemoryAssumption ==
  /\ InitProc \in Proc
  /\ Frame \subseteq Nat /\ IsFiniteSet(Frame)
  /\ MaxHeap \in Nat
  /\ {Pages, PageSize, KStack} \subseteq Nat \ {0}
  /\ Image \subseteq [text : 1..Pages, data : 1..Pages, stack : 1..Pages]
  /\ Boot \in Image
  /\ Boot.text + Boot.data + Boot.stack < Pages
  /\ Boot.text + Boot.data + Boot.stack <= Cardinality(Frame)
  /\ NoFrame \notin Nat

VARIABLES
  status,     \* free memory, live process, or terminated and not destroyed
  free,       \* the frames whose bit in free_frame.bit_vector is 0
  userpt,     \* pcb->userpt: the valid entries, brk, data_end, stack_low, size
  kstack,     \* pcb->kstack: the frames of the kernel stack
  heap,       \* kernel_pt: the frames of the kernel heap, up to kernel_pt.brk
  outOfRange  \* the kernel went through an entry that names no frame

vars == <<status, free, userpt, kstack, heap, outOfRange>>

RW == {"read", "write"}
RX == {"read", "exec"}

Entry == [pfn : Frame \cup {NoFrame}, prot : {RW, RX}]

UserPtOK(u) ==
  /\ DOMAIN u.pt \subseteq 0..(Pages - 1)
  /\ \A v \in DOMAIN u.pt : u.pt[v] \in Entry
  /\ {u.brk, u.data_end, u.stack_low} \subseteq 0..Pages
  /\ u.size \in Int

TypeOK ==
  /\ status \in [Proc -> {"free", "alive", "defunct"}]
  /\ free \subseteq Frame
  /\ \A p \in Proc : UserPtOK(userpt[p]) /\ kstack[p] \subseteq Frame \cup {NoFrame}
  /\ DOMAIN heap \subseteq 0..(MaxHeap - 1) /\ Range(heap) \subseteq Frame \cup {NoFrame}
  /\ outOfRange \in BOOLEAN

-----------------------------------------------------------------------------
UpToPage(addr) == (addr + PageSize - 1) \div PageSize
DownToPage(addr) == addr \div PageSize

frames_left == Cardinality(free)

(***************************************************************************)
(* get_frame once for each member of pages, ascending, while fr is free:   *)
(* the page before which n others were served gets the frame below which   *)
(* n others are free (avail_pfn), or ERROR.  No caller looks at the result *)
(* before it puts it into the entry.  (TrapMemory visits the pages from    *)
(* the top; no property tells which page has which of the frames.)         *)
(***************************************************************************)
RankOf(x, S) == Cardinality({y \in S : y < x})

GetFrames(pages, fr) ==
  [v \in pages |->
     LET rank == RankOf(v, pages)
     IN  IF \E f \in fr : RankOf(f, fr) = rank
         THEN CHOOSE f \in fr : RankOf(f, fr) = rank
         ELSE NoFrame]

(***************************************************************************)
(* The entries of pages with new frames, over the table pt.                *)
(***************************************************************************)
Entries(frames, prot) ==
  [v \in DOMAIN frames |-> [pfn |-> frames[v], prot |-> prot[v]]]
Writable(frames) == Entries(frames, [v \in DOMAIN frames |-> RW])
Without(pt, pages) == Restrict(pt, DOMAIN pt \ pages)
With(pt, entries) ==
  [v \in DOMAIN pt \cup DOMAIN entries |->
     IF v \in DOMAIN entries THEN entries[v] ELSE pt[v]]

FramesOf(pt) == {pt[v].pfn : v \in DOMAIN pt}

(***************************************************************************)
(* new_user_pt; LoadProgram when it has mapped the pages of an executable, *)
(* text and data from the bottom, the stack at the top of region 1.        *)
(***************************************************************************)
new_user_pt == [pt |-> <<>>, brk |-> 0, data_end |-> 0, stack_low |-> 0, size |-> 0]

PagesOf(li) == 0..(li.text + li.data - 1) \cup (Pages - li.stack)..(Pages - 1)
Needs(li) == li.text + li.data + li.stack

Loaded(li, frames) ==
  [pt |-> Entries(frames, [v \in DOMAIN frames |-> IF v < li.text THEN RX ELSE RW]),
   brk |-> li.text + li.data, data_end |-> li.text + li.data - 1,
   stack_low |-> Pages - li.stack, size |-> Needs(li)]

(***************************************************************************)
(* init_load.  The kernel stack of init keeps the frames of the boot.      *)
(***************************************************************************)
Init ==
  /\ status = [p \in Proc |-> IF p = InitProc THEN "alive" ELSE "free"]
  /\ LET frames == GetFrames(PagesOf(Boot), Frame)
     IN  /\ free = Frame \ Range(frames)
         /\ userpt = [p \in Proc |-> IF p = InitProc THEN Loaded(Boot, frames)
                                                     ELSE new_user_pt]
  /\ kstack = [p \in Proc |-> {}]
  /\ heap = <<>>
  /\ outOfRange = FALSE

-----------------------------------------------------------------------------
(***************************************************************************)
(* The kernel heap.  malloc is external; when it needs more, it moves the  *)
(* kernel break up, and SetKernelBrk maps every page below it in one loop. *)
(* A call that allocates a few small structures gets by with one new page; *)
(* the argument buffer of Exec may take any number of them.  (A break past *)
(* the limit of SetKernelBrk makes malloc and with it Exec fail: nothing   *)
(* that is kept here changes.)                                             *)
(***************************************************************************)
no_kernel_memory(left) == frames_left < left \/ Cardinality(DOMAIN heap) >= MaxHeap

NewHeapPages(most) ==
  LET brk == Cardinality(DOMAIN heap)
  IN  {brk..(next - 1) : next \in {n \in brk..MaxHeap : n <= brk + most}}

(***************************************************************************)
(* Fault: Fork asks for the frames of the pages only.                      *)
(***************************************************************************)
ForkNeedsPages(p) == userpt[p].size

(***************************************************************************)
(* What KernelFork asks for: its size field, two pages for the kernel      *)
(* stack of the child and one for malloc.                                  *)
(***************************************************************************)
ForkNeeds(p) == userpt[p].size + 3

(***************************************************************************)
(* copy_user_mem: every field but size, and the pages in new frames.       *)
(***************************************************************************)
CopyOf(p, frames) ==
  [userpt[p] EXCEPT !.size = new_user_pt.size,
                    !.pt = Entries(frames, [v \in DOMAIN frames |-> userpt[p].pt[v].prot])]

(***************************************************************************)
(* KernelFork: process_init allocates, then the user memory is copied page *)
(* by page through a window of the kernel, then the kernel stack.          *)
(***************************************************************************)
KernelFork(p) ==
  /\ ~no_kernel_memory(ForkNeeds(p))
  /\ \E c \in Proc, grown \in NewHeapPages(1) :
       LET h == GetFrames(grown, free)
           u == GetFrames(DOMAIN userpt[p].pt, free \ Range(h))
           k == GetFrames(0..(KStack - 1), free \ (Range(h) \cup Range(u)))
           taken == Range(h) \cup Range(u) \cup Range(k)
       IN  /\ status[c] = "free"
           /\ status' = [status EXCEPT ![c] = "alive"]
           /\ free' = free \ taken
           /\ heap' = With(heap, h)
           /\ userpt' = [userpt EXCEPT ![c] = CopyOf(p, u)]
           /\ kstack' = [kstack EXCEPT ![c] = Range(k)]
           /\ outOfRange' = (NoFrame \in taken)

(***************************************************************************)
(* process_destroy of every member of dead: destroy_kstack.                *)
(***************************************************************************)
KStacksOf(dead) == UNION {kstack[q] : q \in dead}

Destroy(dead, st) == [q \in Proc |-> IF q \in dead THEN "free" ELSE st[q]]

Defunct == {q \in Proc : status[q] = "defunct"}

(***************************************************************************)
(* Fault: a process gives its own kernel stack back when it exits.         *)
(***************************************************************************)
VacatedByExitOwnStack(p, dead) == FramesOf(userpt[p].pt) \cup KStacksOf(dead \cup {p})

(***************************************************************************)
(* The frames that KernelExit gives back: those of the user memory, and    *)
(* the kernel stacks of the processes that it destroys.                    *)
(***************************************************************************)
VacatedByExit(p, dead) == FramesOf(userpt[p].pt) \cup KStacksOf(dead)

(***************************************************************************)
(* KernelExit, also of a process that is aborted.  The exit of init ends   *)
(* the run.                                                                *)
(***************************************************************************)
KernelExit(p) ==
  /\ p # InitProc
  /\ \E dead \in SUBSET Defunct :
       /\ free' = free \cup VacatedByExit(p, dead)
       /\ status' = [Destroy(dead, status) EXCEPT ![p] = "defunct"]
       /\ userpt' = [userpt EXCEPT ![p].pt = <<>>]
       /\ kstack' = [q \in Proc |-> IF q \in dead THEN {} ELSE kstack[q]]
  /\ UNCHANGED <<heap, outOfRange>>

(***************************************************************************)
(* KernelWait with a child to collect.                                     *)
(***************************************************************************)
KernelWait ==
  /\ \E dead \in SUBSET Defunct \ {{}} :
       /\ free' = free \cup KStacksOf(dead)
       /\ status' = Destroy(dead, status)
       /\ kstack' = [q \in Proc |-> IF q \in dead THEN {} ELSE kstack[q]]
  /\ UNCHANGED <<userpt, heap, outOfRange>>

(***************************************************************************)
(* Fault: UserBrk does not keep a page between the break and the stack.    *)
(***************************************************************************)
BrkLimitAtStack(p) == userpt[p].stack_low * PageSize + 1

(***************************************************************************)
(* The first address that UserBrk refuses.                                 *)
(***************************************************************************)
BrkLimit(p) == (userpt[p].stack_low - 1) * PageSize

(***************************************************************************)
(* KernelUserBrk.                                                          *)
(***************************************************************************)
KernelUserBrk(p, addr) ==
  LET u == userpt[p]
      next == UpToPage(addr)
      grown == u.brk..(next - 1)
      shrunk == next..(u.brk - 1)
      frames == GetFrames(grown, free)
  IN  /\ addr < BrkLimit(p) /\ addr >= u.data_end * PageSize
      /\ next - u.brk <= frames_left
      /\ free' = (free \ Range(frames)) \cup {u.pt[v].pfn : v \in shrunk}
      /\ userpt' = [userpt EXCEPT ![p] =
           [u EXCEPT !.pt = With(Without(@, shrunk), Writable(frames)),
                     !.size = @ + next - u.brk,
                     !.brk = next]]
      /\ outOfRange' = (NoFrame \in Range(frames))
      /\ UNCHANGED <<status, kstack, heap>>

(***************************************************************************)
(* The first address to which TrapMemory lets the stack grow.              *)
(***************************************************************************)
StackLimit(p) == (userpt[p].brk + 1) * PageSize

(***************************************************************************)
(* TrapMemory: the stack grows down to the page of addr, or the process is *)
(* aborted.                                                                *)
(***************************************************************************)
GrowStack(p, addr) ==
  LET u == userpt[p]
      next == DownToPage(addr)
      frames == GetFrames(next..(u.stack_low - 1), free)
  IN  /\ free' = free \ Range(frames)
      /\ userpt' = [userpt EXCEPT ![p] =
           [u EXCEPT !.pt = With(@, Writable(frames)),
                     !.size = @ + u.stack_low - next,
                     !.stack_low = next]]
      /\ outOfRange' = (NoFrame \in Range(frames))
      /\ UNCHANGED <<status, kstack, heap>>

TrapMemory(p, addr) ==
  \/ /\ addr >= StackLimit(p) /\ addr <= userpt[p].stack_low * PageSize
     /\ userpt[p].stack_low - DownToPage(addr) <= frames_left
     /\ GrowStack(p, addr)
  \/ /\ \/ addr < StackLimit(p) \/ addr > userpt[p].stack_low * PageSize
        \/ userpt[p].stack_low - DownToPage(addr) > frames_left
     /\ KernelExit(p)

(***************************************************************************)
(* "leave at least one page between heap and stack".                       *)
(***************************************************************************)
Fits(li) == li.stack + li.text + li.data < Pages

(***************************************************************************)
(* KernelExec of an executable that fits into region 1: LoadProgram copies *)
(* the arguments into the kernel heap, for which it does not compare the   *)
(* pages with frames_left, gives the old memory back and takes the new.    *)
(* It then has the process killed if there are too few frames, or if the   *)
(* file (external) cannot be read.                                         *)
(***************************************************************************)
KernelExec(p, li) ==
  /\ Fits(li)
  /\ \E grown \in NewHeapPages(MaxHeap) :
       LET h == GetFrames(grown, free)
           rest == (free \ Range(h)) \cup FramesOf(userpt[p].pt)
           frames == GetFrames(PagesOf(li), rest)
       IN  /\ heap' = With(heap, h)
           /\ \/ /\ Needs(li) <= Cardinality(rest)
                 /\ free' = rest \ Range(frames)
                 /\ userpt' = [userpt EXCEPT ![p] = Loaded(li, frames)]
                 /\ outOfRange' = (NoFrame \in Range(h) \cup Range(frames))
                 /\ UNCHANGED <<status, kstack>>
              \/ /\ p # InitProc
                 /\ \E dead \in SUBSET Defunct :
                      /\ free' = rest \cup KStacksOf(dead)
                      /\ status' = [Destroy(dead, status) EXCEPT ![p] = "defunct"]
                      /\ kstack' = [q \in Proc |-> IF q \in dead THEN {} ELSE kstack[q]]
                 /\ userpt' = [userpt EXCEPT ![p].pt = <<>>]
                 /\ outOfRange' = (NoFrame \in Range(h))

(***************************************************************************)
(* The calls that create a pipe (KernelPipeInit), a lock or a cvar (the    *)
(* same lines again) allocate too, and those that destroy one may let      *)
(* malloc (external) move the kernel break down, here page by page.        *)
(***************************************************************************)
CreateObject ==
  /\ ~no_kernel_memory(1)
  /\ \E grown \in NewHeapPages(1) :
       LET h == GetFrames(grown, free)
       IN  /\ free' = free \ Range(h)
           /\ heap' = With(heap, h)
           /\ outOfRange' = (NoFrame \in Range(h))
  /\ UNCHANGED <<status, userpt, kstack>>

KernelReclaim ==
  /\ DOMAIN heap # {}
  /\ LET top == Cardinality(DOMAIN heap) - 1
     IN  /\ free' = free \cup {heap[top]}
         /\ heap' = Without(heap, {top})
  /\ UNCHANGED <<status, userpt, kstack, outOfRange>>

Addresses == 0..(Pages * PageSize - 1)

Next ==
  /\ ~outOfRange
  /\ \/ CreateObject \/ KernelReclaim
     \/ KernelWait
     \/ \E p \in Proc :
          /\ status[p] = "alive"
          /\ \/ KernelFork(p)
             \/ KernelExit(p)
             \/ \E addr \in Addresses : KernelUserBrk(p, addr) \/ TrapMemory(p, addr)
             \/ \E li \in Image : KernelExec(p, li)

Spec == Init /\ [][Next]_vars

-----------------------------------------------------------------------------
(***************************************************************************)
(* Every frame is free or belongs to one page of one table: none is lost   *)
(* by a handler that gives some frames back and takes others, none is in   *)
(* two address spaces or used as a kernel stack by two processes.  A       *)
(* process keeps its whole kernel stack until somebody else destroys it.   *)
(***************************************************************************)
Owners(f) ==
  (UNION {{<<p, v>> : v \in {w \in DOMAIN userpt[p].pt : userpt[p].pt[w].pfn = f}} :
            p \in Proc})
  \cup {<<p, "kstack">> : p \in {q \in Proc : f \in kstack[q]}}
  \cup {<<n, "heap">> : n \in {m \in DOMAIN heap : heap[m] = f}}

KernelStackIsWhole ==
  \A p \in Proc \ {InitProc} :
    Cardinality(kstack[p]) = IF status[p] = "free" THEN 0 ELSE KStack

EveryFrameHasOneOwner ==
  /\ TypeOK
  /\ \A f \in Frame : Cardinality(Owners(f)) = IF f \in free THEN 0 ELSE 1
  /\ outOfRange \/ KernelStackIsWhole

(***************************************************************************)
(* The valid pages of a live process are those below the break and those   *)
(* from stack_low up, with an invalid page between them that stops a stack *)
(* overflow: whatever UserBrk, stack growth, Exec and Fork do in turn.     *)
(***************************************************************************)
RedZone ==
  \A p \in Proc :
    LET u == userpt[p]
    IN  status[p] = "alive" =>
          /\ DOMAIN u.pt = 0..(u.brk - 1) \cup u.stack_low..(Pages - 1)
          /\ u.data_end <= u.brk /\ u.brk < u.stack_low

(***************************************************************************)
(* The comparisons with frames_left that precede get_frame are enough,     *)
(* except in two cases: Fork by a process whose size field understates its *)
(* pages, and Exec with arguments that need more new pages of the kernel   *)
(* heap than there are frames left, which nothing compares.  (The new      *)
(* memory of an Exec whose arguments have found room is never short.)      *)
(***************************************************************************)
RunsOutInTwoCases ==
  ~outOfRange /\ outOfRange' =>
    \E p \in Proc :
      \/ KernelFork(p) /\ userpt[p].size < Cardinality(DOMAIN userpt[p].pt)
      \/ /\ \E li \in Image : KernelExec(p, li)
         /\ frames_left < Cardinality(DOMAIN heap' \ DOMAIN heap)

ChecksSuffice == [][RunsOutInTwoCases]_vars

-----------------------------------------------------------------------------
(***************************************************************************)
(* Statements of the headers that the code does not keep.                  *)
(*                                                                         *)
(* KernelFork: "ERROR if no memory left for forking" (syscalls.h); so one  *)
(* that goes on finds the frames it needs.                                 *)
(***************************************************************************)
ForkHasMemory == \A p \in Proc : KernelFork(p) => ~outOfRange'

ForkFailsWithoutMemory == [][ForkHasMemory]_vars

(***************************************************************************)
(* check_addr "returns whether the addr has the specified prot protection" *)
(* (memory.h).  The code compares "p.prot == PROT_READ|PROT_WRITE", which  *)
(* is (p.prot == PROT_READ)|PROT_WRITE and never 0.                        *)
(***************************************************************************)
check_addr(p, addr, prot) == DownToPage(addr) \in DOMAIN userpt[p].pt

CheckAddrKnowsProtection ==
  \A p \in Proc, addr \in Addresses, prot \in {"read", "write"} :
    check_addr(p, addr, prot) => prot \in userpt[p].pt[DownToPage(addr)].prot

=============================================================================
