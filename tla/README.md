# A verification project for the Yalnix kernel

Yalnix is a small teaching kernel (`src/ksrc`, C) for a simulated machine with
one processor, two regions of virtual memory, a clock and four terminals.  It
implements processes with round-robin scheduling, demand growth of stack and
heap, terminals, pipes, locks and condition variables.  This directory holds
TLA+ modules translated from that code, the TLC configurations that check them
and TLAPS proofs about them.

    tlc -config ProcTable_safety.cfg MCProcTable.tla      # any run: MC<Module>, <run>.cfg
    tlapm ProcTableProofs.tla                             # the proofs about a module: <Module>Proofs, or
                                                          # KernelDataProofs (RingBuffer, KernelHeap, LinkedList)

`PROJECT.json` lists the runs, the mutants, the lines of source that each
definition stands for, the hazards, the findings and the theorems.

## 1. Inventory of the system

What makes the kernel hard is not parallelism: there is one processor, and no
trap is taken while kernel code runs.  The difficulty is in what a handler
finds when it *continues*: a system call that blocks leaves its frames on its
kernel stack, the machine switches to another process, and when the call goes
on every list, counter and pointer may have changed, and memory it points to may
have been freed and handed out again.

| component | source | state | operations | hard behaviour |
|---|---|---|---|---|
| scheduler | `scheduling.c` | `procs->running`, lists `ready`, `waiting`, `delayed`, `orphans` | `ready`, `run_next_ready`, `rr_preempt`, `block`, `h_block`, `unblock*`, `check_delay`, `graveyard`, `reap_orphans` | one list node per process shared by all lists; a list is changed while it is walked |
| processes | `process.c`, `syscalls.c` | pcb: `parent`, `a_children`, `d_children`, exit code in `node->code` | `Fork`, `Exit`, `Wait`, `Delay`, `GetPid` | exits racing with `Wait`, freed and reused memory, who frees whom |
| locks, condition variables | `pilocvario.c`, `syscalls.c` | `owner`, `blocked`, `unfulfilled`, `cvar`; waiting list of a cvar | `LockInit`, `Acquire`, `Release`, `CvarInit`, `CvarWait`, `CvarSignal`, `CvarBroadcast`, `Reclaim` | Mesa-style barging, wake-ups, destruction while somebody is on the way back |
| pipes | `pilocvario.c` | ring buffer, two waiting lists, `unfulfilled` | `PipeInit`, `PipeRead`, `PipeWrite`, `Reclaim` | partial writes, readers and writers waking each other |
| terminals | `pilocvario.c`, `traps.c` | `transmitting`, output waiting list, input buffer and waiting list | `TtyRead`, `TtyWrite`, receive and transmit traps | writers overtaking each other, the device finishing late |
| ring buffer | `pilocvario.c` | `head`, `tail`, `filled`, array | `write_buffer`, `read_buffer`, `reset_buffer` | wrap-around, full and empty look alike |
| frame allocator | `memory.c` | bit vector, `avail_pfn`, `filled` | `get_frame`, `vacate_frame` | a cached index trusted without a test |
| address spaces | `memory.c`, `traps.c`, `syscalls.c`, `load.c`, `cswitch.c` | user page tables, `brk`, `stack_low`, `size`, kernel stacks, kernel heap | `Fork`, `Exec`, `Exit`, `UserBrk`, stack growth, `SetKernelBrk` | errors of `get_frame` that nobody looks at, give-back on every path |
| kernel heap | `kernel.c`, `memory.c` | `kernel_pt.pt`, `kernel_pt.brk` | `VM_setup`, `SetKernelBrk`, copies through the page below the kernel stack | counts pages one way before and another way after virtual memory is enabled |
| linked lists | `linked_list.c` | nodes with one `next` and one `prev` for all lists | `enqueue`, `push`, `dequeue`, `pop`, `remove`, `has_member`, `find` | lists relinked while they are walked |
| context switch, trap entry and exit | `cswitch.c`, `traps.c` | `pcb->uc`, `pcb->kc`, kernel stacks, mapped stack, PTBR1 | `save_uc`, `add_return_val`, `restore_uc`, `KCSwitch`, `KCCopy` | a handler goes on, on its old frames, in a machine that has been elsewhere; Fork returns twice |
| boot | `kernel.c` | | `KernelStart`, `init_load`, `idle_setup` | one boot becomes two processes |
| user programs | `test/` | | | not modelled: user code may make any call at any time |

How they interact: every blocking object moves process nodes through the one
scheduler (`block` ends in a context switch, `unblock` appends to the ready
queue); processes, address spaces and the frame allocator meet in Fork, Exec and
Exit; pipes and terminals share the ring buffer; the clock trap drives delays and
preemption.

What has to be true of each: a process is in exactly one place; no wake-up is
lost; no freed object is used; a frame has one owner; a buffer is a FIFO queue, a
list a sequence; a process has registers of its own; whoever can go on does go on.

## 2. The modules

    Scheduling  <- ProcTable, LockCvar, Pipe, Tty      (EXTENDS)
    Monitor     <- LockCvar      (refinement)
    ByteQueue   <- RingBuffer    (refinement)
    NodeQueues  <- LinkedList    (refinement);  every other module takes lists for sequences
    UserMachines <- ContextSwitch (refinement)
    FrameTable  <- KernelHeap    (EXTENDS)
    FramePool   <- KernelHeap    (refinement);  Memory uses the set of free frames that FramePool promises
    MC<M>                         finite instances of M for TLC

    SchedulingProofs <- ProcTableProofs, LockCvarProofs, PipeProofs, TtyProofs   (EXTENDS)
    ContextSwitchProofs, MemoryProofs
                                  each <M>Proofs also EXTENDS its own module M
    KernelDataProofs              EXTENDS the sequential data structures RingBuffer, KernelHeap, LinkedList

**The grain of atomicity.** A handler runs undisturbed from the trap that
enters it, or from the context switch that resumes it, to the next context
switch or the return to user mode.  That stretch is one action.  A system call
that may block is therefore an action `KernelX` for the first stretch and an
action `ResumeX` for each later one; `pc[p]` names the point in the blocked call
where `p` continues.  Interrupts are taken in user mode and in the idle process.

**`Scheduling`** gives `run_next_ready` and `rr_preempt` as operators on the
ready queue a handler has built (`RunNextReady(rd)`, `RRPreempt(rd)`), because a
handler may append to the queue before it switches.  It also has what the object
modules share: their processes all exist and nobody delays, so the clock is only
`rr_preempt`.

**`ProcTable`** is the process table.  A member of `Proc` is the memory of one
process (list node and pcb); Fork may take any free one, which models an
allocator that reuses memory, and a stale pointer then means another process.
`a_children` names memory, and like the code nothing removes an entry.  `code`
is the shared `node->code`: ticks left in `Delay`, then the exit status.
`KernelExit` is the chain `reap_orphans`, `process_terminate`, `graveyard`,
including the loop over `d_children` that ends after its first member because it
reads a freed node.  `TrapClock` walks the delayed list up to the first sleeper
that is due.

**`LockCvar`**: `KernelCvarWait` is `release`, `cvar++` and `block` in one step;
`ResumeCvarWait` is the re-acquisition.  `want[p]` is the lock a blocked call
returns to.  `KernelExit` of a process in `Mortal` changes no lock, as in the code:
`gone` has the nodes of processes that have ended, which a later Fork may use
again, so that a stale `owner` becomes another process.  `destroy_cvar` looks for the waiting list behind the end of the
structure, in memory never written: it may succeed whatever the real list holds.
**`Monitor`** is the promise: a lock has one holder, `Acquire` and `CvarWait`
return holding it, sleeping and giving up the lock are one step, only Signal
and Broadcast end a sleep.

**`RingBuffer`** has the bytes, the indices and the copying loops; **`ByteQueue`**
is a sequence.  **`Pipe`** and **`Tty`** count bytes.  `call[p]` holds the locals of
a blocked read or write.  In `Tty` the device is external: it transmits until it
raises the trap, and lines arrive at any time.

**`FrameTable`** is `get_frame` and `vacate_frame` with cells and bits, as operators
from one value of `free_frame` to the next.  **`KernelHeap`** puts the code's load on
it: `VM_setup` maps region 0 with the frames of the same numbers, `SetKernelBrk` only
moves the break before virtual memory is enabled and maps or vacates pages after,
user space takes frames, through the page `dummy` or not, and gives them back.
**`FramePool`** is a set of free frames, those of user space and the rest.  **`Memory`** maps frames: valid page table
entries, kernel stacks and the kernel heap, under Fork, Exec, Exit, Wait, Brk,
stack growth and the calls that allocate.  Fork and the calls that make an object
allocate a few small structures and may take one new page of the kernel heap; Exec's
argument buffer (`load.c:160`) may take any number of them, which `SetKernelBrk` maps in
one loop.  `outOfRange` becomes true when the
kernel goes through an entry with `get_frame`'s `ERROR` for a frame number; the
behaviour is undefined from there and the model stops.  Any live process may run
next, and Exit and Wait destroy any terminated processes: that is more than
`ProcTable` allows, so what holds here holds of the composition.

**`LinkedList`** has the nodes and their pointers; the C functions are operators on
`links`, and the loops of `unblock_all` and `check_delay` follow the pointers as the
code does, over the lists that they change.  **`NodeQueues`** is what the others assume:
sequences, a node in one of them at most, a tick that stops at the first
sleeper that is due (as `TrapClock` of `ProcTable` has it).

**`ContextSwitch`** follows one register of each process: into the kernel (`Trap`,
`save_uc`), through the handler, across `KCSwitch` and `KCCopy`, and back
(`add_return_val`, `restore_uc`).  `stack[n]` is the top frame of a kernel stack
with the locals that outlive a switch (`parent`, `child`, `return_val`), `kc[n]` the
place where `n` goes on, `mapped` and `ptbr1` what the machine shows.  Handlers use
`running`, `stack[mapped]` and `ptbr1` exactly where the code uses `procs->running`, a
local, user memory; nothing makes the three agree but the code.  Delay and Wait stand for
calls that block, GetPid for those that do not, `unknown` for the default of the switch.
**`UserMachines`** is what user code sees: private registers, calls that return once,
Fork that returns twice, invisible preemption.

**Operators whose comment begins with "Fault"** are broken variants of the
definition that follows them (a dropped test, an off-by-one, a wake-up of one
instead of all).  No specification uses them.  With the variant in place of the
definition, TLC finds the property named in `PROJECT.json` ("mutants") violated:
each property is known to notice something.

## 3. The runs

| run | states | question |
|---|---|---|
| `ProcTable_safety` | 1,540,000 | init and 3 processes, symmetric; any order of Fork, Exit, Wait, Delay(1..2) and clock |
| `ProcTable_live` | 12,555 | init and 2 processes, under fairness: ready runs, Delay ends, Wait returns |
| `LockCvar` | 298,618 | 3 processes, one of them mortal, 3 objects of any kind; safety, refinement of `Monitor`, liveness |
| `RingBuffer` | 5,696 | 4 bytes of 2 kinds, transfers of 0..5; refinement of `ByteQueue` |
| `Pipe` | 77,184 | 3 processes, a pipe of 2 bytes, transfers up to 3 |
| `Tty` | 298,854 | 3 processes, 1 terminal, lines of 2 characters, buffers up to 3 |
| `Memory` | 529,464 | 3 processes, 8 frames, 4 pages of 2 addresses, 1 page of kernel stack, 2 more pages of kernel heap, 2 executables |
| `KernelHeap` | 33,638 | 10 frames in cells of 3 bits, 8 kernel pages of 2 addresses; refinement of `FramePool` |
| `LinkedList` | 19,568 | 4 nodes, 4 lists, codes 1 and 2; refinement of `NodeQueues` |
| `ContextSwitch` | 1,669,492 | init, idle and 2 processes, symmetric; refinement of `UserMachines` |

Deadlock is checked except where the system really may stop: in `ProcTable` and
`ContextSwitch`, where the exit of init halts the machine, and in `Memory`, which stops at
`outOfRange`.  (Processes that all wait
for each other are not a deadlock in TLC's sense: the idle process takes clock ticks.
Liveness properties speak about them.)

### What is checked and why it could fail

The type invariant `TypeOK` is checked by itself in `ProcTable`, elsewhere as the first
conjunct of an invariant.

* `OnePlace` (all modules with processes).  Every process is running, in the
  ready queue, or on one waiting list, once.  In `ProcTable` it adds that what is
  on the lists of the dead is dead and there once.
* `ParentIsAlive`, `OnlyTheDeadAreFreed`: pointers into the process table when
  memory is freed and reused.
* `NoLostChild`, `WaitReturns`: an exit is never missed by `Wait`.
* `DelayIsBounded`, `DelayEnds`: the walk of `check_delay` skips sleepers, but
  never the same one for ever: count plus position falls by one every tick.
* `CountersAreExact` (locks), `PromisesAreExact` (pipes): the counters that guard
  destruction count exactly the processes in limbo; with `NoUseAfterDestroy` this
  says that Reclaim never frees a lock or pipe somebody returns to.
* `NoLostWakeup`, `FreeLockIsTaken`, `ImplementsMonitor`: barging does not lose the
  single wake-up of `release`, and does not break mutual exclusion.  They hold
  with processes that exit holding locks: a waiter then has an owner that is gone,
  which is a reason to sleep, not a lost wake-up.
* `WritersWaitForSpace`, `ReadersWaitForWriters`, `ReaderProceeds`, `WriteReturns`:
  who sleeps on a pipe has a reason to.  A reader may sleep beside a non-empty
  pipe, but only while a writer is half-way through a write (see the finding).
* `WritersAreServed`, `WritersProceed`: while writers wait, either the device is
  transmitting, and its end will wake one, or a woken writer has yet to look.
  `ReadersWaitForInput`, `ReadReturns` for input.
* `IndicesAgree`, `ImplementsByteQueue`: full and empty are told apart, order is kept
  over the wrap-around.
* `FrameTableAgrees`, `ImplementsFramePool`: the cached first free frame is right,
  so no frame is handed out twice.  `AtMostOneFrameIsLost`: `VM_setup` maps the page at
  the break, which `SetKernelBrk` takes for unmapped; that costs one frame, and no
  sequence of growing, shrinking and copying costs a second.  `HeapIsMapped`: the
  limit of `SetKernelBrk` keeps the heap off the page through which frames are copied.
* `WellLinked`, `ImplementsNodeQueues`: no operation leaves a pointer behind that leads
  another list's walk astray, and the loop of `check_delay`, which goes on from
  a node that it has just moved to the ready queue, stops there.
* `KernelContextsFit`: the kernel stack and the page table in place are those of the
  running process, and whoever may be dispatched has on its own stack the frames that
  its kernel context returns through.  `ImplementsUserMachines`: results reach the caller,
  once; the child of Fork has its parent's registers and result 0.
* `EveryFrameHasOneOwner`: frames neither leak nor are shared on any path of any
  handler, and a terminated process keeps its kernel stack.  `RedZone`: an
  invalid page between heap and stack.  `ChecksSuffice`: the only two ways for
  `get_frame` to fail are a Fork whose `size` field is too small and an `Exec` whose argument
  buffer needs more pages than there are frames left, be it none or some; the new
  image is never short after the comparison in `load.c:189`.

### Bounds, and why they are enough

Three processes are the least for which one can overtake between the wake-up of
another and its run while a third holds or frees the object.  In `ProcTable` init
never exits and three more processes give chains (grandchild, child, parent) and a
freed process that is reused while a stale entry for it exists.  `MaxDelay = 2`
lets a sleeper be skipped.  `MaxId = 3` gives two locks and a condition variable, or one
lock and two.  A pipe or line of 2 and transfers of 3 give empty, partly full,
full, and a transfer that needs two or three rounds.  One mortal process can own a lock, end,
and come back as a stranger while two others wait.  10 frames in 3-bit cells give a
partial last cell and, after boot, enough frames for the heap to reach its limit and for
user space to take some in between; the original break lies inside a page, so both
alignments occur.  4 nodes are the first, a middle two and the last of a list.  In
`ContextSwitch` one register with 5 values tells apart results of all processes.  In `Memory`, 8 frames are
enough for three live processes with a kernel stack of one page each, or for two and an
ended one that keeps its stack, but not for any of them to grow as it likes, so that the checks of
`frames_left` are met from both sides.  2 further pages of kernel heap let one Exec
take several pages while one frame is free, too few for it, and let the heap reach
its limit before the frames run out and after.  With one page of kernel stack Fork asks for
one page more than it takes; `Memory_large.cfg` has 9 frames and stacks of two pages,
where it asks for exactly what it may take, and passes too (1,963,413 states, some
minutes).  4 pages are the fewest
with text, data, a red zone and a stack; one executable needs more and must be
refused.  Exit statuses are not told apart by any property, so one stands for all;
`MCPipe` says the same of the uninitialised `total`.  Symmetry is used in safety
runs only.

### Fairness

`TrapClock` is strongly fair: the clock interrupts for ever, and an interrupt
that comes in kernel mode is taken on the return to user mode, so it cannot be
put off although it is not enabled at every moment.  `TrapTtyTransmit` likewise: the
device finishes each transmission.  Resumption actions are weakly fair: a process
that has been dispatched inside a handler runs on.  User code owes nothing: no
fairness on system calls, so a process may hold a lock for ever, and no property
depends on its release.

## 4. What the code does not keep

Two runs expect a violation, each of a sentence of the headers:

* `Pipe_ReadReturns` ("give all of them to the caller and return",
  `syscalls.h:128`): a writer that fills the pipe blocks without waking readers
  that were already waiting; both sleep.
* `Memory_ForkFailsWithoutMemory` ("ERROR if no memory left for forking",
  `syscalls.h:25`): `copy_user_mem` does not copy `size`, and a forked process
  forks with its needs taken for 3 frames.

Further configurations show disagreements that follow from the same lines or
depend on less; each checks the property in its name and ends in a counterexample:

* `ProcTable_WaitFailsWithoutChildren` ("ERROR if no remaining children",
  `syscalls.h:57`): `a_children` never shrinks, so a parent without children
  blocks in `Wait` for ever.
* `Tty_TtyWriteWaits` ("blocked until all chars ... have been written",
  `syscalls.h:103`): a writer that returns wakes the head of the list, which
  may be the one whose chunk is still on the device.
* `LockCvar_OwnerIsAlive`: a process that exits keeps its locks; `owner` points at
  freed memory, waiters sleep on, and the next process in that memory owns the lock.
* `ProcTable_ExitOrphansOnlyOwnChildren` (`process.h:61`): a stale `a_children`
  entry NULLs the parent of somebody else's child, in reused memory.
* `ProcTable_ExitDestroysDefunctChildren` (`process.h:61-62`): only the first
  defunct child is destroyed.
* `ProcTable_ClockDecrementsAll` (`traps.h:35`): sleepers behind one that wakes
  miss the tick.
* `LockCvar_WaitedCvarSurvives` (`pilocvario.c:276`), `LockCvar_CvarWaitNeedsTheLock`
  (`pilocvario.c:263`).
* `Pipe_WritesLenBytes` (`pilocvario.h:188`), `Pipe_ReturnsBytesWritten`
  (`pilocvario.h:194`), `Tty_TtyWriteReturnsLen` (`syscalls.h:111`): every round
  measures by `len`, not by what is left, and `total` misses the last round.
* `Memory_CheckAddrKnowsProtection` (`memory.h:117`): the comparison in
  `check_addr` is never false.

## 5. What is proved

TLAPS checks the theorems below.  They hold for every value of the constants that
satisfies the assumptions of section 5.3: any number of processes, objects, frames,
pages and list nodes, any buffer size.  Every safety property and every refinement that
a passing run checks is among them.

| module | theorem | property |
|---|---|---|
| `ProcTableProofs` | `TypeCorrect` | `TypeOK` |
| | `EveryProcessInOnePlace` | `OnePlace` |
| | `ParentsAreAlive` | `ParentIsAlive` |
| | `WaitLosesNoChild` | `NoLostChild` |
| | `FreesOnlyTheDead` | `OnlyTheDeadAreFreed` (of steps) |
| | `DelaysAreBounded` | `DelayIsBounded` (of steps) |
| `LockCvarProofs` | `AlwaysOnePlace` | `OnePlace` |
| | `CountersAlwaysExact` | `CountersAreExact` |
| | `NeverUsedAfterDestroy` | `NoUseAfterDestroy` |
| | `WakeupsAreNotLost` | `NoLostWakeup` |
| | `IsMonitor` | `ImplementsMonitor` (refinement) |
| `PipeProofs` | `AlwaysOnePlace` | `OnePlace` |
| | `PromisesAlwaysExact` | `PromisesAreExact` |
| | `NeverUsedAfterDestroy` | `NoUseAfterDestroy` |
| | `WritersOnlyWaitForSpace` | `WritersWaitForSpace` |
| | `ReadersOnlyWaitForWriters` | `ReadersWaitForWriters` |
| `TtyProofs` | `AlwaysOnePlace` | `OnePlace` |
| | `WritersAlwaysServed` | `WritersAreServed` |
| | `ReadersOnlyWaitForInput` | `ReadersWaitForInput` |
| `KernelDataProofs` | `IndicesAlwaysAgree` | `IndicesAgree` |
| | `BufferIsQueue` | `ImplementsByteQueue` (refinement) |
| | `FrameTableAlwaysAgrees` | `FrameTableAgrees` |
| | `NeverTwoFramesAreLost` | `AtMostOneFrameIsLost` |
| | `HeapIsAlwaysMapped` | `HeapIsMapped` |
| | `AllocatorIsPool` | `ImplementsFramePool` (refinement) |
| | `ListsAlwaysWellLinked` | `WellLinked` |
| | `ListsAreQueues` | `ImplementsNodeQueues` (refinement) |
| `ContextSwitchProofs` | `ContextsAlwaysFit` | `KernelContextsFit` |
| | `MachinesArePrivate` | `ImplementsUserMachines` (refinement) |
| `MemoryProofs` | `EveryFrameAlwaysHasOneOwner` | `EveryFrameHasOneOwner` |
| | `RedZoneAlways` | `RedZone` |
| | `ChecksAlwaysSuffice` | `ChecksSuffice` (of steps) |

### 5.1 The shared lemmas

`SchedulingProofs` has what the four modules with queues need: appending, dequeuing,
putting in front and removing at a position keep a queue free of duplicates and
change its set of members by one (`AppendOnce`, `DequeueOnce`, `PushOnce`, `RemoveOnce`,
`RemoveShifts`); `RunNextReady` and `RRPreempt` keep the runnable processes apart and
change their set only by what was appended; and a step that moves nodes between the
runnable processes and waiting lists keeps every process in one place.

`KernelDataProofs` is about loops: those of `VM_setup` and `SetKernelBrk`, of `unblock_all`
and `check_delay`, and the walk along `next`.  A loop is a recursive function of the
number of rounds; its values are pinned down in two steps.  `GrowingRuns` and its
likes show that the function exists, so that the `CHOOSE` behind its definition chooses it;
an induction over the rounds then shows what each value is.  The library's induction theorems have an
operator as parameter, which the provers cannot instantiate; `Induced` says the same of a set
(0 is in it, and with `n` always `n + 1`), and is proved from the fact that a non-empty set of naturals has a
least element, which `LeastOfFinite` gets from the pigeonhole principle.

### 5.2 The inductive invariants

Each module has `IInv`, with `Init => IInv` and `IInv /\ [Next]_vars => IInv'` proved
action by action; TLC has checked each on the instance of the module's run.
None of the properties is inductive alone.

* **ProcTable**: `TypeOK`, `OnePlace`, `ParentIsAlive`, `NoLostChild`.  `graveyard`
  appends to the list of `parent[p]`, which keeps `OnePlace` only if that parent is
  alive; it wakes the parent only if it is in `waiting`, which is right only by
  `NoLostChild`; and waking keeps `OnePlace` only because the lists exclude each
  other.  Exit is the hard step: it destroys orphans and a defunct child, orphans
  through stale pointers, and hands its own node over.  `ParentIsAlive` is stated with
  membership in `a_children` because that is what makes the parent NULL the pointer
  before it dies.  `FreesOnlyTheDead` follows from `IInv` in both states of a step,
  `DelaysAreBounded` from the queue having no duplicates and from `RemoveShifts`:
  behind the node that is woken every position falls by one.
* **LockCvar**: the four properties, `WaitsWhereItSays` and `FreshIds`.  A wake-up
  changes the list of one object and the counter of another (the lock that a process
  in `CvarWait` returns to), and `WaitsWhereItSays` is what tells, from the list a process is
  on, which counter that is.  `FreshIds` is needed when `LockInit` or `CvarInit` sets up
  an identifier: nobody may be waiting there.  `NoUseAfterDestroy` needs exact counters; the counters
  are cardinalities of sets of processes, which are finite because `Proc` is.
  `IsMonitor` maps `owner` to the holder and the processes inside the calls to the
  monitor's waiters, and shows for each action, under `IInv`, the step of
  `Monitor` that it is.
* **Pipe**: the five properties, `WaitsWhereItSays`, `FreshIds`, `CallsInBounds`.  The code
  measures each round of a write by `len`, not by what is left; with `left <= len`
  (`CallsInBounds`) it still follows that a round which does not end the write has filled the
  pipe, and that is `WritersWaitForSpace` when the writer blocks.  A writer that blocks is
  also the witness of `ReadersWaitForWriters`.  `PromisesAreExact` decides whether Reclaim may
  free the pipe, hence `NoUseAfterDestroy`.
* **Tty**: the three properties, `WaitsWhereItSays`, `DriverKnowsDevice`,
  `ReadersWantSomething`.  `DriverKnowsDevice` (the `transmitting` flag is set exactly
  while the device has characters) is why a writer that finds the flag set may sleep: there
  will be a transmit trap.
* **RingBuffer**: `IndicesAgree` is inductive.  The refinement maps the array to the
  sequence of the `filled` bytes from `head` on, modulo `Size`.
* **KernelHeap**: `HeapIInv`.  The bits are what `avail_pfn` and `filled` say
  (`Agrees`), no page and no user names a frame twice or one that is free (`NoneTwice`),
  and the mapped pages are those up to the one that `SetKernelBrk` computes from the break, and the kernel
  stack.  `VM_setup` may map one page more, because it counts pages another way; as long as that
  entry is there no frame is lost, and growing the heap over it loses the frame it
  named and leaves no such entry (`Accounted`).  That is why it happens once.  Each loop keeps
  this round by round (`HeapGrown`, `HeapShrunk`, `KernelBooted`); that the heap stays clear of the page
  `dummy` is arithmetic about `UP_TO_PAGE` and the limit of `SetKernelBrk` (`BreakBounds`, `BreakMoves`).
  A step of the allocator is one of `FramePool` because a bit is set only if it was
  clear, which is right because `avail_pfn` is a free frame unless all are used.
* **LinkedList**: `ListsIInv`.  `Represents(h, q)` says, without a walk, what pointers stand
  for: along list `l` they are chained as the sequence `q[l]` is, no node lies in two
  places, and a node that lies nowhere points nowhere.  For `enqueue`, `push`, `dequeue`, `pop` and
  `remove` there is one lemma each on what the operation does to `q` (`Relinked` has what they share).
  `ReachedIsList` shows that a walk along `next` sees exactly `q[l]`, which needs that a list is no
  longer than there are nodes.  The loop of `unblock_all` moves the first
  of what is left (`RunEmpties`).  For `check_delay`, `RoundCounts` is the point: a node
  that is due is moved to the end of the ready list, so its `next` is NULL and the loop
  ends (`WokenIsLast`); until then no sleeper passed was due.  From `ListsIInv` follow
  `WellLinked` and, action by action, the step of `NodeQueues`.
* **ContextSwitch**: `KernelContextsFit`, the types, `PlaceFits` (where the kernel
  is and what the top of the current stack says agree), `IdleWaits`, `ForkNamesChild`.  The hard
  steps are `KCCopy`, which makes a second stack on which the parent's locals are the
  child's too, and the dispatch of a process that last ran inside a handler.
* **Memory**: the frames partition into the free ones, user memory, kernel stacks and
  kernel heap (`Partition`), and no table names a frame twice (`IsUserPt`, `OncePerFrame`);
  `EveryFrameHasOneOwner`, which speaks of owners, follows.  `HasRedZone` gives the domain of each live page table,
  without which it is not clear what Brk and stack growth add or remove.  `EntriesNameFrames` holds until
  `get_frame` fails unnoticed; `ChecksAlwaysSuffice` is about the step in which it does:
  a new page per loop round is compared with what is free, for as many pages as
  the arguments need (`NewPagesAreNew`, `HeapServed`, `ExecServed`).

### 5.3 Assumptions

The constants' assumptions, which TLC evaluates in the runs: the idle process is not in
`Proc`; `Proc` and `Frame` are finite; sizes and numbers of identifiers are positive; what stands
for NULL is not a process; the boot image fits, its original break lies below the kernel stack and the page
under it, and the pages of region 0 are no more than the frames; the nodes of lists are finitely many, and what is
put in `code` is positive; `ContextSwitchAssumption` keeps nodes apart from
the other register values.
`ChecksAlwaysSuffice` also assumes `KStack <= 2`: Fork asks for 3 pages besides the user
memory, of which `malloc` may take one (a property of the external `malloc`, assumed of
`NewHeapPages(1)`; nothing is assumed of the size of Exec's arguments).  `KERNEL_STACK_MAXSIZE` is defined by the
framework, not in this source; with more than two pages the check would be too weak.

### 5.4 Only model-checked

* Liveness and the fairness it needs, in `ProcTable_live`, `LockCvar`, `Pipe`, `Tty`: the prover
  does not know ENABLED.
* The sentences that the code does not keep (section 4) are counterexamples, not proofs.

## 6. What is not modelled

* What an exit does to pipes and terminals: nothing, since a process inside a call cannot
  exit and they know no owner.  `ProcTable` and `LockCvar` are not composed: each has as
  much of exit as its own state can tell.
* Page contents, TLB flushes, registers other than `regs[0]` (the stack pointer and the
  program counter that `LoadProgram` sets among them): hardware state.  pids:
  `helper_new_pid` is the framework's.  The terminal and memory traps save and restore
  as the clock trap does and are not repeated in `ContextSwitch`.
* `check_buffer`, `check_string`, `check_args`: loops over `check_addr`, which is in
  `Memory`.  Lengths are taken as the comments assume them: not negative, and
  positive for reads.
* The executable file and its errors other than "does not fit" and "cannot be
  read"; the descriptor and the argument buffer that failing exits of
  `LoadProgram` keep.
* Where an executable's text and data lie: `LoadProgram` reads both positions from the
  file (`load.c:82-83`), and `Loaded` has them as the linker puts them, the text at the bottom of
  region 1 and the data right behind it.
* A kernel break beyond the limit of `SetKernelBrk`: `malloc` then returns NULL and Exec
  ends with `ERROR`, which changes nothing that `Memory` keeps.  `KernelHeap` maps new
  kernel pages only while there are frames for them; without them is the matter of `ChecksSuffice`.
* A negative `tty_id`, which `KernelTtyRead` and `KernelTtyWrite` do not refuse.
* In `ContextSwitch`, the children and orphans that an exit destroys: its Wait may
  destroy an ended process at any time instead.
* Which nodes and pages `malloc` gives the kernel; `trap_setup`, which fills a constant
  table.
* `preempt` and `defunct_blocked`, which nothing calls; `TrapDisk`, which does
  nothing; the test programs.

## 7. Plan

Done: all modules above with their runs, and the proofs of section 5.  What is left:

1. A model of `LoadProgram` in stages, with the descriptor and the buffer.
2. A composition of `ProcTable` and `LockCvar`, in which a lock's owner exits.
3. `Memory` takes free frames from a set; a proof that it does so in steps of `FramePool`
   would join it to `KernelHeap` by theorems instead of by reading.
