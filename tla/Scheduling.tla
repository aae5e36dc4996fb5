------------------------------ MODULE Scheduling ------------------------------
(***************************************************************************)
(* The dispatcher of the kernel (ksrc/scheduling.c): which process runs,   *)
(* the FIFO ready queue, round-robin preemption, blocking and unblocking.  *)
(*                                                                         *)
(* The machine has one processor and takes no trap while it executes       *)
(* kernel code, so a handler runs without interleaving from the trap that  *)
(* enters it (or from the context switch that resumes it) to the next      *)
(* context switch or the return to user mode.  That stretch of code is one *)
(* TLA+ step.  A process that blocks inside a handler leaves its           *)
(* continuation on its kernel stack: pc records which one.                 *)
(*                                                                         *)
(* In every module an operator whose comment begins with "Fault" is a      *)
(* broken variant of the definition that follows it; nothing refers to it. *)
(* The properties are calibrated against these variants (see README.md).   *)
(***************************************************************************)
EXTENDS Sequences, Integers, FiniteSets, Functions

CONSTANTS
  Proc,   \* the process nodes that may sit in a queue of the kernel
  Idle    \* idle_node: dispatched when nothing is ready, never queued

ASSUME IdleAssumption == Idle \notin Proc

ASSUME ProcAssumption == IsFiniteSet(Proc)

VARIABLES
  running,  \* procs->running
  ready,    \* procs->ready, head first
  pc        \* pc[p]: the point where p continues when it is dispatched

schedVars == <<running, ready, pc>>

(***************************************************************************)
(* p executes user code: it may trap into any system call.                 *)
(***************************************************************************)
InUser(p) == running = p /\ pc[p] = "user"

(***************************************************************************)
(* Hardware traps are taken in user mode only; idle always runs DoIdle.    *)
(***************************************************************************)
Interruptible == running \in {Idle} \cup {p \in Proc : pc[p] = "user"}

(***************************************************************************)
(* Fault: run_next_ready reads the head of the queue and leaves it there.  *)
(***************************************************************************)
RunNextReadyPeeks(rd) ==
  \/ rd = <<>> /\ running' = Idle /\ ready' = rd
  \/ rd # <<>> /\ running' = Head(rd) /\ ready' = rd

(***************************************************************************)
(* run_next_ready, on a ready queue that holds rd by then.                 *)
(***************************************************************************)
RunNextReady(rd) ==
  \/ rd = <<>> /\ running' = Idle /\ ready' = rd
  \/ rd # <<>> /\ running' = Head(rd) /\ ready' = Tail(rd)

(***************************************************************************)
(* Faults: rr_preempt queues idle as well; it preempts idle only.          *)
(***************************************************************************)
RRPreemptQueuesIdle(rd) ==
  \/ rd = <<>> /\ UNCHANGED running /\ ready' = rd
  \/ rd # <<>> /\ RunNextReady(Append(rd, running))

RRPreemptIdleOnly(rd) ==
  \/ (rd = <<>> \/ running # Idle) /\ UNCHANGED running /\ ready' = rd
  \/ rd # <<>> /\ running = Idle /\ RunNextReady(rd)

(***************************************************************************)
(* rr_preempt, on a ready queue that holds rd by then.  Idle is switched   *)
(* out without being queued.                                               *)
(***************************************************************************)
RRPreempt(rd) ==
  \/ rd = <<>> /\ UNCHANGED running /\ ready' = rd
  \/ rd # <<>> /\ running = Idle /\ RunNextReady(rd)
  \/ rd # <<>> /\ running # Idle /\ RunNextReady(Append(rd, running))

(***************************************************************************)
(* unblock_head and unblock_all on a blocked list: what they append to the *)
(* ready queue.  unblock_head does nothing to an empty list.               *)
(***************************************************************************)
HeadOf(blocked) == IF blocked = <<>> THEN <<>> ELSE <<Head(blocked)>>
RestOf(blocked) == IF blocked = <<>> THEN <<>> ELSE Tail(blocked)

(***************************************************************************)
(* The processes that are ready or running; the node of each is linked     *)
(* into the ready queue once, or is procs->running and not linked.         *)
(***************************************************************************)
Runnable == Range(ready) \cup ({running} \ {Idle})
RunnableOnce == IsInjective(ready) /\ running \notin Range(ready)

(***************************************************************************)
(* queue is the function from names to waiting lists.  A list_t node has   *)
(* one next and one prev: a process on two lists, twice on one list, or on *)
(* a list while it is runnable, would corrupt the lists.                   *)
(***************************************************************************)
QueuedOnce(queue) ==
  /\ RunnableOnce
  /\ \A i \in DOMAIN queue :
       IsInjective(queue[i]) /\ Range(queue[i]) \cap Runnable = {}
  /\ \A i, j \in DOMAIN queue :
       i # j => Range(queue[i]) \cap Range(queue[j]) = {}

Queued(queue) == UNION {Range(queue[i]) : i \in DOMAIN queue}

(***************************************************************************)
(* For the modules about objects that processes share: every member of     *)
(* Proc has been forked and is runnable, and nobody delays, so that        *)
(* check_delay finds an empty list in every clock trap.                    *)
(***************************************************************************)
SchedTypeOK(points) ==
  /\ running \in Proc \cup {Idle}
  /\ ready \in Seq(Proc)
  /\ pc \in [Proc -> points]

SchedInit ==
  /\ running \in Proc
  /\ ready \in Bijection(1..(Cardinality(Proc) - 1), Proc \ {running})
  /\ pc = [p \in Proc |-> "user"]

ClockTick == Interruptible /\ RRPreempt(ready) /\ UNCHANGED pc

(***************************************************************************)
(* block and h_block end in a context switch; p continues at point.        *)
(***************************************************************************)
BlockAt(p, point, rd) == pc' = [pc EXCEPT ![p] = point] /\ RunNextReady(rd)

(***************************************************************************)
(* p returns to user code; the ready queue holds rd by then.               *)
(***************************************************************************)
ReturnWith(p, rd) ==
  /\ pc' = [pc EXCEPT ![p] = "user"]
  /\ ready' = rd
  /\ UNCHANGED running

=============================================================================
