------------------------------ MODULE ProcTable ------------------------------
(***************************************************************************)
(* The life of processes: ksrc/process.c, the process-coordination system  *)
(* calls of ksrc/syscalls.c (Fork, Exit, Wait, Delay), the lists of        *)
(* ksrc/scheduling.c that hold processes, and the clock trap.              *)
(*                                                                         *)
(* A member of Proc is the memory of one process: its list node together   *)
(* with its pcb_t, allocated by process_init and freed by process_destroy. *)
(* The allocator may hand freed memory out again, so Fork takes any member *)
(* whose status is "free"; a list of the kernel that still names freed     *)
(* memory then names another process.                                      *)
(*                                                                         *)
(* procs->waiting, procs->orphans and a_children are sets here: the kernel *)
(* tests membership in them or visits all of them, never their order.      *)
(***************************************************************************)
EXTENDS Scheduling, SequencesExt

CONSTANTS
  InitProc,   \* init_node: the first process, whose exit halts the machine
  NoProc,     \* the NULL parent
  MaxDelay,   \* bound: the largest argument of Delay
  Status      \* exit statuses

ASSUME ProcTableAssumption ==
  /\ InitProc \in Proc
  /\ NoProc \notin Proc \cup {Idle}
  /\ MaxDelay \in Nat \ {0}
  /\ Status \subseteq Int
  /\ -1 \in Status

VARIABLES
  waiting,    \* procs->waiting: parents blocked in Wait
  delayed,    \* procs->delayed: processes blocked in Delay, in list order
  orphans,    \* procs->orphans: dead processes without a parent
  status,     \* free memory, live process, or terminated and not destroyed
  code,       \* node->code: ticks left to delay, then the exit status
  parent,     \* pcb->parent
  aChildren,  \* pcb->a_children: the processes it names
  dChildren,  \* pcb->d_children: terminated children, oldest first
  halted      \* the machine executed Halt

listVars == <<waiting, delayed, orphans>>
pcbVars  == <<status, code, parent, aChildren, dChildren>>
vars == <<schedVars, listVars, pcbVars, halted>>

TypeOK ==
  /\ running \in Proc \cup {Idle}
  /\ ready \in Seq(Proc)
  /\ pc \in [Proc -> {"user", "wait", "delay"}]
  /\ waiting \subseteq Proc
  /\ delayed \in Seq(Proc)
  /\ orphans \subseteq Proc
  /\ status \in [Proc -> {"free", "alive", "defunct"}]
  /\ code \in [Proc -> Int]
  /\ parent \in [Proc -> Proc \cup {NoProc}]
  /\ aChildren \in [Proc -> SUBSET Proc]
  /\ dChildren \in [Proc -> Seq(Proc)]
  /\ halted \in BOOLEAN

-----------------------------------------------------------------------------
(***************************************************************************)
(* KernelStart leaves init running and every queue empty.                  *)
(***************************************************************************)
Init ==
  /\ running = InitProc
  /\ ready = <<>>
  /\ pc = [p \in Proc |-> "user"]
  /\ waiting = {} /\ delayed = <<>> /\ orphans = {}
  /\ status = [p \in Proc |-> IF p = InitProc THEN "alive" ELSE "free"]
  /\ code = [p \in Proc |-> -1]
  /\ parent = [p \in Proc |-> NoProc]
  /\ aChildren = [p \in Proc |-> {}]
  /\ dChildren = [p \in Proc |-> <<>>]
  /\ halted = FALSE

(***************************************************************************)
(* KernelFork: the child is a copy of the caller, queued last; the caller  *)
(* keeps the processor.  When it is dispatched the child returns from the  *)
(* same system call, so its continuation is user code.                     *)
(***************************************************************************)
KernelFork(p) ==
  /\ InUser(p)
  /\ \E c \in Proc :
       /\ status[c] = "free"
       /\ status' = [status EXCEPT ![c] = "alive"]
       /\ parent' = [parent EXCEPT ![c] = p]
       /\ aChildren' = [aChildren EXCEPT ![p] = @ \cup {c}, ![c] = {}]
       /\ dChildren' = [dChildren EXCEPT ![c] = <<>>]
       /\ ready' = Append(ready, c)
       /\ pc' = [pc EXCEPT ![c] = "user"]
  /\ UNCHANGED <<running, listVars, code, halted>>

(***************************************************************************)
(* process_destroy of every member of dead: the memory is freed, and       *)
(* destroy_node clears node->code.                                         *)
(***************************************************************************)
Destroyed(dead, st) == [q \in Proc |-> IF q \in dead THEN "free" ELSE st[q]]
ClearedCode(dead, cd) == [q \in Proc |-> IF q \in dead THEN -1 ELSE cd[q]]

(***************************************************************************)
(* Fault: process_terminate forgets to orphan the children.                *)
(***************************************************************************)
OrphanedNone(p) == parent

(***************************************************************************)
(* process_terminate NULLs the parent of every process on a_children.      *)
(***************************************************************************)
Orphaned(p) == [c \in Proc |-> IF c \in aChildren[p] THEN NoProc ELSE parent[c]]

(***************************************************************************)
(* Fault: the loop destroys the members of a_children.                     *)
(***************************************************************************)
DestroyedAlive(p) == aChildren[p]

(***************************************************************************)
(* The loop of process_terminate over d_children reads curr->next of the   *)
(* node that process_destroy has just cleared and freed, so it ends after  *)
(* the first one.                                                          *)
(***************************************************************************)
DestroyedDefunct(p) == {dChildren[p][i] : i \in DOMAIN dChildren[p] \cap {1}}

(***************************************************************************)
(* Fault: graveyard does not look for the parent on the waiting list.      *)
(***************************************************************************)
CheckWaitNone(par) == <<>>

(***************************************************************************)
(* check_wait: the processes that it unblocks, par if it waits.            *)
(***************************************************************************)
CheckWait(par) == IF par \in waiting THEN <<par>> ELSE <<>>

(***************************************************************************)
(* graveyard: the terminated process p goes to the d_children list of its  *)
(* parent, which is woken if it waits, or to the orphans.                  *)
(***************************************************************************)
Graveyard(p, dch, orph) ==
  \/ /\ parent[p] # NoProc
     /\ dChildren' = [dch EXCEPT ![parent[p]] = Append(@, p)]
     /\ orphans' = orph
     /\ waiting' = waiting \ Range(CheckWait(parent[p]))
     /\ RunNextReady(ready \o CheckWait(parent[p]))
  \/ /\ parent[p] = NoProc
     /\ dChildren' = dch
     /\ orphans' = orph \cup {p}
     /\ UNCHANGED waiting
     /\ RunNextReady(ready)

(***************************************************************************)
(* KernelExit, called by the process or by a trap that aborts it (status   *)
(* ERROR = -1).  The exit of init halts the machine.  Any other process    *)
(* reaps the orphans, terminates (NULLs the parent of everything on its    *)
(* a_children list, destroys defunct children), and goes to the graveyard. *)
(***************************************************************************)
HaltMachine ==
  /\ InUser(InitProc)
  /\ halted' = TRUE
  /\ UNCHANGED <<schedVars, listVars, pcbVars>>

KernelExit(p, rc) ==
  /\ InUser(p) /\ p # InitProc
  /\ LET dead == orphans \cup DestroyedDefunct(p)
     IN  /\ status' = [Destroyed(dead, status) EXCEPT ![p] = "defunct"]
         /\ code' = [ClearedCode(dead, code) EXCEPT ![p] = rc]
  /\ parent' = Orphaned(p)
  /\ aChildren' = [aChildren EXCEPT ![p] = {}]
  /\ Graveyard(p, [dChildren EXCEPT ![p] = <<>>], {})
  /\ UNCHANGED <<pc, delayed, halted>>

(***************************************************************************)
(* The loop of KernelWait, on entry and each time the caller is woken: it  *)
(* takes the oldest defunct child, destroys it and reaps the orphans, or   *)
(* blocks on the waiting list.                                             *)
(***************************************************************************)
WaitLoop(p) ==
  \/ /\ dChildren[p] # <<>>
     /\ LET dead == orphans \cup {Head(dChildren[p])}
        IN  /\ status' = Destroyed(dead, status)
            /\ code' = ClearedCode(dead, code)
     /\ dChildren' = [dChildren EXCEPT ![p] = Tail(@)]
     /\ orphans' = {}
     /\ pc' = [pc EXCEPT ![p] = "user"]
     /\ UNCHANGED <<running, ready, waiting>>
  \/ /\ dChildren[p] = <<>>
     /\ waiting' = waiting \cup {p}
     /\ pc' = [pc EXCEPT ![p] = "wait"]
     /\ RunNextReady(ready)
     /\ UNCHANGED <<orphans, status, code, dChildren>>

(***************************************************************************)
(* KernelWait returns ERROR, and changes nothing, when both lists are      *)
(* empty.                                                                  *)
(***************************************************************************)
KernelWait(p) ==
  /\ InUser(p)
  /\ aChildren[p] # {} \/ dChildren[p] # <<>>
  /\ WaitLoop(p)
  /\ UNCHANGED <<delayed, parent, aChildren, halted>>

ResumeWait(p) ==
  /\ running = p /\ pc[p] = "wait"
  /\ WaitLoop(p)
  /\ UNCHANGED <<delayed, parent, aChildren, halted>>

(***************************************************************************)
(* KernelDelay of a positive number of ticks: block_delay.  Delay(0) and a *)
(* negative argument return at once.                                       *)
(***************************************************************************)
KernelDelay(p, ticks) ==
  /\ InUser(p)
  /\ code' = [code EXCEPT ![p] = ticks]
  /\ delayed' = Append(delayed, p)
  /\ pc' = [pc EXCEPT ![p] = "delay"]
  /\ RunNextReady(ready)
  /\ UNCHANGED <<waiting, orphans, status, parent, aChildren, dChildren, halted>>

ResumeDelay(p) ==
  /\ running = p /\ pc[p] = "delay"
  /\ pc' = [pc EXCEPT ![p] = "user"]
  /\ UNCHANGED <<running, ready, listVars, pcbVars, halted>>

(***************************************************************************)
(* Fault: the walk ends at the last node without visiting it.              *)
(***************************************************************************)
CodesAfterWalkBefore(n) ==
  [p \in Proc |-> IF \E i \in 1..(n - 1) : delayed[i] = p THEN code[p] - 1 ELSE code[p]]

(***************************************************************************)
(* The counts after the loop of check_delay has visited n nodes.           *)
(***************************************************************************)
CodesAfterWalk(n) ==
  [p \in Proc |-> IF \E i \in 1..n : delayed[i] = p THEN code[p] - 1 ELSE code[p]]

(***************************************************************************)
(* The walk of check_delay ends at the first node whose count reaches 0:   *)
(* unblock relinks that node at the tail of the ready queue, where its     *)
(* next is NULL, so the nodes behind it are not visited in this tick.      *)
(***************************************************************************)
Due == {i \in DOMAIN delayed : code[delayed[i]] = 1}

TrapClock ==
  /\ Interruptible
  /\ \/ /\ Due = {}
        /\ code' = CodesAfterWalk(Len(delayed))
        /\ RRPreempt(ready)
        /\ UNCHANGED delayed
     \/ \E i \in Due :
          /\ \A j \in Due : i <= j
          /\ code' = CodesAfterWalk(i)
          /\ delayed' = RemoveAt(delayed, i)
          /\ RRPreempt(Append(ready, delayed[i]))
  /\ UNCHANGED <<pc, waiting, orphans, status, parent, aChildren, dChildren, halted>>

ProcStep(p) ==
  \/ KernelFork(p)
  \/ \E rc \in Status : KernelExit(p, rc)
  \/ KernelWait(p)
  \/ ResumeWait(p)
  \/ \E ticks \in 1..MaxDelay : KernelDelay(p, ticks)
  \/ ResumeDelay(p)

Next ==
  /\ ~halted
  /\ HaltMachine \/ TrapClock \/ \E p \in Proc : ProcStep(p)

(***************************************************************************)
(* The clock interrupts for ever; an interrupt that arrives in kernel mode *)
(* is taken on the return to user mode, hence strong fairness.  A process  *)
(* dispatched inside a handler runs on.  User code owes nothing.           *)
(***************************************************************************)
Fairness ==
  /\ SF_vars(~halted /\ TrapClock)
  /\ \A p \in Proc : WF_vars(~halted /\ (ResumeWait(p) \/ ResumeDelay(p)))

Spec == Init /\ [][Next]_vars
FairSpec == Spec /\ Fairness

-----------------------------------------------------------------------------
(***************************************************************************)
(* No process is lost and none is queued twice.  The live processes are    *)
(* those running, ready, waiting and delayed, each in one of these places  *)
(* and there once; what lies on the orphans list and the d_children lists  *)
(* is defunct, and lies there once.  (A defunct process may be in no list: *)
(* the loop of process_terminate leaves some behind.)  Every function that *)
(* moves a node has a part in this.                                        *)
(***************************************************************************)
WithStatus(s) == {p \in Proc : status[p] = s}

LiveOnce ==
  /\ RunnableOnce
  /\ IsInjective(delayed)
  /\ WithStatus("alive") = Runnable \cup waiting \cup Range(delayed)
  /\ Runnable \cap waiting = {}
  /\ Runnable \cap Range(delayed) = {}
  /\ waiting \cap Range(delayed) = {}

DeadOnce ==
  /\ orphans \subseteq WithStatus("defunct")
  /\ \A p \in Proc : /\ IsInjective(dChildren[p])
                     /\ Range(dChildren[p]) \subseteq WithStatus("defunct")
                     /\ Range(dChildren[p]) \cap orphans = {}
  /\ \A p, q \in Proc :
       p # q => Range(dChildren[p]) \cap Range(dChildren[q]) = {}

OnePlace == LiveOnce /\ DeadOnce

(***************************************************************************)
(* The parent pointer that graveyard dereferences never dangles: it names  *)
(* a live process, one that has p on its a_children list and so will NULL  *)
(* the pointer when it exits, even when freed memory has been reused.      *)
(***************************************************************************)
ParentIsAlive ==
  \A p \in Proc :
    status[p] # "free" /\ parent[p] # NoProc =>
      status[parent[p]] = "alive" /\ p \in aChildren[parent[p]]

(***************************************************************************)
(* No wake-up of Wait is lost: a process inside KernelWait is on the       *)
(* waiting list exactly as long as it has no defunct child to collect.     *)
(***************************************************************************)
NoLostChild ==
  \A p \in Proc :
    status[p] = "alive" /\ pc[p] = "wait" =>
      (p \in waiting <=> dChildren[p] = <<>>)

(***************************************************************************)
(* Memory is freed only of a process that has terminated and whose kernel  *)
(* stack is not in use ("don't do this in the same process",               *)
(* destroy_kstack), neither before nor after the step.                     *)
(***************************************************************************)
FreedOffProcessor ==
  \A p \in Proc :
    status[p] # "free" /\ status'[p] = "free" =>
      status[p] = "defunct" /\ p \notin {running, running'}

OnlyTheDeadAreFreed == [][FreedOffProcessor]_vars

(***************************************************************************)
(* A Delay is not postponed for ever: although a tick skips the nodes      *)
(* behind one that is woken, its count plus its position in the list goes  *)
(* down by one at every tick, so the sleeper in position i of the list is  *)
(* woken after at most code + i - 1 ticks.                                 *)
(***************************************************************************)
Lateness(s, cd, i) == cd[s[i]] + i
TickBringsNearer ==
  TrapClock =>
    \A i \in DOMAIN delayed, j \in DOMAIN delayed' :
      delayed[i] = delayed'[j] =>
        Lateness(delayed', code', j) = Lateness(delayed, code, i) - 1

DelayIsBounded == [][TickBringsNearer]_vars

(***************************************************************************)
(* Under round robin a ready process runs, a sleeper returns to user code, *)
(* and a parent with a defunct child returns from Wait, unless the machine *)
(* is halted first.                                                        *)
(***************************************************************************)
ReadyRuns ==
  \A p \in Proc : (p \in Range(ready)) ~> (running = p \/ halted)

DelayEnds ==
  \A p \in Proc : (pc[p] = "delay") ~> (InUser(p) \/ halted)

WaitReturns ==
  \A p \in Proc :
    (pc[p] = "wait" /\ dChildren[p] # <<>>) ~> (InUser(p) \/ halted)

-----------------------------------------------------------------------------
(***************************************************************************)
(* Statements of the headers that the code does not keep.                  *)
(***************************************************************************)
Children(p) == {c \in Proc : status[c] # "free" /\ parent[c] = p}

(***************************************************************************)
(* KernelWait: "ERROR if no remaining children" (syscalls.h).  A call that *)
(* blocks therefore has a child left to wait for.                          *)
(***************************************************************************)
BlocksOnlyForAChild ==
  \A p \in Proc : running = p /\ p \in waiting' /\ p \notin waiting => Children(p) # {}

WaitFailsWithoutChildren == [][BlocksOnlyForAChild]_vars

(***************************************************************************)
(* process_terminate: "destroying its defunct children" (process.h).       *)
(***************************************************************************)
ExitLeavesNoDefunct ==
  \A p \in Proc : \A i \in DOMAIN dChildren[p] :
    status[p] = "alive" /\ status'[p] = "defunct" => status'[dChildren[p][i]] = "free"

ExitDestroysDefunctChildren == [][ExitLeavesNoDefunct]_vars

(***************************************************************************)
(* process_terminate: "orphaning its alive children (make their parent     *)
(* NULL)" (process.h): nobody else's child loses its parent.               *)
(***************************************************************************)
OrphansOnlyItsOwn ==
  \A c \in Proc :
    /\ parent[c] # NoProc /\ parent'[c] = NoProc
    /\ status[c] # "free" /\ status'[c] # "free"
    => parent[c] = running

ExitOrphansOnlyOwnChildren == [][OrphansOnlyItsOwn]_vars

(***************************************************************************)
(* TrapClock: "Decrements the delay-time of all the currently delaying     *)
(* processes" (traps.h).                                                   *)
(***************************************************************************)
DecrementsAll ==
  TrapClock => \A i \in DOMAIN delayed : code'[delayed[i]] = code[delayed[i]] - 1

ClockDecrementsAll == [][DecrementsAll]_vars

=============================================================================
