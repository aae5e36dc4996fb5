----------------------------- MODULE ContextSwitch -----------------------------
(***************************************************************************)
(* Where the registers of a process are while the kernel works: the entry  *)
(* and the exit of every trap (ksrc/traps.c), the switch of kernel         *)
(* contexts and kernel stacks and their copy by Fork (ksrc/cswitch.c), and *)
(* the boot, which ends in two processes (ksrc/kernel.c).                  *)
(*                                                                         *)
(* The machine (external) has the registers cpu and at, a page table whose *)
(* entries for the kernel stack show one stack, and PTBR1, the page table  *)
(* of region 1.  A trap puts the user registers on the kernel stack and a  *)
(* handler works through "the running process" and "my stack", which the   *)
(* kernel has to keep in step.  Of the user registers only regs[0] is      *)
(* kept, in which arguments and results travel.  The clock stands for the  *)
(* traps that return nothing (the terminals and a stack that grows save    *)
(* and restore likewise), Exit for those that abort the process, Delay and *)
(* Wait for the calls that block.                                          *)
(*                                                                         *)
(* Which process is dispatched is the matter of Scheduling: here any       *)
(* process that is ready may be next.                                      *)
(***************************************************************************)
EXTENDS Integers, FiniteSets

CONSTANTS
  Proc,      \* process nodes; a node stands for its pid too
  InitProc,  \* init_node
  Idle,      \* idle_node
  Value,     \* words that user programs compute
  ERROR

ASSUME ContextSwitchAssumption ==
  InitProc \in Proc /\ Idle \notin Proc /\ Proc \cap (Value \cup {0, ERROR}) = {}

Node == Proc \cup {Idle}
Word == Proc \cup Value \cup {0, ERROR}
Syscall == {"Fork", "Exec", "Exit", "Wait", "GetPid", "Delay", "unknown"}

(***************************************************************************)
(* What a kernel stack holds: the user registers that the trap pushed, the *)
(* handler, return_val of TrapKernel, parent and child_node of KernelFork. *)
(***************************************************************************)
NewFrame(uctxt, handler) ==
  [uctxt |-> uctxt, handler |-> handler, return_val |-> 0,
   parent |-> Idle, child |-> Idle]
Empty(handler) == NewFrame(0, handler)

VARIABLES
  status,   \* free memory, live process, or terminated and not destroyed
  running,  \* procs->running
  ready,    \* the members of procs->ready
  blocked,  \* the members of procs->delayed and procs->waiting
  uc,       \* pcb->uc
  kc,       \* pcb->kc: the place in the code where the kernel left n
  stack,    \* stack[n]: the top of the kernel stack of n
  cpu,      \* the user registers in user mode
  at,       \* the place in the kernel, or "user"
  mapped,   \* whose stack the kernel page table maps
  ptbr1     \* whose page table REG_PTBR1 names

procVars == <<status, running, ready, blocked>>
machine == <<at, mapped, ptbr1>>
vars == <<procVars, uc, kc, stack, cpu, machine>>

-----------------------------------------------------------------------------
(***************************************************************************)
(* KernelStart up to the end of init_load: the stack of the boot becomes   *)
(* that of init.                                                           *)
(***************************************************************************)
Init ==
  /\ status = [p \in Proc |-> IF p = InitProc THEN "alive" ELSE "free"]
  /\ running = InitProc /\ ready = {} /\ blocked = {}
  /\ cpu = 0 /\ uc = [n \in Node |-> 0]
  /\ kc = [n \in Node |-> "nowhere"]
  /\ stack = [n \in Node |-> Empty("KernelStart")]
  /\ mapped = InitProc /\ ptbr1 = InitProc /\ at = "idle_setup"

(***************************************************************************)
(* Fault: KCCopy copies the kernel context and not the stack.              *)
(***************************************************************************)
KCCopyContextOnly(child, place) ==
  kc' = [kc EXCEPT ![child] = place] /\ UNCHANGED stack

(***************************************************************************)
(* KCCopy: the new process, when it is dispatched, returns from the same   *)
(* call on a copy of the same stack.                                       *)
(***************************************************************************)
KCCopy(child, place) ==
  /\ kc' = [kc EXCEPT ![child] = place]
  /\ stack' = [stack EXCEPT ![child] = stack[mapped]]

idle_setup ==
  /\ at = "idle_setup"
  /\ uc' = [uc EXCEPT ![Idle] = stack[mapped].uctxt]
  /\ KCCopy(Idle, "restore_uc")
  /\ at' = "restore_uc"
  /\ UNCHANGED <<procVars, cpu, mapped, ptbr1>>

(***************************************************************************)
(* User code computes a word.  Idle only waits.                            *)
(***************************************************************************)
Instruction ==
  /\ at = "user" /\ running # Idle
  /\ cpu' \in Value
  /\ UNCHANGED <<procVars, uc, kc, stack, machine>>

(***************************************************************************)
(* A trap pushes the user registers; every handler begins with save_uc.    *)
(***************************************************************************)
save_uc(uctxt) == [uc EXCEPT ![running] = uctxt]

Trap(handler) ==
  /\ at = "user"
  /\ stack' = [stack EXCEPT ![mapped] = NewFrame(cpu, handler)]
  /\ uc' = save_uc(cpu)
  /\ cpu' = 0
  /\ at' = "handler"
  /\ UNCHANGED <<procVars, kc, mapped, ptbr1>>

-----------------------------------------------------------------------------
(***************************************************************************)
(* KCSwitch: the kernel context of curr is saved, the stack and the user   *)
(* memory of next are mapped, and the kernel goes on where next left.      *)
(***************************************************************************)
KCSwitch(curr, next, place) ==
  /\ kc' = [kc EXCEPT ![curr] = place]
  /\ mapped' = next
  /\ ptbr1' = next
  /\ at' = kc'[next]

(***************************************************************************)
(* run_next_ready while the processes of rd are ready; the process that is *)
(* switched out will go on at place.                                       *)
(***************************************************************************)
RunNextReady(rd, place) ==
  \E next \in IF rd = {} THEN {Idle} ELSE rd :
    /\ running' = next
    /\ ready' = rd \ {next}
    /\ KCSwitch(running, next, place)

(***************************************************************************)
(* What check_delay or graveyard unblocks: nobody, or a blocked process.   *)
(***************************************************************************)
Woken == {{}} \cup {{p} : p \in blocked}

Handling(h) == at = "handler" /\ stack[mapped].handler = h

TrapClock ==
  /\ Handling("TrapClock")
  /\ \E woken \in Woken :
       LET rd == ready \cup woken
       IN  /\ blocked' = blocked \ woken
           /\ \/ /\ rd = {}
                 /\ at' = "restore_uc"
                 /\ UNCHANGED <<running, ready, kc, mapped, ptbr1>>
              \/ /\ rd # {}
                 /\ \E next \in rd :
                      /\ running' = next
                      /\ ready' = (rd \ {next}) \cup ({running} \ {Idle})
                      /\ KCSwitch(running, next, "restore_uc")
  /\ UNCHANGED <<status, uc, stack, cpu>>

(***************************************************************************)
(* TrapKernel has the result r of the call.                                *)
(***************************************************************************)
Returns(r) ==
  /\ stack' = [stack EXCEPT ![mapped].return_val = r]
  /\ at' = "add_return_val"
  /\ UNCHANGED <<running, ready, blocked, kc, cpu, mapped, ptbr1>>

KernelGetPid == Handling("GetPid") /\ Returns(running) /\ UNCHANGED <<status, uc>>

(***************************************************************************)
(* default of the switch: return_val has not been written.                 *)
(***************************************************************************)
Unhandled == Handling("unknown") /\ \E r \in Word : Returns(r) /\ UNCHANGED <<status, uc>>

(***************************************************************************)
(* KernelDelay: an error or nothing to wait for, or block_delay.           *)
(***************************************************************************)
KernelDelay ==
  /\ Handling("Delay")
  /\ \/ \E r \in {0, ERROR} : Returns(r) /\ UNCHANGED <<status, uc>>
     \/ /\ blocked' = blocked \cup {running}
        /\ RunNextReady(ready, "block")
        /\ UNCHANGED <<status, uc, stack, cpu>>

DelayOver ==
  /\ at = "block" /\ stack[mapped].handler = "Delay"
  /\ Returns(0)
  /\ UNCHANGED <<status, uc>>

(***************************************************************************)
(* KernelFork: process_copy copies what save_uc has saved; the child is    *)
(* ready before the kernel stack is copied, since both come back from      *)
(* copy_kernel.                                                            *)
(***************************************************************************)
KernelFork ==
  /\ Handling("Fork")
  /\ \/ Returns(ERROR) /\ UNCHANGED <<status, uc>>
     \/ \E child \in {p \in Proc : status[p] = "free"} :
          LET top == [stack[mapped] EXCEPT !.parent = running, !.child = child]
          IN  /\ status' = [status EXCEPT ![child] = "alive"]
              /\ uc' = [uc EXCEPT ![child] = uc[running]]
              /\ ready' = ready \cup {child}
              /\ stack' = [stack EXCEPT ![mapped] = top]
              /\ at' = "copy_kernel"
              /\ UNCHANGED <<running, blocked, kc, cpu, mapped, ptbr1>>

copy_kernel ==
  /\ at = "copy_kernel"
  /\ KCCopy(stack[mapped].child, "forked")
  /\ at' = "forked"
  /\ UNCHANGED <<procVars, uc, cpu, mapped, ptbr1>>

(***************************************************************************)
(* Fault: whoever comes back from copy_kernel takes itself for the parent. *)
(***************************************************************************)
WhoAmIParent(top) == top.child
WhoAmI(top) == IF running = top.parent THEN top.child ELSE 0

Forked == at = "forked" /\ Returns(WhoAmI(stack[mapped])) /\ UNCHANGED <<status, uc>>

(***************************************************************************)
(* KernelExec: an error, a new program, which is not given a result, or    *)
(* (KernelExit) the end of the process.                                    *)
(***************************************************************************)
KernelExec ==
  /\ Handling("Exec")
  /\ \/ Returns(ERROR) /\ UNCHANGED <<status, uc>>
     \/ /\ at' = "restore_uc"
        /\ UNCHANGED <<procVars, uc, kc, stack, cpu, mapped, ptbr1>>

(***************************************************************************)
(* KernelExit: the process is never dispatched again; its parent may be in *)
(* Wait.                                                                   *)
(***************************************************************************)
KernelExit ==
  /\ Handling("Exit") \/ Handling("Exec")
  /\ running # InitProc
  /\ status' = [status EXCEPT ![running] = "defunct"]
  /\ \E woken \in Woken :
       /\ blocked' = blocked \ woken
       /\ RunNextReady(ready \cup woken, "dead")
  /\ UNCHANGED <<uc, stack, cpu>>

(***************************************************************************)
(* KernelWait: nobody to wait for, block_wait, or a defunct process to     *)
(* collect, whose stack and pcb are freed.                                 *)
(***************************************************************************)
KernelWait ==
  /\ Handling("Wait")
  /\ \/ Returns(ERROR) /\ UNCHANGED <<status, uc>>
     \/ /\ blocked' = blocked \cup {running}
        /\ RunNextReady(ready, "block")
        /\ UNCHANGED <<status, uc, stack, cpu>>
     \/ \E p \in {q \in Proc : status[q] = "defunct"} :
          /\ status' = [status EXCEPT ![p] = "free"]
          /\ uc' = [uc EXCEPT ![p] = 0]
          /\ kc' = [kc EXCEPT ![p] = "nowhere"]
          /\ stack' = [stack EXCEPT ![p] = Empty("none"), ![mapped].return_val = p]
          /\ at' = "add_return_val"
          /\ UNCHANGED <<running, ready, blocked, cpu, mapped, ptbr1>>

(***************************************************************************)
(* The loop of KernelWait goes round once its process has been woken.      *)
(***************************************************************************)
WaitAgain ==
  /\ at = "block" /\ stack[mapped].handler = "Wait"
  /\ at' = "handler"
  /\ UNCHANGED <<procVars, uc, kc, stack, cpu, mapped, ptbr1>>

-----------------------------------------------------------------------------
add_return_val ==
  /\ at = "add_return_val"
  /\ uc' = [uc EXCEPT ![running] = stack[mapped].return_val]
  /\ at' = "restore_uc"
  /\ UNCHANGED <<procVars, kc, stack, cpu, mapped, ptbr1>>

(***************************************************************************)
(* restore_uc, and the return from the trap, which empties the stack.      *)
(***************************************************************************)
restore_uc ==
  /\ at = "restore_uc"
  /\ cpu' = uc[running]
  /\ stack' = [stack EXCEPT ![mapped] = Empty("none")]
  /\ at' = "user"
  /\ UNCHANGED <<procVars, uc, kc, mapped, ptbr1>>

Next ==
  \/ idle_setup \/ Instruction
  \/ Trap("TrapClock") \/ \E h \in Syscall : running # Idle /\ Trap(h)
  \/ TrapClock \/ KernelGetPid \/ Unhandled \/ KernelDelay \/ DelayOver
  \/ KernelFork \/ copy_kernel \/ Forked \/ KernelExec \/ KernelExit
  \/ KernelWait \/ WaitAgain
  \/ add_return_val \/ restore_uc

Spec == Init /\ [][Next]_vars

-----------------------------------------------------------------------------
(***************************************************************************)
(* The kernel works on the stack and in the user memory of the process it  *)
(* takes for the running one; every process that may be dispatched has a   *)
(* kernel context and, on its own stack, the frames that this context will *)
(* return through, although Fork makes both by copying and a node may be   *)
(* that of a process which ended in the middle of some handler.            *)
(***************************************************************************)
Copying(p) == at = "copy_kernel" /\ p = stack[running].child

Continuation(n) == <<kc[n], stack[n].handler>>

Dispatchable ==
  {<<"restore_uc", "KernelStart">>, <<"restore_uc", "TrapClock">>,
   <<"forked", "Fork">>, <<"block", "Delay">>, <<"block", "Wait">>}

Alive == {p \in Proc : status[p] = "alive"}

KernelContextsFit ==
  /\ mapped = running /\ ptbr1 = running
  /\ Alive = ({running} \ {Idle}) \cup ready \cup blocked
  /\ ready \cap blocked = {} /\ running \notin ready \cup blocked
  /\ \A n \in Alive \cup {Idle} :
       n = running \/ Copying(n) \/ at = "idle_setup" \/ Continuation(n) \in Dispatchable

(***************************************************************************)
(* User code sees private machines (UserMachines).  The registers of a     *)
(* process are in the processor or in its pcb; what it is owed shows in    *)
(* the place where its kernel context will continue.                       *)
(***************************************************************************)
Place(p) == IF p = running THEN at ELSE kc[p]

RegOf(p) == IF Place(p) = "user" THEN cpu ELSE uc[p]

Owed(p) ==
  LET top == stack[p]
  IN  IF status[p] # "alive" THEN <<"nothing">>
      ELSE IF Copying(p) THEN <<"result", 0>>
      ELSE CASE Place(p) \in {"handler", "block"} /\ top.handler # "TrapClock" ->
                  <<"call", top.handler>>
             [] Place(p) = "copy_kernel" -> <<"result", top.child>>
             [] Place(p) = "forked" ->
                  <<"result", IF p = top.parent THEN top.child ELSE 0>>
             [] Place(p) = "add_return_val" -> <<"result", top.return_val>>
             [] OTHER -> <<"nothing">>

Machines == INSTANCE UserMachines WITH
  reg <- [p \in Proc |-> RegOf(p)], owed <- [p \in Proc |-> Owed(p)]
ImplementsUserMachines == Machines!Spec

=============================================================================
