-------------------------- MODULE ContextSwitchProofs --------------------------
(***************************************************************************)
(* Proofs about ContextSwitch: the kernel always works on the stack and in *)
(* the memory of the process it takes for the running one, every process   *)
(* that may be dispatched has a kernel context that fits its own stack,    *)
(* and what user code sees are the private machines of UserMachines.       *)
(***************************************************************************)
EXTENDS ContextSwitch, TLAPS

(***************************************************************************)
(* The types.  The place "dead" is never continued from, "nowhere" is that *)
(* of a node without a kernel context.                                     *)
(***************************************************************************)
KernelPlace == {"nowhere", "restore_uc", "forked", "block", "dead"}
At == {"idle_setup", "user", "handler", "restore_uc", "copy_kernel", "forked",
       "block", "add_return_val"}
Handler == Syscall \cup {"TrapClock", "KernelStart", "none"}
Frame == [uctxt : Word, handler : Handler, return_val : Word,
          parent : Node, child : Node]

TypeOK ==
  /\ status \in [Proc -> {"free", "alive", "defunct"}]
  /\ running \in Node /\ ready \subseteq Proc /\ blocked \subseteq Proc
  /\ uc \in [Node -> Word] /\ kc \in [Node -> KernelPlace]
  /\ stack \in [Node -> Frame]
  /\ cpu \in Word /\ at \in At

(***************************************************************************)
(* The place where the kernel is and the handler that it runs, which the   *)
(* top of the current stack names, agree.                                  *)
(***************************************************************************)
PlaceFits ==
  /\ at = "idle_setup" =>
       running = InitProc /\ ready = {} /\ blocked = {} /\ stack[running].handler = "KernelStart"
  /\ at = "handler" => stack[running].handler \in Syscall \cup {"TrapClock"}
  /\ at \in {"copy_kernel", "forked"} => stack[running].handler = "Fork"
  /\ at = "copy_kernel" => stack[running].parent = running /\ stack[running].child \in ready
  /\ at = "block" => stack[running].handler \in {"Delay", "Wait"}

(***************************************************************************)
(* Idle makes no system call: it is interrupted, and goes on waiting.      *)
(***************************************************************************)
IdleWaits ==
  /\ running = Idle => at \in {"user", "restore_uc"} \/ Handling("TrapClock")
  /\ running # Idle => at = "idle_setup" \/ kc[Idle] = "restore_uc"

(***************************************************************************)
(* Whoever returns from copy_kernel finds a child on its stack.            *)
(***************************************************************************)
ForkNamesChild ==
  \A p \in Alive : Place(p) = "forked" /\ ~Copying(p) => stack[p].child \in Proc

IInv == TypeOK /\ KernelContextsFit /\ PlaceFits /\ IdleWaits /\ ForkNamesChild

-----------------------------------------------------------------------------
LEMMA InitFits == Init => IInv
<1> SUFFICES ASSUME Init PROVE IInv
    OBVIOUS
<1>1. TypeOK
  BY ContextSwitchAssumption
     DEF Init, TypeOK, Frame, Handler, KernelPlace, At, Node, Word, Empty, NewFrame
<1>2. Alive = {InitProc}
  BY ContextSwitchAssumption DEF Init, Alive
<1>3. KernelContextsFit
  BY <1>2, ContextSwitchAssumption DEF Init, KernelContextsFit
<1>4. PlaceFits
  BY ContextSwitchAssumption DEF Init, PlaceFits, Empty, NewFrame, Node
<1>5. IdleWaits
  BY ContextSwitchAssumption DEF Init, IdleWaits
<1>6. ForkNamesChild
  BY <1>2 DEF Init, ForkNamesChild, Place
<1> QED
  BY <1>1, <1>3, <1>4, <1>5, <1>6 DEF IInv

(***************************************************************************)
(* What the invariant says of the process that the kernel works for.       *)
(***************************************************************************)
LEMMA Current ==
  ASSUME IInv
  PROVE  /\ mapped = running /\ running \in Node /\ stack[running] \in Frame
         /\ running # Idle => running \in Alive /\ running \in Proc
         /\ Alive \subseteq Proc /\ Idle \notin Alive /\ Idle \notin Proc
         /\ Alive = ({running} \ {Idle}) \cup ready \cup blocked
BY ContextSwitchAssumption DEF IInv, TypeOK, KernelContextsFit, Node, Alive

(***************************************************************************)
(* A step within the kernel, or between it and user mode, that stays with  *)
(* the process, leaves the contexts of the others and starts or ends no    *)
(* process keeps everything that the invariant says of the others.         *)
(***************************************************************************)
LEMMA Stay ==
  ASSUME IInv, at # "copy_kernel", at # "idle_setup",
         at' # "copy_kernel", at' # "idle_setup",
         UNCHANGED <<procVars, kc, mapped, ptbr1>>,
         \A n \in Node : n # running => stack'[n] = stack[n]
  PROVE  KernelContextsFit'
<1>1. /\ Alive' = Alive /\ running' = running /\ ready' = ready /\ blocked' = blocked
      /\ kc' = kc /\ mapped' = mapped /\ ptbr1' = ptbr1
  BY DEF procVars, Alive
<1>2. ASSUME NEW n \in Alive \cup {Idle}, n # running
      PROVE  Continuation(n)' \in Dispatchable
  <2>1. n \in Node
    BY DEF Alive, Node
  <2>2. Continuation(n) \in Dispatchable
    BY <1>2 DEF IInv, KernelContextsFit, Copying
  <2> QED
    BY <1>1, <1>2, <2>1, <2>2 DEF Continuation
<1> QED
  BY <1>1, <1>2 DEF IInv, KernelContextsFit

(***************************************************************************)
(* Another process is dispatched: it goes on where its own stack says.     *)
(***************************************************************************)
LEMMA Dispatch ==
  ASSUME IInv, at = "handler",
         NEW next, next = Idle \/ next \in ready \cup blocked, next # running,
         NEW place, KCSwitch(running, next, place), running' = next, stack' = stack,
         running = Idle => place = "restore_uc",
         running \in Alive' \cup {Idle} =>
           <<place, stack[running].handler>> \in Dispatchable /\ place # "forked",
         Alive' \subseteq Alive, Alive' = ({next} \ {Idle}) \cup ready' \cup blocked',
         ready' \cap blocked' = {}, next \notin ready' \cup blocked'
  PROVE  KernelContextsFit' /\ PlaceFits' /\ IdleWaits' /\ ForkNamesChild'
<1>1. /\ mapped' = next /\ ptbr1' = next /\ at' = kc'[next]
      /\ kc' = [kc EXCEPT ![running] = place]
  BY DEF KCSwitch
<1>2. /\ running \in Node /\ next \in Node /\ next \in Alive \cup {Idle}
      /\ Alive \subseteq Node /\ Idle \in Node
  BY DEF IInv, TypeOK, KernelContextsFit, Node, Alive
<1>3. /\ \A n \in Node : n # running => kc'[n] = kc[n]
      /\ kc'[running] = place
  BY <1>1, <1>2 DEF IInv, TypeOK
<1>4. ASSUME NEW n \in Alive \cup {Idle}, n # running
      PROVE  Continuation(n)' \in Dispatchable
  <2>1. Continuation(n) \in Dispatchable
    BY <1>4 DEF IInv, KernelContextsFit, Copying
  <2> QED
    BY <2>1, <1>2, <1>3, <1>4 DEF Continuation
<1>5. /\ <<at', stack'[next].handler>> \in Dispatchable
      /\ at' = kc[next]
  BY <1>1, <1>2, <1>3, <1>4 DEF Continuation
<1>6. /\ at' # "copy_kernel" /\ at' # "idle_setup" /\ at' # "handler" /\ at' # "user"
      /\ at' = "forked" => stack'[next].handler = "Fork"
      /\ at' = "block" => stack'[next].handler \in {"Delay", "Wait"}
  BY <1>5 DEF Dispatchable
<1>7. KernelContextsFit'
  <2>1. ASSUME NEW n \in (Alive \cup {Idle})', n # running'
        PROVE  Continuation(n)' \in Dispatchable
    <3>1. CASE n # running
      BY <3>1, <1>4
    <3>2. CASE n = running
      BY <3>2, <1>3 DEF Continuation
    <3> QED
      BY <3>1, <3>2
  <2> QED
    BY <2>1, <1>1 DEF KernelContextsFit
<1>8. PlaceFits'
  BY <1>6 DEF PlaceFits
<1>9. IdleWaits'
  <2>1. CASE next = Idle
    <3>1. at' = "restore_uc"
      BY <2>1, <1>5 DEF IInv, IdleWaits
    <3> QED
      BY <2>1, <3>1 DEF IdleWaits
  <2>2. CASE next # Idle
    <3>1. CASE running = Idle
      BY <3>1, <2>2, <1>3 DEF IdleWaits
    <3>2. CASE running # Idle
      BY <3>2, <2>2, <1>2, <1>3 DEF IInv, IdleWaits
    <3> QED
      BY <3>1, <3>2
  <2> QED
    BY <2>1, <2>2
<1>10. ForkNamesChild'
  <2>1. ASSUME NEW p \in Alive', Place(p)' = "forked"
        PROVE  stack[p].child \in Proc
    <3>1. p \in Node /\ p \in Alive
      BY <1>2
    <3>2. kc'[p] = "forked"
      BY <2>1, <1>1, <3>1 DEF Place
    <3>3. p # running
      BY <3>2, <2>1, <1>3
    <3>4. Place(p) = "forked"
      BY <3>1, <3>2, <3>3, <1>3 DEF Place
    <3>5. ~Copying(p)
      BY DEF Copying
    <3> QED
      BY <3>1, <3>4, <3>5 DEF IInv, ForkNamesChild
  <2> QED
    BY <2>1 DEF ForkNamesChild
<1> QED
  BY <1>7, <1>8, <1>9, <1>10

-----------------------------------------------------------------------------
LEMMA IdleSetupFits == IInv /\ idle_setup => IInv'
<1> SUFFICES ASSUME IInv, idle_setup PROVE IInv'
    OBVIOUS
<1>1. /\ running = InitProc /\ ready = {} /\ blocked = {} /\ mapped = running
      /\ stack[running].handler = "KernelStart" /\ running # Idle
      /\ Idle \in Node /\ InitProc \in Node /\ Alive = {running}
  BY ContextSwitchAssumption, Current DEF idle_setup, IInv, PlaceFits, KernelContextsFit, Node
<1>2. /\ kc' = [kc EXCEPT ![Idle] = "restore_uc"]
      /\ stack' = [stack EXCEPT ![Idle] = stack[running]]
      /\ uc' = [uc EXCEPT ![Idle] = stack[running].uctxt]
      /\ at' = "restore_uc" /\ cpu' = cpu /\ mapped' = mapped /\ ptbr1' = ptbr1
      /\ UNCHANGED <<status, running, ready, blocked>>
  BY <1>1 DEF idle_setup, KCCopy, procVars
<1>3. stack[running] \in Frame
  BY Current
<1>4. TypeOK'
  <2>1. /\ stack' \in [Node -> Frame] /\ uc' \in [Node -> Word]
        /\ kc' \in [Node -> KernelPlace]
    BY <1>1, <1>2, <1>3 DEF IInv, TypeOK, Frame, KernelPlace
  <2> QED
    BY <2>1, <1>2 DEF IInv, TypeOK, At
<1>5. kc'[Idle] = "restore_uc" /\ stack'[Idle].handler = "KernelStart"
  BY <1>1, <1>2 DEF IInv, TypeOK
<1>6. Alive' = {running}
  BY <1>1, <1>2 DEF Alive
<1>7. KernelContextsFit'
  BY <1>1, <1>2, <1>5, <1>6 DEF IInv, KernelContextsFit, Continuation, Dispatchable
<1>8. PlaceFits' /\ IdleWaits'
  BY <1>1, <1>2, <1>5 DEF PlaceFits, IdleWaits
<1>9. ForkNamesChild'
  BY <1>2, <1>6 DEF ForkNamesChild, Place
<1> QED
  BY <1>4, <1>7, <1>8, <1>9 DEF IInv

LEMMA InstructionFits == IInv /\ Instruction => IInv'
<1> SUFFICES ASSUME IInv, Instruction PROVE IInv'
    OBVIOUS
<1>1. /\ at = "user" /\ at' = at /\ cpu' \in Word /\ stack' = stack
      /\ UNCHANGED <<status, running, ready, blocked, uc, kc, mapped, ptbr1>>
  BY DEF Instruction, procVars, machine, Word
<1>2. TypeOK'
  BY <1>1 DEF IInv, TypeOK
<1>3. KernelContextsFit'
  BY <1>1, Stay DEF procVars
<1>4. PlaceFits' /\ IdleWaits'
  BY <1>1 DEF IInv, PlaceFits, IdleWaits
<1>5. ForkNamesChild'
  BY <1>1 DEF IInv, ForkNamesChild, Alive, Place, Copying
<1> QED
  BY <1>2, <1>3, <1>4, <1>5 DEF IInv

(***************************************************************************)
(* A step that stays with the process and goes to a place outside Fork     *)
(* owes ForkNamesChild nothing.                                            *)
(***************************************************************************)
LEMMA StayNamesChild ==
  ASSUME IInv, at # "copy_kernel", at' # "copy_kernel", at' # "forked",
         UNCHANGED <<procVars, kc>>,
         \A n \in Node : n # running => stack'[n] = stack[n]
  PROVE  ForkNamesChild'
<1>1. Alive' = Alive /\ running' = running /\ kc' = kc
  BY DEF procVars, Alive
<1>2. ASSUME NEW p \in Alive, Place(p)' = "forked"
      PROVE  stack'[p].child \in Proc
  <2>1. p # running /\ p \in Node
    BY <1>1, <1>2 DEF Place, Alive, Node
  <2>2. Place(p) = "forked" /\ ~Copying(p)
    BY <1>1, <1>2, <2>1 DEF Place, Copying
  <2> QED
    BY <2>1, <2>2 DEF IInv, ForkNamesChild
<1> QED
  BY <1>1, <1>2 DEF ForkNamesChild

LEMMA TrapFits ==
  ASSUME IInv, NEW h \in Syscall \cup {"TrapClock"}, Trap(h),
         h = "TrapClock" \/ running # Idle
  PROVE  IInv'
<1> DEFINE top == NewFrame(cpu, h)
<1>1. mapped = running /\ running \in Node
  BY Current
<1>2. /\ at = "user" /\ at' = "handler" /\ cpu' = 0
      /\ stack' = [stack EXCEPT ![running] = top]
      /\ uc' = [uc EXCEPT ![running] = cpu]
      /\ UNCHANGED <<status, running, ready, blocked, kc, mapped, ptbr1>>
  BY <1>1 DEF Trap, save_uc, procVars
<1>3. top \in Frame /\ top.handler = h
  BY DEF IInv, TypeOK, Frame, NewFrame, Handler, Word, Node
<1> HIDE DEF top
<1>4. /\ stack' \in [Node -> Frame] /\ stack'[running].handler = h
      /\ \A n \in Node : n # running => stack'[n] = stack[n]
  BY <1>1, <1>2, <1>3 DEF IInv, TypeOK
<1>5. TypeOK'
  BY <1>1, <1>2, <1>4 DEF IInv, TypeOK, At, Word
<1>6. KernelContextsFit' /\ ForkNamesChild'
  BY <1>2, <1>4, Stay, StayNamesChild DEF procVars
<1>7. PlaceFits' /\ IdleWaits'
  BY <1>1, <1>2, <1>4 DEF IInv, PlaceFits, IdleWaits, Handling
<1> QED
  BY <1>5, <1>6, <1>7 DEF IInv

(***************************************************************************)
(* A handler has a result.                                                 *)
(***************************************************************************)
LEMMA ReturnsFits ==
  ASSUME IInv, NEW r \in Word, Returns(r), UNCHANGED <<status, uc>>,
         at \in {"handler", "block", "forked"}, running # Idle
  PROVE  IInv'
<1>1. mapped = running /\ running \in Node /\ stack[running] \in Frame
  BY Current
<1>2. /\ at' = "add_return_val"
      /\ stack' = [stack EXCEPT ![running].return_val = r]
      /\ UNCHANGED <<status, running, ready, blocked, uc, kc, cpu, mapped, ptbr1>>
  BY <1>1 DEF Returns
<1>3. [stack[running] EXCEPT !.return_val = r] \in Frame
  BY <1>1 DEF Frame
<1>4. /\ stack' \in [Node -> Frame]
      /\ \A n \in Node : n # running => stack'[n] = stack[n]
  BY <1>1, <1>2, <1>3 DEF IInv, TypeOK
<1>5. TypeOK'
  BY <1>2, <1>4 DEF IInv, TypeOK, At
<1>6. KernelContextsFit' /\ ForkNamesChild'
  BY <1>2, <1>4, Stay, StayNamesChild DEF procVars
<1>7. PlaceFits'
  BY <1>2 DEF PlaceFits
<1>8. IdleWaits'
  BY <1>2 DEF IInv, IdleWaits
<1> QED
  BY <1>5, <1>6, <1>7, <1>8 DEF IInv

(***************************************************************************)
(* The process that a system call works for is not idle.                   *)
(***************************************************************************)
LEMMA CallerIsProcess ==
  ASSUME IInv,
         \/ at = "handler" /\ stack[mapped].handler # "TrapClock"
         \/ at \in {"block", "forked", "copy_kernel", "add_return_val"}
  PROVE  running # Idle
BY Current DEF IInv, IdleWaits, Handling

LEMMA GetPidFits == IInv /\ KernelGetPid => IInv'
<1> SUFFICES ASSUME IInv, KernelGetPid PROVE IInv'
    OBVIOUS
<1>1. at = "handler" /\ stack[mapped].handler = "GetPid"
  BY DEF KernelGetPid, Handling
<1>2. running # Idle
  BY <1>1, CallerIsProcess
<1>3. running \in Word
  BY <1>2, Current DEF Word
<1> QED
  BY <1>1, <1>2, <1>3, ReturnsFits DEF KernelGetPid

LEMMA UnhandledFits == IInv /\ Unhandled => IInv'
<1> SUFFICES ASSUME IInv, Unhandled PROVE IInv'
    OBVIOUS
<1>1. at = "handler" /\ stack[mapped].handler = "unknown"
  BY DEF Unhandled, Handling
<1>2. running # Idle
  BY <1>1, CallerIsProcess
<1> QED
  BY <1>1, <1>2, ReturnsFits DEF Unhandled

LEMMA DelayOverFits == IInv /\ DelayOver => IInv'
<1> SUFFICES ASSUME IInv, DelayOver PROVE IInv'
    OBVIOUS
<1>1. at = "block" /\ 0 \in Word
  BY DEF DelayOver, Word
<1>2. running # Idle
  BY <1>1, CallerIsProcess
<1> QED
  BY <1>1, <1>2, ReturnsFits DEF DelayOver

LEMMA ForkedFits == IInv /\ Forked => IInv'
<1> SUFFICES ASSUME IInv, Forked PROVE IInv'
    OBVIOUS
<1>1. at = "forked"
  BY DEF Forked
<1>2. running # Idle
  BY <1>1, CallerIsProcess
<1>3. mapped = running /\ running \in Alive
  BY <1>2, Current
<1>4. stack[running].child \in Proc
  BY <1>1, <1>3 DEF IInv, ForkNamesChild, Place, Copying
<1>5. WhoAmI(stack[mapped]) \in Word
  BY <1>3, <1>4 DEF WhoAmI, Word
<1> QED
  BY <1>1, <1>2, <1>5, ReturnsFits DEF Forked

LEMMA WaitAgainFits == IInv /\ WaitAgain => IInv'
<1> SUFFICES ASSUME IInv, WaitAgain PROVE IInv'
    OBVIOUS
<1>1. /\ at = "block" /\ at' = "handler" /\ stack[mapped].handler = "Wait"
      /\ stack' = stack
      /\ UNCHANGED <<status, running, ready, blocked, uc, kc, cpu, mapped, ptbr1>>
  BY DEF WaitAgain, procVars
<1>2. running # Idle /\ mapped = running
  BY <1>1, CallerIsProcess, Current
<1>3. TypeOK'
  BY <1>1 DEF IInv, TypeOK, At
<1>4. KernelContextsFit' /\ ForkNamesChild'
  BY <1>1, Stay, StayNamesChild DEF procVars
<1>5. PlaceFits'
  BY <1>1, <1>2 DEF PlaceFits, Syscall
<1>6. IdleWaits'
  BY <1>1, <1>2 DEF IInv, IdleWaits
<1> QED
  BY <1>3, <1>4, <1>5, <1>6 DEF IInv

LEMMA AddReturnValFits == IInv /\ add_return_val => IInv'
<1> SUFFICES ASSUME IInv, add_return_val PROVE IInv'
    OBVIOUS
<1>1. mapped = running /\ running \in Node /\ stack[running] \in Frame
  BY Current
<1>2. /\ at = "add_return_val" /\ at' = "restore_uc" /\ stack' = stack
      /\ uc' = [uc EXCEPT ![running] = stack[running].return_val]
      /\ UNCHANGED <<status, running, ready, blocked, kc, cpu, mapped, ptbr1>>
  BY <1>1 DEF add_return_val, procVars
<1>3. stack[running].return_val \in Word
  BY <1>1 DEF Frame
<1>4. TypeOK'
  BY <1>1, <1>2, <1>3 DEF IInv, TypeOK, At
<1>5. KernelContextsFit' /\ ForkNamesChild'
  BY <1>2, Stay, StayNamesChild DEF procVars
<1>6. PlaceFits' /\ IdleWaits'
  BY <1>2 DEF IInv, PlaceFits, IdleWaits
<1> QED
  BY <1>4, <1>5, <1>6 DEF IInv

LEMMA RestoreUcFits == IInv /\ restore_uc => IInv'
<1> SUFFICES ASSUME IInv, restore_uc PROVE IInv'
    OBVIOUS
<1> DEFINE top == Empty("none")
<1>1. mapped = running /\ running \in Node
  BY Current
<1>2. /\ at = "restore_uc" /\ at' = "user" /\ cpu' = uc[running]
      /\ stack' = [stack EXCEPT ![running] = top]
      /\ UNCHANGED <<status, running, ready, blocked, uc, kc, mapped, ptbr1>>
  BY <1>1 DEF restore_uc, procVars
<1>3. top \in Frame
  BY DEF Frame, Empty, NewFrame, Handler, Word, Node
<1> HIDE DEF top
<1>4. /\ stack' \in [Node -> Frame]
      /\ \A n \in Node : n # running => stack'[n] = stack[n]
  BY <1>1, <1>2, <1>3 DEF IInv, TypeOK
<1>5. TypeOK'
  BY <1>1, <1>2, <1>4 DEF IInv, TypeOK, At
<1>6. KernelContextsFit' /\ ForkNamesChild'
  BY <1>2, <1>4, Stay, StayNamesChild DEF procVars
<1>7. PlaceFits' /\ IdleWaits'
  BY <1>2 DEF IInv, PlaceFits, IdleWaits
<1> QED
  BY <1>5, <1>6, <1>7 DEF IInv

-----------------------------------------------------------------------------
(***************************************************************************)
(* The processes that a handler wakes were blocked.                        *)
(***************************************************************************)
LEMMA WokenWereBlocked ==
  ASSUME NEW woken \in Woken
  PROVE  woken \subseteq blocked
BY DEF Woken

LEMMA TrapClockFits == IInv /\ TrapClock => IInv'
<1> SUFFICES ASSUME IInv, TrapClock PROVE IInv'
    OBVIOUS
<1>1. /\ mapped = running /\ running \in Node
      /\ running # Idle => running \in Alive /\ running \in Proc
      /\ Idle \notin Alive
      /\ Alive = ({running} \ {Idle}) \cup ready \cup blocked
  BY Current
<1>2. at = "handler" /\ stack[running].handler = "TrapClock" /\ stack' = stack
      /\ status' = status /\ uc' = uc /\ cpu' = cpu
  BY <1>1 DEF TrapClock, Handling
<1>3. Alive' = Alive
  BY <1>2 DEF Alive
<1>4. PICK woken \in Woken :
        /\ blocked' = blocked \ woken
        /\ \/ /\ ready \cup woken = {}
              /\ at' = "restore_uc"
              /\ UNCHANGED <<running, ready, kc, mapped, ptbr1>>
           \/ /\ ready \cup woken # {}
              /\ \E next \in ready \cup woken :
                   /\ running' = next
                   /\ ready' = ((ready \cup woken) \ {next}) \cup ({running} \ {Idle})
                   /\ KCSwitch(running, next, "restore_uc")
  BY DEF TrapClock
<1>5. woken \subseteq blocked
  BY WokenWereBlocked
<1>6. CASE ready \cup woken = {}
  <2>1. at' = "restore_uc" /\ UNCHANGED <<running, ready, blocked, kc, mapped, ptbr1>>
    BY <1>4, <1>6
  <2>2. TypeOK'
    BY <2>1, <1>2 DEF IInv, TypeOK, At
  <2>3. KernelContextsFit' /\ ForkNamesChild'
    BY <2>1, <1>2, Stay, StayNamesChild DEF procVars
  <2>4. PlaceFits' /\ IdleWaits'
    BY <2>1, <1>2 DEF IInv, PlaceFits, IdleWaits
  <2> QED
    BY <2>2, <2>3, <2>4 DEF IInv
<1>7. CASE ready \cup woken # {}
  <2>1. PICK next \in ready \cup woken :
          /\ running' = next
          /\ ready' = ((ready \cup woken) \ {next}) \cup ({running} \ {Idle})
          /\ KCSwitch(running, next, "restore_uc")
    BY <1>4, <1>7
  <2>2. /\ running \notin ready \cup blocked /\ ready \cap blocked = {}
        /\ ready \subseteq Proc /\ blocked \subseteq Proc
    BY DEF IInv, TypeOK, KernelContextsFit
  <2>3. next # running /\ next \in ready \cup blocked /\ next \in Proc /\ next # Idle
    BY <2>1, <2>2, <1>5, ContextSwitchAssumption
  <2>4. /\ Alive' = ({next} \ {Idle}) \cup ready' \cup blocked'
        /\ ready' \cap blocked' = {} /\ next \notin ready' \cup blocked'
    BY <2>1, <2>2, <2>3, <1>1, <1>3, <1>4, <1>5
  <2>5. <<"restore_uc", stack[running].handler>> \in Dispatchable
    BY <1>2 DEF Dispatchable
  <2>6. KernelContextsFit' /\ PlaceFits' /\ IdleWaits' /\ ForkNamesChild'
    BY <2>1, <2>3, <2>4, <2>5, <1>2, <1>3, Dispatch
  <2>7. at' \in At
    <3>1. at' \in KernelPlace /\ at' # "nowhere" /\ at' # "dead"
      <4>1. /\ kc'[next] = kc[next] /\ at' = kc'[next] /\ kc[next] \in KernelPlace
        BY <2>1, <2>3 DEF KCSwitch, IInv, TypeOK, Node
      <4>2. Continuation(next) \in Dispatchable
        BY <2>3, <1>1, <1>2 DEF IInv, KernelContextsFit, Copying
      <4> QED
        BY <4>1, <4>2 DEF Continuation, Dispatchable
    <3> QED
      BY <3>1 DEF At, KernelPlace
  <2>8. kc' \in [Node -> KernelPlace]
    BY <2>1 DEF KCSwitch, IInv, TypeOK, KernelPlace
  <2>9. running' \in Node /\ ready' \subseteq Proc /\ blocked' \subseteq Proc
    BY <2>1, <2>2, <2>3, <1>1, <1>4, <1>5 DEF Node
  <2>10. TypeOK'
    BY <2>7, <2>8, <2>9, <1>2 DEF IInv, TypeOK
  <2> QED
    BY <2>6, <2>10 DEF IInv
<1> QED
  BY <1>6, <1>7

(***************************************************************************)
(* run_next_ready, after the running process has been blocked or has       *)
(* ended.                                                                  *)
(***************************************************************************)
LEMMA RunNextReadyFits ==
  ASSUME IInv, at = "handler", running # Idle,
         NEW rd, NEW place \in {"block", "dead"}, RunNextReady(rd, place),
         rd \subseteq ready \cup blocked,
         Alive' = rd \cup blocked', rd \cap blocked' = {}, Alive' \subseteq Alive,
         running \in Alive' => <<place, stack[running].handler>> \in Dispatchable,
         blocked' \subseteq Proc, status' \in [Proc -> {"free", "alive", "defunct"}],
         UNCHANGED <<uc, stack, cpu>>
  PROVE  IInv'
<1>1. PICK next \in IF rd = {} THEN {Idle} ELSE rd :
        running' = next /\ ready' = rd \ {next} /\ KCSwitch(running, next, place)
  BY DEF RunNextReady
<1>2. /\ running \notin ready \cup blocked /\ ready \subseteq Proc /\ blocked \subseteq Proc
      /\ running \in Node /\ Idle \notin Proc
  BY ContextSwitchAssumption DEF IInv, TypeOK, KernelContextsFit
<1>3. /\ \/ next = Idle /\ rd = {}
         \/ next \in rd /\ next \in Proc /\ next # Idle
      /\ next # running
      /\ next = Idle \/ next \in ready \cup blocked
  BY <1>1, <1>2
<1>4. /\ Alive' = ({next} \ {Idle}) \cup ready' \cup blocked'
      /\ ready' \cap blocked' = {} /\ next \notin ready' \cup blocked'
  <2>1. CASE next = Idle /\ rd = {}
    BY <2>1, <1>1, <1>2
  <2>2. CASE next \in rd /\ next # Idle
    BY <2>2, <1>1, <1>2
  <2> QED
    BY <1>3, <2>1, <2>2
<1>5. place # "forked"
  OBVIOUS
<1>6. KernelContextsFit' /\ PlaceFits' /\ IdleWaits' /\ ForkNamesChild'
  BY <1>1, <1>3, <1>4, <1>5, Dispatch
<1>7. at' \in At
  <2>1. next \in Node /\ next \in Alive \cup {Idle}
    BY <1>2, <1>3, Current DEF Node
  <2>2. /\ kc'[next] = kc[next] /\ at' = kc'[next] /\ kc[next] \in KernelPlace
    BY <1>1, <1>3, <2>1 DEF KCSwitch, IInv, TypeOK
  <2>3. Continuation(next) \in Dispatchable
    BY <1>3, <2>1 DEF IInv, KernelContextsFit, Copying
  <2> QED
    BY <2>2, <2>3 DEF Continuation, Dispatchable, At
<1>8. kc' \in [Node -> KernelPlace]
  BY <1>1 DEF KCSwitch, IInv, TypeOK, KernelPlace
<1>9. running' \in Node /\ ready' \subseteq Proc
  BY <1>1, <1>2, <1>3 DEF Node
<1>10. TypeOK'
  BY <1>7, <1>8, <1>9 DEF IInv, TypeOK
<1> QED
  BY <1>6, <1>10 DEF IInv

(***************************************************************************)
(* block_delay and block_wait.                                             *)
(***************************************************************************)
LEMMA BlockFits ==
  ASSUME IInv, at = "handler", stack[mapped].handler \in {"Delay", "Wait"},
         blocked' = blocked \cup {running}, RunNextReady(ready, "block"),
         UNCHANGED <<status, uc, stack, cpu>>
  PROVE  IInv'
<1>1. running # Idle
  BY CallerIsProcess
<1>2. /\ mapped = running /\ running \in Alive /\ running \in Proc
      /\ Alive = ({running} \ {Idle}) \cup ready \cup blocked
  BY <1>1, Current
<1>3. /\ running \notin ready \cup blocked /\ ready \cap blocked = {}
      /\ blocked \subseteq Proc /\ ready \subseteq ready \cup blocked
      /\ status \in [Proc -> {"free", "alive", "defunct"}]
  BY DEF IInv, TypeOK, KernelContextsFit
<1>4. Alive' = Alive
  BY DEF Alive
<1>5. Alive' = ready \cup blocked' /\ ready \cap blocked' = {} /\ blocked' \subseteq Proc
  BY <1>1, <1>2, <1>3, <1>4
<1>6. <<"block", stack[running].handler>> \in Dispatchable
  BY <1>2 DEF Dispatchable
<1>7. "block" \in {"block", "dead"}
  OBVIOUS
<1> QED
  BY <1>1, <1>3, <1>4, <1>5, <1>6, <1>7, RunNextReadyFits

LEMMA DelayFits == IInv /\ KernelDelay => IInv'
<1> SUFFICES ASSUME IInv, KernelDelay PROVE IInv'
    OBVIOUS
<1>1. at = "handler" /\ stack[mapped].handler = "Delay"
  BY DEF KernelDelay, Handling
<1>2. running # Idle
  BY <1>1, CallerIsProcess
<1>3. CASE \E r \in {0, ERROR} : Returns(r) /\ UNCHANGED <<status, uc>>
  BY <1>1, <1>2, <1>3, ReturnsFits DEF Word
<1>4. CASE /\ blocked' = blocked \cup {running} /\ RunNextReady(ready, "block")
           /\ UNCHANGED <<status, uc, stack, cpu>>
  BY <1>1, <1>4, BlockFits
<1> QED
  BY <1>3, <1>4 DEF KernelDelay

LEMMA ExecFits == IInv /\ KernelExec => IInv'
<1> SUFFICES ASSUME IInv, KernelExec PROVE IInv'
    OBVIOUS
<1>1. at = "handler" /\ stack[mapped].handler = "Exec"
  BY DEF KernelExec, Handling
<1>2. running # Idle
  BY <1>1, CallerIsProcess
<1>3. CASE Returns(ERROR) /\ UNCHANGED <<status, uc>>
  BY <1>1, <1>2, <1>3, ReturnsFits DEF Word
<1>4. CASE at' = "restore_uc" /\ UNCHANGED <<procVars, uc, kc, stack, cpu, mapped, ptbr1>>
  <2>1. TypeOK'
    BY <1>4 DEF procVars, IInv, TypeOK, At
  <2>2. KernelContextsFit' /\ ForkNamesChild'
    BY <1>1, <1>4, Stay, StayNamesChild
  <2>3. PlaceFits' /\ IdleWaits'
    BY <1>1, <1>2, <1>4 DEF procVars, IInv, PlaceFits, IdleWaits
  <2> QED
    BY <2>1, <2>2, <2>3 DEF IInv
<1> QED
  BY <1>3, <1>4 DEF KernelExec

LEMMA ExitFits == IInv /\ KernelExit => IInv'
<1> SUFFICES ASSUME IInv, KernelExit PROVE IInv'
    OBVIOUS
<1>1. /\ at = "handler" /\ stack[mapped].handler # "TrapClock"
      /\ status' = [status EXCEPT ![running] = "defunct"]
      /\ UNCHANGED <<uc, stack, cpu>>
  BY DEF KernelExit, Handling
<1>2. running # Idle
  BY <1>1, CallerIsProcess
<1>3. /\ running \in Alive /\ running \in Proc
      /\ Alive = {running} \cup ready \cup blocked
  BY <1>2, Current
<1>4. /\ running \notin ready \cup blocked /\ ready \cap blocked = {}
      /\ blocked \subseteq Proc
      /\ status \in [Proc -> {"free", "alive", "defunct"}]
  BY DEF IInv, TypeOK, KernelContextsFit
<1>5. Alive' = Alive \ {running} /\ status' \in [Proc -> {"free", "alive", "defunct"}]
  BY <1>1, <1>3, <1>4 DEF Alive
<1>6. PICK woken \in Woken :
        blocked' = blocked \ woken /\ RunNextReady(ready \cup woken, "dead")
  BY DEF KernelExit
<1>7. woken \subseteq blocked
  BY WokenWereBlocked
<1>8. /\ Alive' = (ready \cup woken) \cup blocked' /\ (ready \cup woken) \cap blocked' = {}
      /\ ready \cup woken \subseteq ready \cup blocked /\ blocked' \subseteq Proc
      /\ Alive' \subseteq Alive /\ running \notin Alive'
  BY <1>3, <1>4, <1>5, <1>6, <1>7
<1>9. "dead" \in {"block", "dead"}
  OBVIOUS
<1> QED
  BY <1>1, <1>2, <1>5, <1>6, <1>8, <1>9, RunNextReadyFits

-----------------------------------------------------------------------------
(***************************************************************************)
(* A child is made and becomes ready.  Its kernel context and its stack    *)
(* are still missing: copy_kernel is next.                                 *)
(***************************************************************************)
LEMMA ForkFits == IInv /\ KernelFork => IInv'
<1> SUFFICES ASSUME IInv, KernelFork PROVE IInv'
    OBVIOUS
<1>1. at = "handler" /\ stack[mapped].handler = "Fork"
  BY DEF KernelFork, Handling
<1>2. running # Idle
  BY <1>1, CallerIsProcess
<1>3. CASE Returns(ERROR) /\ UNCHANGED <<status, uc>>
  BY <1>1, <1>2, <1>3, ReturnsFits DEF Word
<1>4. ASSUME NEW child \in Proc, status[child] = "free",
             status' = [status EXCEPT ![child] = "alive"],
             uc' = [uc EXCEPT ![child] = uc[running]],
             ready' = ready \cup {child},
             stack' = [stack EXCEPT ![mapped] =
                         [stack[mapped] EXCEPT !.parent = running, !.child = child]],
             at' = "copy_kernel",
             UNCHANGED <<running, blocked, kc, cpu, mapped, ptbr1>>
      PROVE  IInv'
  <2> DEFINE top == [stack[mapped] EXCEPT !.parent = running, !.child = child]
  <2>1. /\ mapped = running /\ running \in Proc /\ running \in Node /\ child \in Node
        /\ stack[running] \in Frame
        /\ Alive = {running} \cup ready \cup blocked
    BY <1>2, Current DEF Node
  <2>2. /\ top \in Frame /\ top.handler = "Fork"
        /\ top.parent = running /\ top.child = child
    BY <2>1, <1>1 DEF Frame
  <2>3. stack' = [stack EXCEPT ![running] = top]
    BY <1>4, <2>1
  <2> HIDE DEF top
  <2>4. /\ stack' \in [Node -> Frame] /\ stack'[running] = top
        /\ \A n \in Node : n # running => stack'[n] = stack[n]
    BY <2>1, <2>2, <2>3 DEF IInv, TypeOK
  <2>5. /\ uc' \in [Node -> Word] /\ status' \in [Proc -> {"free", "alive", "defunct"}]
        /\ ready' \subseteq Proc
    BY <2>1, <1>4 DEF IInv, TypeOK
  <2>6. TypeOK'
    BY <2>4, <2>5, <1>4 DEF IInv, TypeOK, At
  <2>7. Alive' = Alive \cup {child} /\ child \notin Alive
    BY <1>4 DEF IInv, TypeOK, Alive
  <2>8. child # running /\ child \notin ready \cup blocked /\ running' = running
    BY <2>1, <2>7, <1>4
  <2>9. Copying(child)'
    BY <2>2, <2>4, <2>8, <1>4 DEF Copying
  <2>10. ASSUME NEW n \in Alive \cup {Idle}, n # running
         PROVE  Continuation(n)' \in Dispatchable
    <3>1. n \in Node
      BY DEF Alive, Node
    <3>2. Continuation(n) \in Dispatchable
      BY <1>1, <2>10 DEF IInv, KernelContextsFit, Copying
    <3> QED
      BY <3>1, <3>2, <2>4, <2>10, <1>4 DEF Continuation
  <2>11. KernelContextsFit'
    <3>1. /\ mapped' = running' /\ ptbr1' = running'
          /\ Alive' = ({running'} \ {Idle}) \cup ready' \cup blocked'
          /\ ready' \cap blocked' = {} /\ running' \notin ready' \cup blocked'
      BY <2>1, <2>7, <2>8, <1>2, <1>4 DEF IInv, KernelContextsFit
    <3>2. ASSUME NEW n \in (Alive \cup {Idle})'
          PROVE  n = running' \/ Copying(n)' \/ Continuation(n)' \in Dispatchable
      BY <2>7, <2>8, <2>9, <2>10
    <3> QED
      BY <3>1, <3>2 DEF KernelContextsFit
  <2>12. PlaceFits'
    <3>1. at' = "copy_kernel" /\ child \in ready' /\ running' = running
      BY <1>4
    <3> QED
      BY <2>2, <2>4, <3>1 DEF PlaceFits
  <2>13. IdleWaits'
    BY <1>1, <1>2, <1>4 DEF IInv, IdleWaits
  <2>14. ForkNamesChild'
    <3>1. ASSUME NEW p \in Alive', Place(p)' = "forked", ~Copying(p)'
          PROVE  stack'[p].child \in Proc
      <4>1. p # child /\ p \in Alive
        BY <3>1, <2>7, <2>9
      <4>2. p # running
        BY <3>1, <2>8, <1>4 DEF Place
      <4>3. Place(p) = "forked" /\ ~Copying(p)
        BY <3>1, <4>2, <2>8, <1>1, <1>4 DEF Place, Copying
      <4>4. stack'[p] = stack[p]
        BY <4>1, <4>2, <2>4 DEF Alive, Node
      <4> QED
        BY <4>1, <4>3, <4>4 DEF IInv, ForkNamesChild
    <3> QED
      BY <3>1 DEF ForkNamesChild
  <2> QED
    BY <2>6, <2>11, <2>12, <2>13, <2>14 DEF IInv
<1> QED
  BY <1>3, <1>4 DEF KernelFork

(***************************************************************************)
(* The child gets the kernel context and the stack of its parent.          *)
(***************************************************************************)
LEMMA CopyKernelFits == IInv /\ copy_kernel => IInv'
<1> SUFFICES ASSUME IInv, copy_kernel PROVE IInv'
    OBVIOUS
<1> DEFINE child == stack[running].child
<1>1. /\ mapped = running /\ running \in Node /\ stack[running] \in Frame
  BY Current
<1>2. at = "copy_kernel"
  BY DEF copy_kernel
<1>3. /\ running # Idle /\ stack[running].handler = "Fork"
      /\ child \in ready /\ child \in Proc /\ child \in Node /\ child # running
      /\ child # Idle
  BY <1>2, CallerIsProcess, ContextSwitchAssumption
     DEF IInv, TypeOK, PlaceFits, KernelContextsFit, Node
<1>4. /\ kc' = [kc EXCEPT ![child] = "forked"]
      /\ stack' = [stack EXCEPT ![child] = stack[running]]
      /\ at' = "forked"
      /\ UNCHANGED <<status, running, ready, blocked, uc, cpu, mapped, ptbr1>>
  BY <1>1 DEF copy_kernel, KCCopy, procVars
<1>5. stack[running].child = child
  OBVIOUS
<1> HIDE DEF child
<1>6. /\ kc' \in [Node -> KernelPlace] /\ stack' \in [Node -> Frame]
      /\ kc'[child] = "forked" /\ stack'[child] = stack[running]
      /\ \A n \in Node : n # child => kc'[n] = kc[n] /\ stack'[n] = stack[n]
  BY <1>1, <1>3, <1>4 DEF IInv, TypeOK, KernelPlace
<1>7. stack'[running] = stack[running] /\ Alive' = Alive /\ Alive \subseteq Node
  BY <1>1, <1>3, <1>4, <1>6 DEF Alive, Node
<1>8. TypeOK'
  BY <1>4, <1>6 DEF IInv, TypeOK, At
<1>9. \A n : Copying(n) => n = child
  BY <1>5 DEF Copying
<1>10. KernelContextsFit'
  <2>1. ASSUME NEW n \in Alive \cup {Idle}, n # running
        PROVE  Continuation(n)' \in Dispatchable
    <3>1. CASE n = child
      BY <3>1, <1>3, <1>6 DEF Continuation, Dispatchable
    <3>2. CASE n # child
      <4>1. Continuation(n) \in Dispatchable
        BY <2>1, <3>2, <1>2, <1>9 DEF IInv, KernelContextsFit
      <4> QED
        BY <4>1, <3>2, <1>6, <1>7 DEF Continuation, Node
    <3> QED
      BY <3>1, <3>2
  <2> QED
    BY <2>1, <1>4, <1>7 DEF IInv, KernelContextsFit
<1>11. PlaceFits'
  BY <1>3, <1>4, <1>7 DEF PlaceFits
<1>12. IdleWaits'
  BY <1>2, <1>3, <1>4, <1>6 DEF IInv, IdleWaits, Node
<1>13. ForkNamesChild'
  <2>1. ASSUME NEW p \in Alive, Place(p)' = "forked"
        PROVE  stack'[p].child \in Proc
    <3>1. CASE p \in {child, running}
      BY <3>1, <1>3, <1>5, <1>6, <1>7
    <3>2. CASE p \notin {child, running}
      <4>1. Place(p) = "forked" /\ ~Copying(p)
        BY <2>1, <3>2, <1>4, <1>6, <1>7, <1>9 DEF Place
      <4> QED
        BY <4>1, <3>2, <1>6, <1>7 DEF IInv, ForkNamesChild
    <3> QED
      BY <3>1, <3>2
  <2> QED
    BY <2>1, <1>7 DEF ForkNamesChild
<1> QED
  BY <1>8, <1>10, <1>11, <1>12, <1>13 DEF IInv

(***************************************************************************)
(* KernelWait collects a defunct process, whose node nobody can dispatch.  *)
(***************************************************************************)
LEMMA CollectFits ==
  ASSUME IInv, at = "handler", stack[mapped].handler = "Wait",
         NEW p \in Proc, status[p] = "defunct",
         status' = [status EXCEPT ![p] = "free"],
         uc' = [uc EXCEPT ![p] = 0],
         kc' = [kc EXCEPT ![p] = "nowhere"],
         stack' = [stack EXCEPT ![p] = Empty("none"), ![mapped].return_val = p],
         at' = "add_return_val",
         UNCHANGED <<running, ready, blocked, cpu, mapped, ptbr1>>
  PROVE  IInv'
<1>1. running # Idle
  BY CallerIsProcess
<1>2. /\ mapped = running /\ running \in Node /\ stack[running] \in Frame
      /\ running \in Alive /\ Alive \subseteq Proc
  BY <1>1, Current
<1>3. p \in Node /\ p # Idle /\ p # running /\ p \notin Alive
  BY <1>2, ContextSwitchAssumption DEF Alive, Node
<1> DEFINE top == [stack[running] EXCEPT !.return_val = p]
           none == Empty("none")
<1>4. top \in Frame /\ none \in Frame
  BY <1>2 DEF Frame, Word, Empty, NewFrame, Handler, Node
<1>5. stack' = [[stack EXCEPT ![p] = none] EXCEPT ![running] = top]
  BY <1>2, <1>3 DEF IInv, TypeOK
<1> HIDE DEF top, none
<1>6. /\ stack' \in [Node -> Frame]
      /\ \A n \in Node : n \notin {p, running} => stack'[n] = stack[n]
  BY <1>2, <1>3, <1>4, <1>5 DEF IInv, TypeOK
<1>7. /\ kc' \in [Node -> KernelPlace] /\ uc' \in [Node -> Word]
      /\ status' \in [Proc -> {"free", "alive", "defunct"}]
      /\ \A n \in Node : n # p => kc'[n] = kc[n]
      /\ Alive' = Alive
  BY <1>3 DEF IInv, TypeOK, KernelPlace, Word, Alive
<1>8. TypeOK'
  BY <1>6, <1>7 DEF IInv, TypeOK, At
<1>9. KernelContextsFit'
  <2>1. ASSUME NEW n \in Alive \cup {Idle}, n # running
        PROVE  Continuation(n)' \in Dispatchable
    <3>1. n \in Node /\ n # p
      BY <1>2, <1>3 DEF Node
    <3>2. Continuation(n) \in Dispatchable
      BY <2>1 DEF IInv, KernelContextsFit, Copying
    <3> QED
      BY <2>1, <3>1, <3>2, <1>6, <1>7 DEF Continuation
  <2> QED
    BY <2>1, <1>7 DEF IInv, KernelContextsFit
<1>10. PlaceFits'
  BY DEF PlaceFits
<1>11. IdleWaits'
  BY <1>1, <1>3, <1>7 DEF IInv, IdleWaits, Node
<1>12. ForkNamesChild'
  <2>1. ASSUME NEW q \in Alive, Place(q)' = "forked"
        PROVE  stack'[q].child \in Proc
    <3>1. q # running /\ q \in Node /\ q # p
      BY <2>1, <1>2, <1>3 DEF Place, Node
    <3>2. Place(q) = "forked" /\ ~Copying(q)
      BY <2>1, <3>1, <1>7 DEF Place, Copying
    <3> QED
      BY <3>1, <3>2, <1>6 DEF IInv, ForkNamesChild
  <2> QED
    BY <2>1, <1>7 DEF ForkNamesChild
<1> QED
  BY <1>8, <1>9, <1>10, <1>11, <1>12 DEF IInv

LEMMA WaitFits == IInv /\ KernelWait => IInv'
<1> SUFFICES ASSUME IInv, KernelWait PROVE IInv'
    OBVIOUS
<1>1. at = "handler" /\ stack[mapped].handler = "Wait"
  BY DEF KernelWait, Handling
<1>2. running # Idle
  BY <1>1, CallerIsProcess
<1>3. CASE Returns(ERROR) /\ UNCHANGED <<status, uc>>
  BY <1>1, <1>2, <1>3, ReturnsFits DEF Word
<1>4. CASE /\ blocked' = blocked \cup {running} /\ RunNextReady(ready, "block")
           /\ UNCHANGED <<status, uc, stack, cpu>>
  BY <1>1, <1>4, BlockFits
<1>5. ASSUME NEW p \in Proc, status[p] = "defunct",
             status' = [status EXCEPT ![p] = "free"],
             uc' = [uc EXCEPT ![p] = 0],
             kc' = [kc EXCEPT ![p] = "nowhere"],
             stack' = [stack EXCEPT ![p] = Empty("none"), ![mapped].return_val = p],
             at' = "add_return_val",
             UNCHANGED <<running, ready, blocked, cpu, mapped, ptbr1>>
      PROVE  IInv'
  BY <1>1, <1>5, CollectFits
<1> QED
  BY <1>3, <1>4, <1>5 DEF KernelWait

(***************************************************************************)
(* The inductive invariant.                                                *)
(***************************************************************************)
THEOREM InductiveInvariant == Spec => []IInv
<1>1. Init => IInv
  BY InitFits
<1>2. IInv /\ [Next]_vars => IInv'
  <2> SUFFICES ASSUME IInv, [Next]_vars PROVE IInv'
      OBVIOUS
  <2>1. CASE idle_setup BY <2>1, IdleSetupFits
  <2>2. CASE Instruction BY <2>2, InstructionFits
  <2>3. CASE Trap("TrapClock") BY <2>3, TrapFits
  <2>4. CASE \E h \in Syscall : running # Idle /\ Trap(h) BY <2>4, TrapFits
  <2>5. CASE TrapClock BY <2>5, TrapClockFits
  <2>6. CASE KernelGetPid BY <2>6, GetPidFits
  <2>7. CASE Unhandled BY <2>7, UnhandledFits
  <2>8. CASE KernelDelay BY <2>8, DelayFits
  <2>9. CASE DelayOver BY <2>9, DelayOverFits
  <2>10. CASE KernelFork BY <2>10, ForkFits
  <2>11. CASE copy_kernel BY <2>11, CopyKernelFits
  <2>12. CASE Forked BY <2>12, ForkedFits
  <2>13. CASE KernelExec BY <2>13, ExecFits
  <2>14. CASE KernelExit BY <2>14, ExitFits
  <2>15. CASE KernelWait BY <2>15, WaitFits
  <2>16. CASE WaitAgain BY <2>16, WaitAgainFits
  <2>17. CASE add_return_val BY <2>17, AddReturnValFits
  <2>18. CASE restore_uc BY <2>18, RestoreUcFits
  <2>19. CASE UNCHANGED vars
    <3>1. UNCHANGED <<status, running, ready, blocked, uc, kc, stack, cpu, at, mapped, ptbr1>>
      BY <2>19 DEF vars, procVars, machine
    <3>2. TypeOK'
      BY <3>1 DEF IInv, TypeOK
    <3>3. KernelContextsFit'
      BY <3>1 DEF IInv, KernelContextsFit, Alive, Copying, Continuation
    <3>4. PlaceFits' /\ IdleWaits'
      BY <3>1 DEF IInv, PlaceFits, IdleWaits, Handling
    <3>5. ForkNamesChild'
      BY <3>1 DEF IInv, ForkNamesChild, Alive, Place, Copying
    <3> QED
      BY <3>2, <3>3, <3>4, <3>5 DEF IInv
  <2> QED
    BY <2>1, <2>2, <2>3, <2>4, <2>5, <2>6, <2>7, <2>8, <2>9, <2>10, <2>11, <2>12,
       <2>13, <2>14, <2>15, <2>16, <2>17, <2>18, <2>19 DEF Next
<1> QED
  BY <1>1, <1>2, PTL DEF Spec

(***************************************************************************)
(* Throughout Fork, Exit, Wait and preemption the kernel works on the      *)
(* stack and in the memory of the running process, and what it may         *)
(* dispatch has a kernel context that its own stack agrees with.           *)
(***************************************************************************)
THEOREM ContextsAlwaysFit == Spec => []KernelContextsFit
<1>1. IInv => KernelContextsFit
  BY DEF IInv
<1> QED
  BY <1>1, InductiveInvariant, PTL

-----------------------------------------------------------------------------
(***************************************************************************)
(* The refinement.  Owed, case by case.                                    *)
(***************************************************************************)
OwedIs(p) ==
  LET top == stack[p]
      inCall == Place(p) \in {"handler", "block"} /\ top.handler # "TrapClock"
      alive == status[p] = "alive" /\ ~Copying(p)
  IN  /\ status[p] # "alive" => Owed(p) = <<"nothing">>
      /\ status[p] = "alive" /\ Copying(p) => Owed(p) = <<"result", 0>>
      /\ alive /\ inCall => Owed(p) = <<"call", top.handler>>
      /\ alive /\ Place(p) = "copy_kernel" => Owed(p) = <<"result", top.child>>
      /\ alive /\ Place(p) = "forked" =>
           Owed(p) = <<"result", IF p = top.parent THEN top.child ELSE 0>>
      /\ alive /\ Place(p) = "add_return_val" => Owed(p) = <<"result", top.return_val>>
      /\ alive /\ ~inCall
           /\ Place(p) \notin {"copy_kernel", "forked", "add_return_val"} =>
             Owed(p) = <<"nothing">>

(***************************************************************************)
(* What a machine is owed, case by case, now and in the next state.        *)
(***************************************************************************)
LEMMA OwedCases == \A p : OwedIs(p)
<1> SUFFICES ASSUME NEW p PROVE OwedIs(p)
    OBVIOUS
<1>1. CASE Place(p) \in {"handler", "block"}
  BY <1>1 DEF OwedIs, Owed
<1>2. CASE Place(p) = "copy_kernel"
  BY <1>2 DEF OwedIs, Owed
<1>3. CASE Place(p) = "forked"
  BY <1>3 DEF OwedIs, Owed
<1>4. CASE Place(p) = "add_return_val"
  BY <1>4 DEF OwedIs, Owed
<1>5. CASE Place(p) \notin {"handler", "block", "copy_kernel", "forked", "add_return_val"}
  BY <1>5 DEF OwedIs, Owed
<1> QED
  BY <1>1, <1>2, <1>3, <1>4, <1>5

LEMMA OwedCasesNext == (\A p : OwedIs(p))'
BY OwedCases, PTL

(***************************************************************************)
(* The machine of p does not change.                                       *)
(***************************************************************************)
Same(p) ==
  status'[p] = status[p] /\ RegOf(p)' = RegOf(p) /\ Owed(p)' = Owed(p)

reg == [p \in Proc |-> RegOf(p)]
owed == [p \in Proc |-> Owed(p)]

(***************************************************************************)
(* A step of the kernel that leaves registers and debts of every process   *)
(* as they are is not seen by user code.                                   *)
(***************************************************************************)
LEMMA NoMachineChanges ==
  ASSUME IInv, IInv', \A q \in Proc : Same(q)
  PROVE  UNCHANGED Machines!vars
<1>1. status' = status
  BY DEF IInv, TypeOK, Same
<1>2. reg' = reg /\ owed' = owed
  BY DEF reg, owed, Same
<1> QED
  BY <1>1, <1>2 DEF Machines!vars, reg, owed

(***************************************************************************)
(* The machine of p changes, and no other.                                 *)
(***************************************************************************)
LEMMA OneMachineChanges ==
  ASSUME IInv, IInv', NEW p \in Proc, \A q \in Proc : q # p => Same(q)
  PROVE  /\ status' = [status EXCEPT ![p] = status'[p]]
         /\ reg' = [reg EXCEPT ![p] = RegOf(p)']
         /\ owed' = [owed EXCEPT ![p] = Owed(p)']
         /\ RegOf(p)' = RegOf(p) => reg' = reg
         /\ status'[p] = status[p] => status' = status
         /\ owed[p] = Owed(p)
<1>1. /\ status' = [status EXCEPT ![p] = status'[p]]
      /\ status'[p] = status[p] => status' = status
  BY DEF IInv, TypeOK, Same
<1>2. reg' = [reg EXCEPT ![p] = RegOf(p)'] /\ (RegOf(p)' = RegOf(p) => reg' = reg)
  BY DEF reg, Same
<1>3. owed' = [owed EXCEPT ![p] = Owed(p)'] /\ owed[p] = Owed(p)
  BY DEF owed, Same
<1> QED
  BY <1>1, <1>2, <1>3

(***************************************************************************)
(* A step that two machines can see: the parent and the child of Fork, or  *)
(* of Wait.                                                                *)
(***************************************************************************)
LEMMA TwoMachinesChange ==
  ASSUME IInv, IInv', NEW p \in Proc, NEW c \in Proc, p # c,
         \A q \in Proc : q # p /\ q # c => Same(q),
         status'[p] = status[p], RegOf(p)' = RegOf(p)
  PROVE  /\ status' = [status EXCEPT ![c] = status'[c]]
         /\ reg' = [reg EXCEPT ![c] = RegOf(c)']
         /\ owed' = [owed EXCEPT ![p] = Owed(p)', ![c] = Owed(c)']
         /\ owed[p] = Owed(p) /\ reg[p] = RegOf(p)
<1>1. status' = [status EXCEPT ![c] = status'[c]]
  BY DEF IInv, TypeOK, Same
<1>2. reg' = [reg EXCEPT ![c] = RegOf(c)'] /\ reg[p] = RegOf(p)
  BY DEF reg, Same
<1>3. owed' = [owed EXCEPT ![p] = Owed(p)', ![c] = Owed(c)'] /\ owed[p] = Owed(p)
  BY DEF owed, Same
<1> QED
  BY <1>1, <1>2, <1>3

(***************************************************************************)
(* A step of one machine is a step of the machines.                        *)
(***************************************************************************)
LEMMA NextOf ==
  ASSUME NEW p \in Proc, status[p] = "alive",
         \/ Machines!Compute(p) \/ Machines!Exec(p) \/ Machines!Exit(p) \/ Machines!Return(p)
         \/ \E h \in Syscall : Machines!Request(p, h) \/ Machines!Serve(p, h)
         \/ \E c \in Proc : Machines!Fork(p, c) \/ Machines!Wait(p, c)
  PROVE  Machines!Next
BY DEF Machines!Next, Machines!Alive

LEMMA ComputeStep ==
  ASSUME IInv, IInv', NEW p \in Proc, status[p] = "alive",
         \A q \in Proc : q # p => Same(q), status'[p] = status[p],
         Owed(p) = <<"nothing">>, Owed(p)' = Owed(p), RegOf(p)' \in Value
  PROVE  Machines!Next
<1>1. owed' = owed /\ owed[p] = <<"nothing">> /\ status' = status
      /\ \E v \in Value : reg' = [reg EXCEPT ![p] = v]
  <2>1. owed' = owed
    BY DEF owed, Same
  <2> QED
    BY <2>1, OneMachineChanges
<1>2. Machines!Compute(p)
  BY <1>1 DEF Machines!Compute, Machines!Nothing, reg, owed
<1> QED
  BY <1>2, NextOf

LEMMA RequestStep ==
  ASSUME IInv, IInv', NEW p \in Proc, status[p] = "alive", NEW h \in Syscall,
         \A q \in Proc : q # p => Same(q), status'[p] = status[p],
         Owed(p) = <<"nothing">>, Owed(p)' = <<"call", h>>, RegOf(p)' = RegOf(p)
  PROVE  Machines!Next
<1>1. /\ owed' = [owed EXCEPT ![p] = <<"call", h>>] /\ owed[p] = <<"nothing">>
      /\ status' = status /\ reg' = reg
  BY OneMachineChanges
<1>2. Machines!Request(p, h)
  BY <1>1 DEF Machines!Request, Machines!Nothing, Machines!Call, reg, owed
<1> QED
  BY <1>2, NextOf

LEMMA ServeStep ==
  ASSUME IInv, IInv', NEW p \in Proc, status[p] = "alive", NEW h \in Syscall,
         \A q \in Proc : q # p => Same(q), status'[p] = status[p],
         NEW r \in Machines!Answers(p, h),
         Owed(p) = <<"call", h>>, Owed(p)' = <<"result", r>>, RegOf(p)' = RegOf(p)
  PROVE  Machines!Next
<1>1. /\ owed' = [owed EXCEPT ![p] = <<"result", r>>] /\ owed[p] = <<"call", h>>
      /\ status' = status /\ reg' = reg
  BY OneMachineChanges
<1>2. Machines!Serve(p, h)
  BY <1>1 DEF Machines!Serve, Machines!Result, Machines!Call, reg, owed
<1> QED
  BY <1>2, NextOf

LEMMA ForkStep ==
  ASSUME IInv, IInv', NEW p \in Proc, status[p] = "alive", NEW c \in Proc, p # c,
         \A q \in Proc : q # p /\ q # c => Same(q),
         status'[p] = status[p], RegOf(p)' = RegOf(p),
         status[c] = "free", status'[c] = "alive", RegOf(c)' = RegOf(p),
         Owed(p) = <<"call", "Fork">>, Owed(p)' = <<"result", c>>, Owed(c)' = <<"result", 0>>
  PROVE  Machines!Next
<1>1. /\ owed' = [owed EXCEPT ![p] = <<"result", c>>, ![c] = <<"result", 0>>]
      /\ owed[p] = <<"call", "Fork">>
      /\ status' = [status EXCEPT ![c] = "alive"] /\ reg' = [reg EXCEPT ![c] = reg[p]]
  BY TwoMachinesChange
<1>2. Machines!Fork(p, c)
  BY <1>1 DEF Machines!Fork, Machines!Result, Machines!Call, reg, owed
<1> QED
  BY <1>2, NextOf

LEMMA WaitStep ==
  ASSUME IInv, IInv', NEW p \in Proc, status[p] = "alive", NEW c \in Proc, p # c,
         \A q \in Proc : q # p /\ q # c => Same(q),
         status'[p] = status[p], RegOf(p)' = RegOf(p),
         status[c] = "defunct", status'[c] = "free", RegOf(c)' \in Word,
         Owed(p) = <<"call", "Wait">>, Owed(p)' = <<"result", c>>, Owed(c)' = Owed(c)
  PROVE  Machines!Next
<1>1. \A q \in Proc : q # p => Owed(q)' = Owed(q)
  BY DEF Same
<1>2. owed' = [owed EXCEPT ![p] = <<"result", c>>]
  BY <1>1 DEF owed
<1>3. /\ owed[p] = <<"call", "Wait">> /\ status' = [status EXCEPT ![c] = "free"]
      /\ \E w \in Word : reg' = [reg EXCEPT ![c] = w]
  BY TwoMachinesChange
<1>4. Machines!Wait(p, c)
  BY <1>2, <1>3 DEF Machines!Wait, Machines!Result, Machines!Call, reg, owed
<1> QED
  BY <1>4, NextOf

LEMMA ExecStep ==
  ASSUME IInv, IInv', NEW p \in Proc, status[p] = "alive",
         \A q \in Proc : q # p => Same(q), status'[p] = status[p],
         Owed(p) = <<"call", "Exec">>, Owed(p)' = <<"nothing">>, RegOf(p)' = RegOf(p)
  PROVE  Machines!Next
<1>1. /\ owed' = [owed EXCEPT ![p] = <<"nothing">>] /\ owed[p] = <<"call", "Exec">>
      /\ status' = status /\ reg' = reg
  BY OneMachineChanges
<1>2. Machines!Exec(p)
  BY <1>1 DEF Machines!Exec, Machines!Nothing, Machines!Call, reg, owed
<1> QED
  BY <1>2, NextOf

LEMMA ExitStep ==
  ASSUME IInv, IInv', NEW p \in Proc, status[p] = "alive",
         \A q \in Proc : q # p => Same(q), status'[p] = "defunct",
         Owed(p) \in {<<"call", "Exit">>, <<"call", "Exec">>},
         Owed(p)' = <<"nothing">>, RegOf(p)' = RegOf(p)
  PROVE  Machines!Next
<1>1. /\ owed' = [owed EXCEPT ![p] = <<"nothing">>]
      /\ owed[p] \in {<<"call", "Exit">>, <<"call", "Exec">>}
      /\ status' = [status EXCEPT ![p] = "defunct"] /\ reg' = reg
  BY OneMachineChanges
<1>2. Machines!Exit(p)
  BY <1>1 DEF Machines!Exit, Machines!Nothing, Machines!Call, reg, owed
<1> QED
  BY <1>2, NextOf

LEMMA ReturnStep ==
  ASSUME IInv, IInv', NEW p \in Proc, status[p] = "alive",
         \A q \in Proc : q # p => Same(q), status'[p] = status[p],
         NEW r \in Word, RegOf(p)' = r,
         Owed(p) = <<"result", r>>, Owed(p)' = <<"nothing">>
  PROVE  Machines!Next
<1>1. /\ owed' = [owed EXCEPT ![p] = <<"nothing">>] /\ owed[p] = <<"result", r>>
      /\ status' = status /\ reg' = [reg EXCEPT ![p] = r]
  BY OneMachineChanges
<1>2. Machines!Return(p)
  BY <1>1 DEF Machines!Return, Machines!Nothing, Machines!Result, reg, owed
<1> QED
  BY <1>2, NextOf

-----------------------------------------------------------------------------
(***************************************************************************)
(* A machine whose place, registers and stack stay is the same.            *)
(***************************************************************************)
LEMMA SamePlaceSame ==
  ASSUME NEW p \in Proc, Place(p)' = Place(p), Place(p) # "user",
         status'[p] = status[p], uc'[p] = uc[p], stack'[p] = stack[p],
         ~Copying(p), ~Copying(p)'
  PROVE  Same(p)
<1>1. RegOf(p)' = RegOf(p)
  BY DEF RegOf
<1>2. Owed(p)' = Owed(p)
  BY DEF Owed
<1> QED
  BY <1>1, <1>2 DEF Same

(***************************************************************************)
(* A step of the running process leaves the machines of the others alone.  *)
(***************************************************************************)
LEMMA OthersSame ==
  ASSUME IInv, NEW p \in Proc, p # running, running' = running,
         status'[p] = status[p], uc'[p] = uc[p], kc'[p] = kc[p], stack'[p] = stack[p],
         ~Copying(p), ~Copying(p)'
  PROVE  Same(p)
<1>1. Place(p)' = Place(p)
  BY DEF Place
<1>2. Place(p) # "user"
  BY DEF Place, IInv, TypeOK, KernelPlace, Node
<1> QED
  BY <1>1, <1>2, SamePlaceSame

(***************************************************************************)
(* What the process is owed that the kernel works for.                     *)
(***************************************************************************)
RunningOwed ==
  running # Idle =>
    /\ running \in Proc /\ status[running] = "alive" /\ mapped = running
    /\ running \in Node /\ ~Copying(running)
    /\ RegOf(running) = IF at = "user" THEN cpu ELSE uc[running]
    /\ at \in {"handler", "block"} /\ stack[running].handler # "TrapClock" =>
         Owed(running) = <<"call", stack[running].handler>>
    /\ at \in {"user", "restore_uc", "idle_setup"} => Owed(running) = <<"nothing">>
    /\ at = "handler" /\ stack[running].handler = "TrapClock" =>
         Owed(running) = <<"nothing">>
    /\ at = "add_return_val" => Owed(running) = <<"result", stack[running].return_val>>
    /\ at = "copy_kernel" => Owed(running) = <<"result", stack[running].child>>
    /\ at = "forked" => Owed(running) = <<"result", WhoAmI(stack[running])>>

(***************************************************************************)
(* What the running process is owed at each place of the kernel.           *)
(***************************************************************************)
LEMMA RunningOwedNow == IInv => RunningOwed
<1> SUFFICES ASSUME IInv, running # Idle PROVE RunningOwed
    BY DEF RunningOwed
<1>1. /\ running \in Proc /\ status[running] = "alive" /\ mapped = running
      /\ running \in Node /\ Place(running) = at
  BY Current DEF Alive, Place
<1>2. ~Copying(running)
  BY DEF Copying, IInv, PlaceFits, KernelContextsFit
<1>3. RegOf(running) = IF at = "user" THEN cpu ELSE uc[running]
  BY <1>1 DEF RegOf
<1>4. OwedIs(running)
  BY OwedCases
<1> QED
  BY <1>1, <1>2, <1>3, <1>4 DEF OwedIs, WhoAmI, RunningOwed

LEMMA RunningOwedNext == (IInv => RunningOwed)'
BY RunningOwedNow, PTL

(***************************************************************************)
(* A step that stays with the process, outside of copy_kernel, and changes *)
(* no more than its registers and its stack.                               *)
(***************************************************************************)
LEMMA OthersStay ==
  ASSUME IInv, at # "copy_kernel", at' # "copy_kernel", running' = running,
         kc' = kc, status' = status,
         \A n \in Node : n # running => stack'[n] = stack[n] /\ uc'[n] = uc[n]
  PROVE  \A q \in Proc : q # running => Same(q)
<1> SUFFICES ASSUME NEW q \in Proc, q # running PROVE Same(q)
    OBVIOUS
<1>1. ~Copying(q) /\ ~Copying(q)' /\ q \in Node
  BY DEF Copying, Node
<1> QED
  BY <1>1, OthersSame

-----------------------------------------------------------------------------
(***************************************************************************)
(* Each step of the kernel is a step of the machines or none.              *)
(***************************************************************************)
LEMMA IdleSetupStep ==
  ASSUME IInv, IInv', idle_setup
  PROVE  UNCHANGED Machines!vars
<1>1. /\ at = "idle_setup" /\ at' = "restore_uc" /\ running = InitProc /\ running' = running
      /\ status' = status /\ running # Idle /\ InitProc \in Node
      /\ uc' = [uc EXCEPT ![Idle] = stack[mapped].uctxt]
      /\ kc' = [kc EXCEPT ![Idle] = "restore_uc"]
      /\ stack' = [stack EXCEPT ![Idle] = stack[mapped]]
  BY ContextSwitchAssumption DEF idle_setup, IInv, PlaceFits, KCCopy, procVars, Node
<1>2. \A q \in Proc : /\ q \in Node /\ uc'[q] = uc[q] /\ kc'[q] = kc[q]
                      /\ stack'[q] = stack[q] /\ status'[q] = status[q]
                      /\ ~Copying(q) /\ ~Copying(q)'
  BY <1>1, ContextSwitchAssumption DEF IInv, TypeOK, Node, Copying
<1>3. ASSUME NEW q \in Proc, q # running
      PROVE  Same(q)
  BY <1>1, <1>2, <1>3, OthersSame
<1>4. Owed(running) = <<"nothing">> /\ Owed(running)' = <<"nothing">>
  BY <1>1, RunningOwedNow, RunningOwedNext DEF RunningOwed
<1>5. RegOf(running)' = RegOf(running)
  BY <1>1, <1>2, RunningOwedNow, RunningOwedNext DEF RunningOwed
<1>6. Same(running)
  BY <1>1, <1>4, <1>5 DEF Same
<1> QED
  BY <1>3, <1>6, NoMachineChanges

LEMMA InstructionStep ==
  ASSUME IInv, IInv', Instruction
  PROVE  Machines!Next
<1>1. /\ at = "user" /\ at' = "user" /\ running # Idle /\ running' = running
      /\ cpu' \in Value /\ status' = status /\ stack' = stack /\ uc' = uc /\ kc' = kc
  BY DEF Instruction, procVars, machine
<1>2. \A q \in Proc : q # running => Same(q)
  BY <1>1, OthersStay
<1>3. /\ running \in Proc /\ status[running] = "alive"
      /\ Owed(running) = <<"nothing">> /\ Owed(running)' = <<"nothing">>
      /\ RegOf(running)' = cpu'
  BY <1>1, RunningOwedNow, RunningOwedNext DEF RunningOwed
<1> QED
  BY <1>1, <1>2, <1>3, ComputeStep

LEMMA TrapStep ==
  ASSUME IInv, IInv', NEW h \in Syscall \cup {"TrapClock"}, Trap(h),
         h = "TrapClock" \/ running # Idle
  PROVE  [Machines!Next]_Machines!vars
<1>1. mapped = running /\ running \in Node
  BY Current
<1>2. /\ at = "user" /\ at' = "handler" /\ running' = running /\ status' = status /\ kc' = kc
      /\ stack' = [stack EXCEPT ![running] = NewFrame(cpu, h)]
      /\ uc' = [uc EXCEPT ![running] = cpu]
  BY <1>1 DEF Trap, save_uc, procVars
<1>3. \A n \in Node : n # running => stack'[n] = stack[n] /\ uc'[n] = uc[n]
  BY <1>2 DEF IInv, TypeOK
<1>4. uc'[running] = cpu /\ stack'[running].handler = h
  BY <1>1, <1>2 DEF IInv, TypeOK, NewFrame
<1>5. \A q \in Proc : q # running => Same(q)
  <2>1. at # "copy_kernel" /\ at' # "copy_kernel"
    BY <1>2
  <2> QED
    BY <2>1, <1>2, <1>3, OthersStay
<1>6. CASE running = Idle
  <2>1. \A q \in Proc : Same(q)
    BY <1>5, <1>6, ContextSwitchAssumption
  <2> QED
    BY <2>1, NoMachineChanges
<1>7. CASE running # Idle
  <2>1. at = "user" /\ at' = "handler" /\ running' = running /\ status' = status
    BY <1>2
  <2>2. /\ running \in Proc /\ status[running] = "alive" /\ Owed(running) = <<"nothing">>
        /\ RegOf(running)' = RegOf(running)
    BY <1>4, <1>7, <2>1, RunningOwedNow, RunningOwedNext DEF RunningOwed
  <2>3. CASE h = "TrapClock"
    <3>1. Owed(running)' = <<"nothing">>
      BY <1>4, <1>7, <2>1, <2>3, RunningOwedNext DEF RunningOwed
    <3>2. Same(running)
      BY <3>1, <2>1, <2>2 DEF Same
    <3> QED
      BY <3>2, <1>5, NoMachineChanges
  <2>4. CASE h # "TrapClock"
    <3>1. Owed(running)' = <<"call", h>>
      BY <1>4, <1>7, <2>1, <2>4, RunningOwedNext DEF RunningOwed
    <3> QED
      BY <3>1, <2>1, <2>2, <2>4, <1>5, RequestStep
  <2> QED
    BY <2>3, <2>4
<1> QED
  BY <1>6, <1>7

(***************************************************************************)
(* The handler of call h has the result r.                                 *)
(***************************************************************************)
LEMMA ReturnsServes ==
  ASSUME IInv, IInv', NEW r, Returns(r), UNCHANGED <<status, uc>>, running # Idle,
         at \in {"handler", "block"}, NEW h \in Syscall, stack[mapped].handler = h,
         r \in Machines!Answers(running, h)
  PROVE  Machines!Next
<1>1. mapped = running /\ running \in Node /\ stack[running] \in Frame
  BY Current
<1>2. /\ at' = "add_return_val" /\ running' = running /\ status' = status /\ kc' = kc
      /\ stack' = [stack EXCEPT ![running] = [stack[running] EXCEPT !.return_val = r]]
      /\ uc' = uc
  BY <1>1 DEF Returns
<1>3. /\ \A n \in Node : n # running => stack'[n] = stack[n] /\ uc'[n] = uc[n]
      /\ stack'[running].return_val = r
  BY <1>1, <1>2 DEF IInv, TypeOK, Frame
<1>4. \A q \in Proc : q # running => Same(q)
  <2>1. at # "copy_kernel" /\ at' # "copy_kernel"
    BY <1>2
  <2> QED
    BY <2>1, <1>2, <1>3, OthersStay
<1>5. /\ at' = "add_return_val" /\ running' = running /\ status' = status /\ uc' = uc
      /\ h # "TrapClock"
  BY <1>2 DEF Syscall
<1>6. /\ running \in Proc /\ status[running] = "alive" /\ Owed(running) = <<"call", h>>
      /\ RegOf(running)' = RegOf(running)
  BY <1>1, <1>5, RunningOwedNow, RunningOwedNext DEF RunningOwed
<1>7. Owed(running)' = <<"result", r>>
  BY <1>3, <1>5, RunningOwedNext DEF RunningOwed
<1> QED
  BY <1>4, <1>5, <1>6, <1>7, ServeStep

(***************************************************************************)
(* The results that user code may expect from each call.                   *)
(***************************************************************************)
LEMMA AnswersAre ==
  ASSUME NEW p
  PROVE  /\ Machines!Answers(p, "GetPid") = {p}
         /\ Machines!Answers(p, "Delay") = {0, ERROR}
         /\ \A h \in {"Fork", "Exec", "Wait"} : Machines!Answers(p, h) = {ERROR}
         /\ Machines!Answers(p, "unknown") = Word
BY DEF Machines!Answers

LEMMA GetPidStep ==
  ASSUME IInv, IInv', KernelGetPid
  PROVE  Machines!Next
<1>1. /\ at = "handler" /\ stack[mapped].handler = "GetPid" /\ "GetPid" \in Syscall
      /\ Returns(running) /\ UNCHANGED <<status, uc>>
  BY DEF KernelGetPid, Handling, Syscall
<1>2. running # Idle
  BY <1>1, CallerIsProcess
<1> QED
  BY <1>1, <1>2, AnswersAre, ReturnsServes

LEMMA UnhandledStep ==
  ASSUME IInv, IInv', Unhandled
  PROVE  Machines!Next
<1>1. /\ at = "handler" /\ stack[mapped].handler = "unknown" /\ "unknown" \in Syscall
  BY DEF Unhandled, Handling, Syscall
<1>2. running # Idle
  BY <1>1, CallerIsProcess
<1>3. PICK r \in Word : Returns(r) /\ UNCHANGED <<status, uc>>
  BY DEF Unhandled
<1> QED
  BY <1>1, <1>2, <1>3, AnswersAre, ReturnsServes

LEMMA DelayOverStep ==
  ASSUME IInv, IInv', DelayOver
  PROVE  Machines!Next
<1>1. /\ at = "block" /\ stack[mapped].handler = "Delay" /\ "Delay" \in Syscall
      /\ Returns(0) /\ UNCHANGED <<status, uc>>
  BY DEF DelayOver, Syscall
<1>2. running # Idle
  BY <1>1, CallerIsProcess
<1>3. 0 \in Machines!Answers(running, "Delay")
  BY AnswersAre
<1> QED
  BY <1>1, <1>2, <1>3, ReturnsServes

(***************************************************************************)
(* Exec ends with a new image or with ERROR.                               *)
(***************************************************************************)
LEMMA ExecServes ==
  ASSUME IInv, IInv', KernelExec
  PROVE  Machines!Next
<1>1. /\ at = "handler" /\ stack[mapped].handler = "Exec" /\ "Exec" \in Syscall
      /\ mapped = running
  BY Current DEF KernelExec, Handling, Syscall
<1>2. running # Idle
  BY <1>1, CallerIsProcess
<1>3. CASE Returns(ERROR) /\ UNCHANGED <<status, uc>>
  <2>1. ERROR \in Machines!Answers(running, "Exec")
    BY AnswersAre
  <2> QED
    BY <1>1, <1>2, <1>3, <2>1, ReturnsServes
<1>4. CASE at' = "restore_uc" /\ UNCHANGED <<procVars, uc, kc, stack, cpu, mapped, ptbr1>>
  <2>1. /\ at' = "restore_uc" /\ running' = running /\ status' = status /\ uc' = uc
        /\ kc' = kc /\ stack' = stack
    BY <1>4 DEF procVars
  <2>2. \A q \in Proc : q # running => Same(q)
    BY <1>1, <2>1, OthersStay
  <2>3. /\ running \in Proc /\ status[running] = "alive" /\ Owed(running) = <<"call", "Exec">>
        /\ Owed(running)' = <<"nothing">> /\ RegOf(running)' = RegOf(running)
    BY <1>1, <1>2, <2>1, RunningOwedNow, RunningOwedNext DEF RunningOwed
  <2> QED
    BY <2>1, <2>2, <2>3, ExecStep
<1> QED
  BY <1>3, <1>4 DEF KernelExec

LEMMA WaitAgainStep ==
  ASSUME IInv, IInv', WaitAgain
  PROVE  UNCHANGED Machines!vars
<1>1. /\ at = "block" /\ at' = "handler" /\ stack[mapped].handler = "Wait"
      /\ running' = running /\ status' = status /\ uc' = uc /\ kc' = kc /\ stack' = stack
      /\ mapped = running
  BY Current DEF WaitAgain, procVars
<1>2. running # Idle
  BY <1>1, CallerIsProcess
<1>3. \A q \in Proc : q # running => Same(q)
  BY <1>1, OthersStay
<1>4. /\ Owed(running)' = Owed(running) /\ RegOf(running)' = RegOf(running)
  BY <1>1, <1>2, RunningOwedNow, RunningOwedNext DEF RunningOwed
<1>5. Same(running)
  BY <1>1, <1>4 DEF Same
<1> QED
  BY <1>3, <1>5, NoMachineChanges

LEMMA ForkedStep ==
  ASSUME IInv, IInv', Forked
  PROVE  UNCHANGED Machines!vars
<1>1. mapped = running /\ running \in Node /\ stack[running] \in Frame
  BY Current
<1>2. /\ at = "forked" /\ at' = "add_return_val" /\ running' = running
      /\ status' = status /\ uc' = uc /\ kc' = kc
      /\ stack' = [stack EXCEPT ![running] =
                     [stack[running] EXCEPT !.return_val = WhoAmI(stack[running])]]
  BY <1>1 DEF Forked, Returns
<1>3. running # Idle
  BY <1>2, CallerIsProcess
<1>4. /\ \A n \in Node : n # running => stack'[n] = stack[n] /\ uc'[n] = uc[n]
      /\ stack'[running].return_val = WhoAmI(stack[running])
  BY <1>1, <1>2 DEF IInv, TypeOK, Frame
<1>5. /\ at = "forked" /\ at' = "add_return_val" /\ running' = running
      /\ status' = status /\ uc' = uc /\ kc' = kc
  BY <1>2
<1>6. \A q \in Proc : q # running => Same(q)
  BY <1>4, <1>5, OthersStay
<1>7. /\ Owed(running)' = Owed(running) /\ RegOf(running)' = RegOf(running)
  BY <1>3, <1>4, <1>5, RunningOwedNow, RunningOwedNext DEF RunningOwed
<1>8. Same(running)
  BY <1>5, <1>7 DEF Same
<1> QED
  BY <1>6, <1>8, NoMachineChanges

LEMMA AddReturnValStep ==
  ASSUME IInv, IInv', add_return_val
  PROVE  Machines!Next
<1>1. /\ mapped = running /\ running \in Node /\ stack[running] \in Frame
  BY Current
<1>2. /\ at = "add_return_val" /\ at' = "restore_uc" /\ running' = running
      /\ status' = status /\ kc' = kc /\ stack' = stack
      /\ uc' = [uc EXCEPT ![running] = stack[running].return_val]
  BY <1>1 DEF add_return_val, procVars
<1>3. running # Idle
  BY <1>2, CallerIsProcess
<1>4. /\ \A n \in Node : n # running => stack'[n] = stack[n] /\ uc'[n] = uc[n]
      /\ uc'[running] = stack[running].return_val /\ stack[running].return_val \in Word
  BY <1>1, <1>2 DEF IInv, TypeOK, Frame
<1>5. /\ at = "add_return_val" /\ at' = "restore_uc" /\ running' = running
      /\ status' = status /\ kc' = kc
  BY <1>2
<1>6. \A q \in Proc : q # running => Same(q)
  BY <1>4, <1>5, OthersStay
<1>7. /\ running \in Proc /\ status[running] = "alive"
      /\ Owed(running) = <<"result", stack[running].return_val>>
      /\ Owed(running)' = <<"nothing">> /\ RegOf(running)' = stack[running].return_val
  BY <1>3, <1>4, <1>5, RunningOwedNow, RunningOwedNext DEF RunningOwed
<1> QED
  BY <1>4, <1>5, <1>6, <1>7, ReturnStep

LEMMA RestoreUcStep ==
  ASSUME IInv, IInv', restore_uc
  PROVE  UNCHANGED Machines!vars
<1>1. mapped = running /\ running \in Node
  BY Current
<1>2. /\ at = "restore_uc" /\ at' = "user" /\ running' = running /\ cpu' = uc[running]
      /\ status' = status /\ kc' = kc /\ uc' = uc
      /\ stack' = [stack EXCEPT ![running] = Empty("none")]
  BY <1>1 DEF restore_uc, procVars
<1>3. \A n \in Node : n # running => stack'[n] = stack[n] /\ uc'[n] = uc[n]
  BY <1>2 DEF IInv, TypeOK
<1>4. /\ at = "restore_uc" /\ at' = "user" /\ running' = running /\ cpu' = uc[running]
      /\ status' = status /\ kc' = kc
  BY <1>2
<1>5. \A q \in Proc : q # running => Same(q)
  BY <1>3, <1>4, OthersStay
<1>6. CASE running = Idle
  <2>1. \A q \in Proc : Same(q)
    BY <1>5, <1>6, ContextSwitchAssumption
  <2> QED
    BY <2>1, NoMachineChanges
<1>7. CASE running # Idle
  <2>1. /\ Owed(running)' = Owed(running) /\ RegOf(running)' = RegOf(running)
    BY <1>4, <1>7, RunningOwedNow, RunningOwedNext DEF RunningOwed
  <2>2. Same(running)
    BY <1>4, <2>1 DEF Same
  <2> QED
    BY <1>5, <2>2, NoMachineChanges
<1> QED
  BY <1>6, <1>7

(***************************************************************************)
(* Fork ends with ERROR, or goes on to make the child.                     *)
(***************************************************************************)
LEMMA ForkServes ==
  ASSUME IInv, IInv', KernelFork
  PROVE  Machines!Next
<1>1. /\ at = "handler" /\ stack[mapped].handler = "Fork" /\ "Fork" \in Syscall
      /\ mapped = running /\ running \in Node /\ stack[running] \in Frame
  BY Current DEF KernelFork, Handling, Syscall
<1>2. running # Idle
  BY <1>1, CallerIsProcess
<1>3. CASE Returns(ERROR) /\ UNCHANGED <<status, uc>>
  <2>1. ERROR \in Machines!Answers(running, "Fork")
    BY AnswersAre
  <2> QED
    BY <1>1, <1>2, <1>3, <2>1, ReturnsServes
<1>4. ASSUME NEW child \in Proc, status[child] = "free",
             status' = [status EXCEPT ![child] = "alive"],
             uc' = [uc EXCEPT ![child] = uc[running]],
             stack' = [stack EXCEPT ![mapped] =
                         [stack[mapped] EXCEPT !.parent = running, !.child = child]],
             at' = "copy_kernel",
             UNCHANGED <<running, kc>>
      PROVE  Machines!Next
  <2> DEFINE top == [stack[running] EXCEPT !.parent = running, !.child = child]
  <2>1. running \in Proc /\ status[running] = "alive" /\ child # running /\ child \in Node
    BY <1>2, <1>4, RunningOwedNow DEF RunningOwed, Node
  <2>2. top.child = child /\ stack' = [stack EXCEPT ![running] = top]
    BY <1>1, <1>4 DEF Frame
  <2> HIDE DEF top
  <2>3. /\ stack'[running].child = child
        /\ \A n \in Node : n # running => stack'[n] = stack[n]
    BY <1>1, <2>2 DEF IInv, TypeOK
  <2>4. /\ uc'[child] = uc[running] /\ uc'[running] = uc[running]
        /\ \A n \in Node : n # child => uc'[n] = uc[n]
        /\ status'[child] = "alive"
        /\ \A n \in Proc : n # child => status'[n] = status[n]
    BY <1>1, <1>4, <2>1 DEF IInv, TypeOK
  <2>5. at = "handler" /\ at' = "copy_kernel" /\ running' = running /\ kc' = kc
    BY <1>1, <1>4
  <2>6. ASSUME NEW q \in Proc, q # running, q # child
        PROVE  Same(q)
    <3>1. ~Copying(q) /\ ~Copying(q)'
      BY <2>3, <2>5, <2>6 DEF Copying
    <3> QED
      BY <3>1, <2>3, <2>4, <2>5, <2>6, OthersSame DEF Node
  <2>7. /\ Owed(running) = <<"call", "Fork">> /\ Owed(running)' = <<"result", child>>
        /\ RegOf(running) = uc[running] /\ RegOf(running)' = uc[running]
    BY <1>1, <1>2, <2>3, <2>4, <2>5, RunningOwedNow, RunningOwedNext DEF RunningOwed
  <2>8. Copying(child)'
    BY <2>3, <2>5 DEF Copying
  <2>9. Owed(child)' = <<"result", 0>>
    BY <2>4, <2>8, OwedCasesNext DEF OwedIs
  <2>10. RegOf(child)' = uc[running]
    <3>1. Place(child)' = kc[child] /\ kc[child] # "user"
      BY <2>1, <2>5 DEF Place, IInv, TypeOK, KernelPlace
    <3> QED
      BY <3>1, <2>4 DEF RegOf
  <2> QED
    BY <1>4, <2>1, <2>4, <2>6, <2>7, <2>9, <2>10, ForkStep
<1> QED
  BY <1>3, <1>4 DEF KernelFork

LEMMA CopyKernelStep ==
  ASSUME IInv, IInv', copy_kernel
  PROVE  UNCHANGED Machines!vars
<1>1. /\ mapped = running /\ running \in Node
  BY Current
<1>2. at = "copy_kernel"
  BY DEF copy_kernel
<1>3. PICK child : stack[running].child = child
  OBVIOUS
<1>4. /\ running # Idle /\ stack[running].parent = running
      /\ child \in ready /\ child \in Proc /\ child \in Node /\ child # running
      /\ child \in Alive
  BY <1>2, <1>3, CallerIsProcess, Current
     DEF IInv, TypeOK, PlaceFits, KernelContextsFit, Node
<1>5. /\ kc' = [kc EXCEPT ![child] = "forked"]
      /\ stack' = [stack EXCEPT ![child] = stack[running]]
      /\ at' = "forked"
      /\ UNCHANGED <<status, running, uc>>
  BY <1>1, <1>3 DEF copy_kernel, KCCopy, procVars
<1>6. /\ kc'[child] = "forked" /\ stack'[child] = stack[running]
      /\ stack'[running] = stack[running]
      /\ \A n \in Node : n # child => kc'[n] = kc[n] /\ stack'[n] = stack[n]
  BY <1>1, <1>4, <1>5 DEF IInv, TypeOK
<1>7. at' = "forked" /\ running' = running /\ status' = status /\ uc' = uc
  BY <1>5
<1>8. ASSUME NEW q \in Proc, q # running, q # child
      PROVE  Same(q)
  <2>1. ~Copying(q) /\ ~Copying(q)'
    BY <1>3, <1>7, <1>8 DEF Copying
  <2> QED
    BY <2>1, <1>6, <1>7, <1>8, OthersSame DEF Node
<1>9. Same(running)
  <2>1. Owed(running) = <<"result", child>>
    BY <1>2, <1>4, <1>3, RunningOwedNow DEF RunningOwed
  <2>2. WhoAmI(stack'[running]) = child /\ WhoAmI(stack[running])' = WhoAmI(stack'[running])
    BY <1>4, <1>3, <1>6, <1>7 DEF WhoAmI
  <2>3. Owed(running)' = <<"result", child>>
    BY <1>4, <1>7, <2>2, RunningOwedNext DEF RunningOwed
  <2>4. RegOf(running)' = RegOf(running)
    BY <1>2, <1>4, <1>7, RunningOwedNow, RunningOwedNext DEF RunningOwed
  <2> QED
    BY <2>1, <2>3, <2>4, <1>7 DEF Same
<1>10. Same(child)
  <2>1. Copying(child) /\ ~Copying(child)' /\ status[child] = "alive"
    BY <1>2, <1>4, <1>3, <1>7 DEF Copying, Alive
  <2>2. Owed(child) = <<"result", 0>>
    BY <2>1, OwedCases DEF OwedIs
  <2>3. Place(child)' = "forked" /\ Place(child) # "user"
    <3>1. Place(child)' = "forked"
      BY <1>4, <1>6, <1>7 DEF Place
    <3>2. Place(child) = kc[child] /\ kc[child] \in KernelPlace
      BY <1>4 DEF Place, IInv, TypeOK
    <3> QED
      BY <3>1, <3>2 DEF KernelPlace
  <2>4. Owed(child)' = <<"result", 0>>
    <3>1. child # stack'[child].parent /\ status'[child] = "alive"
      BY <1>4, <1>6, <1>7, <2>1
    <3>2. OwedIs(child)'
      BY OwedCasesNext
    <3> QED
      BY <3>1, <3>2, <2>1, <2>3 DEF OwedIs
  <2>5. RegOf(child)' = RegOf(child)
    BY <2>3, <1>7 DEF RegOf
  <2> QED
    BY <2>2, <2>4, <2>5, <1>7 DEF Same
<1> QED
  BY <1>8, <1>9, <1>10, NoMachineChanges

(***************************************************************************)
(* Another process is dispatched: only the machine of the one that is      *)
(* switched out could tell.                                                *)
(***************************************************************************)
LEMMA SwitchKeepsOthers ==
  ASSUME IInv, IInv', at = "handler", NEW next, next # running, running' = next,
         NEW place, KCSwitch(running, next, place), stack' = stack, uc' = uc
  PROVE  /\ \A q \in Proc : q # running /\ status'[q] = status[q] => Same(q)
         /\ at' \notin {"user", "copy_kernel"}
<1>1. /\ at' = kc'[next] /\ kc' = [kc EXCEPT ![running] = place] /\ next \in Node
  BY DEF KCSwitch, IInv, TypeOK
<1>2. \A n \in Node : n # running => kc'[n] = kc[n] /\ kc[n] \in KernelPlace
  BY <1>1 DEF IInv, TypeOK
<1>3. at' = kc[next] /\ at' \notin {"user", "copy_kernel"}
  BY <1>1, <1>2 DEF KernelPlace
<1>4. ASSUME NEW q \in Proc, q # running, status'[q] = status[q]
      PROVE  Same(q)
  <2>1. ~Copying(q) /\ ~Copying(q)' /\ q \in Node
    BY <1>3 DEF Copying, Node
  <2>2. Place(q) = kc[q] /\ Place(q)' = kc[q]
    BY <2>1, <1>2, <1>3, <1>4 DEF Place
  <2>3. Place(q) # "user"
    BY <2>1, <2>2, <1>2, <1>4 DEF KernelPlace
  <2> QED
    BY <2>1, <2>2, <2>3, <1>4, SamePlaceSame
<1> QED
  BY <1>3, <1>4

(***************************************************************************)
(* What the process that is switched out is owed: nothing if it was        *)
(* preempted or is dead, the end of its call if it blocked.                *)
(***************************************************************************)
LEMMA SwitchedOut ==
  ASSUME IInv, IInv', at = "handler", NEW p \in Proc, p = running,
         NEW next, next # running, running' = next,
         NEW place \in {"restore_uc", "block", "dead"},
         KCSwitch(running, next, place), stack' = stack, uc' = uc
  PROVE  /\ RegOf(p)' = RegOf(p)
         /\ status'[p] # "alive" => Owed(p)' = <<"nothing">>
         /\ place = "restore_uc" => Owed(p)' = <<"nothing">>
         /\ status'[p] = "alive" /\ place = "block" /\ stack[p].handler # "TrapClock" =>
              Owed(p)' = <<"call", stack[p].handler>>
<1>1. kc'[p] = place /\ p \in Node
  BY DEF KCSwitch, IInv, TypeOK, Node
<1>2. Place(p)' = place /\ Place(p) = "handler"
  BY <1>1 DEF Place
<1>3. RegOf(p)' = RegOf(p)
  BY <1>2 DEF RegOf
<1>4. ~Copying(p)'
  BY SwitchKeepsOthers DEF Copying
<1>5. OwedIs(p)'
  BY OwedCasesNext
<1>6. stack'[p].handler = stack[p].handler
  OBVIOUS
<1> QED
  BY <1>2, <1>3, <1>4, <1>5, <1>6 DEF OwedIs

LEMMA TrapClockStep ==
  ASSUME IInv, IInv', TrapClock
  PROVE  UNCHANGED Machines!vars
<1>1. /\ at = "handler" /\ stack[running].handler = "TrapClock" /\ mapped = running
      /\ stack' = stack /\ status' = status /\ uc' = uc
  BY Current DEF TrapClock, Handling
<1>2. CASE at' = "restore_uc" /\ UNCHANGED <<running, kc>>
  <2>1. \A q \in Proc : q # running => Same(q)
    BY <1>1, <1>2, OthersStay
  <2>2. CASE running = Idle
    BY <2>1, <2>2, NoMachineChanges, ContextSwitchAssumption
  <2>3. CASE running # Idle
    <3>1. Owed(running) = <<"nothing">> /\ Owed(running)' = <<"nothing">>
      BY <1>1, <1>2, <2>3, RunningOwedNow, RunningOwedNext DEF RunningOwed
    <3>2. RegOf(running)' = RegOf(running)
      BY <1>1, <1>2, <2>3, RunningOwedNow, RunningOwedNext DEF RunningOwed
    <3>3. Same(running)
      BY <3>1, <3>2, <1>1, <1>2 DEF Same
    <3> QED
      BY <2>1, <3>3, NoMachineChanges
  <2> QED
    BY <2>2, <2>3
<1>3. ASSUME NEW next \in ready \cup blocked, running' = next,
             KCSwitch(running, next, "restore_uc")
      PROVE  UNCHANGED Machines!vars
  <2>1. next # running
    BY DEF IInv, KernelContextsFit
  <2>2. \A q \in Proc : q # running => Same(q)
    BY <1>1, <1>3, <2>1, SwitchKeepsOthers
  <2>3. ASSUME NEW p \in Proc, p = running
        PROVE  Same(p)
    <3>1. "restore_uc" \in {"restore_uc", "block", "dead"}
      OBVIOUS
    <3>2. RegOf(p)' = RegOf(p) /\ Owed(p)' = <<"nothing">>
      BY <1>1, <1>3, <2>1, <2>3, <3>1, SwitchedOut
    <3>3. running # Idle
      BY <2>3, ContextSwitchAssumption
    <3>4. Owed(p) = <<"nothing">>
      BY <1>1, <2>3, <3>3, RunningOwedNow DEF RunningOwed
    <3> QED
      BY <3>2, <3>4, <1>1 DEF Same
  <2> QED
    BY <2>2, <2>3, NoMachineChanges
<1>4. \A woken \in Woken : ready \cup woken \subseteq ready \cup blocked
  BY WokenWereBlocked
<1> QED
  BY <1>2, <1>3, <1>4 DEF TrapClock

(***************************************************************************)
(* run_next_ready: whoever is next, it is not the running process.         *)
(***************************************************************************)
LEMMA NextIsAnother ==
  ASSUME IInv, running # Idle, NEW rd, rd \subseteq ready \cup blocked,
         NEW place, RunNextReady(rd, place)
  PROVE  \E next : /\ next # running /\ running' = next
                   /\ KCSwitch(running, next, place)
<1>1. running \notin ready \cup blocked
  BY DEF IInv, KernelContextsFit
<1>2. PICK next \in IF rd = {} THEN {Idle} ELSE rd :
        running' = next /\ KCSwitch(running, next, place)
  BY DEF RunNextReady
<1>3. next # running
  BY <1>1, <1>2
<1> QED
  BY <1>2, <1>3

LEMMA BlockStep ==
  ASSUME IInv, IInv', at = "handler", stack[mapped].handler \in {"Delay", "Wait"},
         RunNextReady(ready, "block"), UNCHANGED <<status, uc, stack>>
  PROVE  UNCHANGED Machines!vars
<1>1. running # Idle
  BY CallerIsProcess
<1>2. PICK next : /\ next # running /\ running' = next
                  /\ KCSwitch(running, next, "block")
  BY <1>1, NextIsAnother
<1>3. \A q \in Proc : q # running => Same(q)
  BY <1>2, SwitchKeepsOthers
<1>4. ASSUME NEW p \in Proc, p = running
      PROVE  Same(p)
  <2>1. "block" \in {"restore_uc", "block", "dead"}
    OBVIOUS
  <2>2. mapped = running /\ status'[p] = "alive" /\ stack[p].handler # "TrapClock"
    BY <1>1, <1>4, RunningOwedNow DEF RunningOwed
  <2>3. RegOf(p)' = RegOf(p) /\ Owed(p)' = <<"call", stack[p].handler>>
    BY <1>2, <1>4, <2>1, <2>2, SwitchedOut
  <2>4. Owed(p) = <<"call", stack[p].handler>>
    BY <1>1, <1>4, <2>2, RunningOwedNow DEF RunningOwed
  <2> QED
    BY <2>3, <2>4 DEF Same
<1> QED
  BY <1>3, <1>4, NoMachineChanges

LEMMA DelayStep ==
  ASSUME IInv, IInv', KernelDelay
  PROVE  [Machines!Next]_Machines!vars
<1>1. at = "handler" /\ stack[mapped].handler = "Delay" /\ "Delay" \in Syscall
  BY DEF KernelDelay, Handling, Syscall
<1>2. running # Idle
  BY <1>1, CallerIsProcess
<1>3. ASSUME NEW r \in {0, ERROR}, Returns(r), UNCHANGED <<status, uc>>
      PROVE  Machines!Next
  <2>1. r \in Machines!Answers(running, "Delay")
    BY AnswersAre
  <2> QED
    BY <1>1, <1>2, <1>3, <2>1, ReturnsServes
<1>4. ASSUME RunNextReady(ready, "block"), UNCHANGED <<status, uc, stack, cpu>>
      PROVE  UNCHANGED Machines!vars
  BY <1>1, <1>4, BlockStep
<1> QED
  BY <1>3, <1>4 DEF KernelDelay

(***************************************************************************)
(* Exit ends the machine.                                                  *)
(***************************************************************************)
LEMMA ExitServes ==
  ASSUME IInv, IInv', KernelExit
  PROVE  Machines!Next
<1>1. /\ at = "handler" /\ stack[mapped].handler \in {"Exit", "Exec"}
      /\ status' = [status EXCEPT ![running] = "defunct"]
      /\ uc' = uc /\ stack' = stack
  BY DEF KernelExit, Handling
<1>2. running # Idle
  BY <1>1, CallerIsProcess
<1>3. PICK woken \in Woken : RunNextReady(ready \cup woken, "dead")
  BY DEF KernelExit
<1>4. ready \cup woken \subseteq ready \cup blocked
  BY WokenWereBlocked
<1>5. PICK next : /\ next # running /\ running' = next
                  /\ KCSwitch(running, next, "dead")
  BY <1>2, <1>3, <1>4, NextIsAnother
<1>6. PICK p \in Proc : p = running /\ status[p] = "alive" /\ mapped = p
  BY <1>2, RunningOwedNow DEF RunningOwed
<1>7. /\ status'[p] = "defunct"
      /\ \A q \in Proc : q # p => status'[q] = status[q]
  BY <1>1, <1>6 DEF IInv, TypeOK
<1>8. \A q \in Proc : q # p => Same(q)
  BY <1>1, <1>5, <1>6, <1>7, SwitchKeepsOthers
<1>9. RegOf(p)' = RegOf(p) /\ Owed(p)' = <<"nothing">>
  <2>1. "dead" \in {"restore_uc", "block", "dead"}
    OBVIOUS
  <2> QED
    BY <1>1, <1>5, <1>6, <1>7, <2>1, SwitchedOut
<1>10. Owed(p) \in {<<"call", "Exit">>, <<"call", "Exec">>}
  BY <1>1, <1>2, <1>6, RunningOwedNow DEF RunningOwed
<1> QED
  BY <1>6, <1>7, <1>8, <1>9, <1>10, ExitStep

LEMMA CollectStep ==
  ASSUME IInv, IInv', at = "handler", stack[mapped].handler = "Wait",
         NEW c \in Proc, status[c] = "defunct",
         status' = [status EXCEPT ![c] = "free"],
         uc' = [uc EXCEPT ![c] = 0],
         kc' = [kc EXCEPT ![c] = "nowhere"],
         stack' = [stack EXCEPT ![c] = Empty("none"), ![mapped].return_val = c],
         at' = "add_return_val", running' = running
  PROVE  Machines!Next
<1>1. running # Idle
  BY CallerIsProcess
<1>2. /\ mapped = running /\ running \in Node /\ stack[running] \in Frame
      /\ running \in Proc /\ status[running] = "alive" /\ c # running /\ c \in Node
  BY <1>1, Current, RunningOwedNow DEF RunningOwed, Node
<1>3. /\ stack'[running].return_val = c
      /\ \A n \in Node : n \notin {c, running} => stack'[n] = stack[n]
  <2> DEFINE none == Empty("none")
             top == [stack[running] EXCEPT !.return_val = c]
  <2>1. stack' = [[stack EXCEPT ![c] = none] EXCEPT ![running] = top]
    BY <1>2 DEF IInv, TypeOK
  <2>2. top.return_val = c
    BY <1>2 DEF Frame
  <2> HIDE DEF none, top
  <2> QED
    BY <2>1, <2>2, <1>2 DEF IInv, TypeOK
<1>4. /\ uc'[c] = 0 /\ status'[c] = "free" /\ kc'[c] = "nowhere"
      /\ \A n \in Node : n # c => uc'[n] = uc[n] /\ kc'[n] = kc[n]
      /\ \A n \in Proc : n # c => status'[n] = status[n]
  BY <1>2 DEF IInv, TypeOK
<1>5. ASSUME NEW q \in Proc, q # running, q # c
      PROVE  Same(q)
  <2>1. ~Copying(q) /\ ~Copying(q)' /\ q \in Node
    BY DEF Copying, Node
  <2>2. /\ status'[q] = status[q] /\ uc'[q] = uc[q] /\ kc'[q] = kc[q]
        /\ stack'[q] = stack[q]
    BY <1>3, <1>4, <1>5, <2>1
  <2> QED
    BY <1>5, <2>1, <2>2, OthersSame
<1>6. /\ Owed(running) = <<"call", "Wait">> /\ RegOf(running) = uc[running]
  BY <1>1, <1>2, RunningOwedNow DEF RunningOwed
<1>7. /\ Owed(running)' = <<"result", c>> /\ RegOf(running)' = uc[running]
  BY <1>1, <1>2, <1>3, <1>4, RunningOwedNext DEF RunningOwed
<1>8. Owed(c) = <<"nothing">> /\ Owed(c)' = <<"nothing">>
  BY <1>4, OwedCases, OwedCasesNext DEF OwedIs
<1>9. RegOf(c)' \in Word
  <2>1. Place(c)' = "nowhere"
    BY <1>2, <1>4 DEF Place
  <2> QED
    BY <2>1, <1>4 DEF RegOf, Word
<1> QED
  BY <1>2, <1>4, <1>5, <1>6, <1>7, <1>8, <1>9, WaitStep

(***************************************************************************)
(* Wait takes a dead child, ends with ERROR, or blocks, which user code    *)
(* does not see.                                                           *)
(***************************************************************************)
LEMMA WaitServes ==
  ASSUME IInv, IInv', KernelWait
  PROVE  [Machines!Next]_Machines!vars
<1>1. at = "handler" /\ stack[mapped].handler = "Wait" /\ "Wait" \in Syscall
  BY DEF KernelWait, Handling, Syscall
<1>2. running # Idle
  BY <1>1, CallerIsProcess
<1>3. CASE Returns(ERROR) /\ UNCHANGED <<status, uc>>
  <2>1. ERROR \in Machines!Answers(running, "Wait")
    BY AnswersAre
  <2> QED
    BY <1>1, <1>2, <1>3, <2>1, ReturnsServes
<1>4. CASE /\ blocked' = blocked \cup {running} /\ RunNextReady(ready, "block")
           /\ UNCHANGED <<status, uc, stack, cpu>>
  BY <1>1, <1>4, BlockStep
<1>5. ASSUME NEW p \in Proc, status[p] = "defunct",
             status' = [status EXCEPT ![p] = "free"],
             uc' = [uc EXCEPT ![p] = 0],
             kc' = [kc EXCEPT ![p] = "nowhere"],
             stack' = [stack EXCEPT ![p] = Empty("none"), ![mapped].return_val = p],
             at' = "add_return_val",
             UNCHANGED <<running, ready, blocked, cpu, mapped, ptbr1>>
      PROVE  Machines!Next
  BY <1>1, <1>5, CollectStep
<1> QED
  BY <1>3, <1>4, <1>5 DEF KernelWait

(***************************************************************************)
(* At boot there is the machine of init.                                   *)
(***************************************************************************)
LEMMA InitMachines == Init => Machines!Init
<1> SUFFICES ASSUME Init PROVE Machines!Init
    OBVIOUS
<1>1. IInv
  BY InitFits
<1>2. ASSUME NEW p \in Proc
      PROVE  RegOf(p) \in Word /\ Owed(p) = <<"nothing">>
  <2>1. Place(p) \in {"nowhere", "idle_setup"} /\ ~Copying(p)
    BY DEF Init, Place, Copying, Node
  <2>2. RegOf(p) \in Word
    BY <1>1, <2>1 DEF RegOf, IInv, TypeOK, Node
  <2>3. Owed(p) = <<"nothing">>
    BY <2>1, OwedCases DEF OwedIs
  <2> QED
    BY <2>2, <2>3
<1> QED
  BY <1>2 DEF Machines!Init, Machines!Nothing, Init

(***************************************************************************)
(* What user code sees of the traps, the context switches and Fork are     *)
(* private machines whose system calls return exactly once, with their own *)
(* result, and of which Fork makes a copy that gets 0.                     *)
(***************************************************************************)
THEOREM MachinesArePrivate == Spec => ImplementsUserMachines
<1>1. IInv /\ IInv' /\ [Next]_vars => [Machines!Next]_Machines!vars
  <2> SUFFICES ASSUME IInv, IInv', [Next]_vars PROVE [Machines!Next]_Machines!vars
      OBVIOUS
  <2>1. CASE idle_setup BY <2>1, IdleSetupStep
  <2>2. CASE Instruction BY <2>2, InstructionStep
  <2>3. CASE Trap("TrapClock") BY <2>3, TrapStep
  <2>4. CASE \E h \in Syscall : running # Idle /\ Trap(h) BY <2>4, TrapStep
  <2>5. CASE TrapClock BY <2>5, TrapClockStep
  <2>6. CASE KernelGetPid BY <2>6, GetPidStep
  <2>7. CASE Unhandled BY <2>7, UnhandledStep
  <2>8. CASE KernelDelay BY <2>8, DelayStep
  <2>9. CASE DelayOver BY <2>9, DelayOverStep
  <2>10. CASE KernelFork BY <2>10, ForkServes
  <2>11. CASE copy_kernel BY <2>11, CopyKernelStep
  <2>12. CASE Forked BY <2>12, ForkedStep
  <2>13. CASE KernelExec BY <2>13, ExecServes
  <2>14. CASE KernelExit BY <2>14, ExitServes
  <2>15. CASE KernelWait BY <2>15, WaitServes
  <2>16. CASE WaitAgain BY <2>16, WaitAgainStep
  <2>17. CASE add_return_val BY <2>17, AddReturnValStep
  <2>18. CASE restore_uc BY <2>18, RestoreUcStep
  <2>19. CASE UNCHANGED vars
    <3>1. UNCHANGED <<status, running, ready, blocked, uc, kc, stack, cpu, at>>
      BY <2>19 DEF vars, procVars, machine
    <3>2. ASSUME NEW q \in Proc
          PROVE  Same(q)
      BY <3>1 DEF Same, RegOf, Owed, Place, Copying
    <3> QED
      BY <3>2, NoMachineChanges
  <2> QED
    BY <2>1, <2>2, <2>3, <2>4, <2>5, <2>6, <2>7, <2>8, <2>9, <2>10, <2>11, <2>12,
       <2>13, <2>14, <2>15, <2>16, <2>17, <2>18, <2>19 DEF Next
<1> QED
  BY <1>1, InductiveInvariant, InitMachines, PTL DEF Spec, ImplementsUserMachines, Machines!Spec

=============================================================================
