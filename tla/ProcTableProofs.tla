--------------------------- MODULE ProcTableProofs ---------------------------
(***************************************************************************)
(* Proofs about the process table: type correctness, and that no process   *)
(* is lost, doubly queued, left with a dangling parent or deaf to the      *)
(* death of a child, for every number of processes.                        *)
(***************************************************************************)
EXTENDS ProcTable, SchedulingProofs

LEMMA InitTypeOK == Init => TypeOK
<1> SUFFICES ASSUME Init PROVE TypeOK
  OBVIOUS
<1>1. running \in Proc \cup {Idle} /\ halted \in BOOLEAN
  BY ProcTableAssumption DEF Init
<1>2. ready \in Seq(Proc) /\ delayed \in Seq(Proc) /\ dChildren \in [Proc -> Seq(Proc)]
  BY EmptySeq DEF Init
<1>3. pc \in [Proc -> {"user", "wait", "delay"}] /\ status \in [Proc -> {"free", "alive", "defunct"}]
  BY DEF Init
<1>4. waiting \subseteq Proc /\ orphans \subseteq Proc
  BY DEF Init
<1>5. code \in [Proc -> Int] /\ parent \in [Proc -> Proc \cup {NoProc}]
  BY DEF Init
<1>6. aChildren \in [Proc -> SUBSET Proc]
  BY DEF Init
<1> QED BY <1>1, <1>2, <1>3, <1>4, <1>5, <1>6 DEF TypeOK

(***************************************************************************)
(* The ready queue with the process that check_wait unblocks.              *)
(***************************************************************************)
LEMMA CheckWaitUnblocks ==
  ASSUME TypeOK, NEW par \in Proc
  PROVE  /\ ready \o CheckWait(par) = IF par \in waiting THEN Append(ready, par) ELSE ready
         /\ ready \o CheckWait(par) \in Seq(Proc)
         /\ Range(CheckWait(par)) = {par} \cap waiting
<1>1. CASE par \in waiting
  <2>1. ready \o <<par>> = Append(ready, par) /\ Append(ready, par) \in Seq(Proc)
    BY AppendIsConcat, AppendProperties DEF TypeOK
  <2> QED BY <1>1, <2>1, ShortOnce DEF CheckWait
<1>2. CASE par \notin waiting
  <2>1. ready \o <<>> = ready
    BY ConcatEmptySeq DEF TypeOK
  <2> QED BY <1>2, <2>1, ShortOnce DEF CheckWait, TypeOK
<1> QED BY <1>1, <1>2

(***************************************************************************)
(* One lemma per operation: it preserves the types.                        *)
(***************************************************************************)
LEMMA ForkType ==
  ASSUME TypeOK, NEW p \in Proc, KernelFork(p)
  PROVE  TypeOK'
<1> USE DEF TypeOK
<1>1. PICK c \in Proc :
        /\ status' = [status EXCEPT ![c] = "alive"]
        /\ parent' = [parent EXCEPT ![c] = p]
        /\ aChildren' = [aChildren EXCEPT ![p] = @ \cup {c}, ![c] = {}]
        /\ dChildren' = [dChildren EXCEPT ![c] = <<>>]
        /\ ready' = Append(ready, c)
        /\ pc' = [pc EXCEPT ![c] = "user"]
  BY DEF KernelFork
<1>2. ready' \in Seq(Proc)
  BY <1>1, AppendProperties
<1>3. status' \in [Proc -> {"free", "alive", "defunct"}] /\ pc' \in [Proc -> {"user", "wait", "delay"}]
  BY <1>1
<1>4. parent' \in [Proc -> Proc \cup {NoProc}]
  BY <1>1
<1>5. aChildren' \in [Proc -> SUBSET Proc]
  BY <1>1
<1>6. dChildren' \in [Proc -> Seq(Proc)]
  BY <1>1, EmptySeq
<1> QED BY <1>2, <1>3, <1>4, <1>5, <1>6 DEF KernelFork, listVars

LEMMA ExitType ==
  ASSUME TypeOK, NEW p \in Proc, NEW rc \in Status, KernelExit(p, rc)
  PROVE  TypeOK'
<1> DEFINE dch == [dChildren EXCEPT ![p] = <<>>]
<1>1. dch \in [Proc -> Seq(Proc)]
  BY EmptySeq DEF TypeOK
<1> HIDE DEF dch
<1>2. /\ running' \in Proc \cup {Idle} /\ ready' \in Seq(Proc)
      /\ waiting' \subseteq Proc /\ orphans' \subseteq Proc
      /\ dChildren' \in [Proc -> Seq(Proc)]
  <2>1. CASE parent[p] = NoProc /\ RunNextReady(ready) /\ dChildren' = dch
             /\ orphans' = {} \cup {p} /\ UNCHANGED waiting
    BY <1>1, <2>1, RunNextReadyType DEF TypeOK
  <2>2. CASE /\ parent[p] # NoProc
             /\ dChildren' = [dch EXCEPT ![parent[p]] = Append(@, p)]
             /\ orphans' = {}
             /\ waiting' = waiting \ Range(CheckWait(parent[p]))
             /\ RunNextReady(ready \o CheckWait(parent[p]))
    <3>1. parent[p] \in Proc
      BY <2>2 DEF TypeOK
    <3>2. Append(dch[parent[p]], p) \in Seq(Proc)
      BY <1>1, <3>1, AppendProperties
    <3>3. dChildren' \in [Proc -> Seq(Proc)]
      BY <1>1, <2>2, <3>1, <3>2
    <3>4. running' \in Proc \cup {Idle} /\ ready' \in Seq(Proc)
      BY <2>2, <3>1, CheckWaitUnblocks, RunNextReadyType
    <3> QED BY <2>2, <3>3, <3>4 DEF TypeOK
  <2> QED BY <2>1, <2>2 DEF KernelExit, Graveyard, dch
<1>3. /\ status' \in [Proc -> {"free", "alive", "defunct"}]
      /\ code' \in [Proc -> Int]
  BY ProcTableAssumption DEF KernelExit, Destroyed, ClearedCode, TypeOK
<1>4. parent' \in [Proc -> Proc \cup {NoProc}]
  BY DEF KernelExit, Orphaned, TypeOK
<1>5. aChildren' \in [Proc -> SUBSET Proc]
  BY DEF KernelExit, TypeOK
<1> QED BY <1>2, <1>3, <1>4, <1>5 DEF KernelExit, TypeOK

LEMMA WaitType ==
  ASSUME TypeOK, NEW p \in Proc, WaitLoop(p),
         UNCHANGED <<delayed, parent, aChildren, halted>>
  PROVE  TypeOK'
<1>1. CASE dChildren[p] # <<>>
  <2>1. Tail(dChildren[p]) \in Seq(Proc)
    BY <1>1, HeadTailProperties DEF TypeOK
  <2>2. dChildren' \in [Proc -> Seq(Proc)]
    BY <1>1, <2>1 DEF WaitLoop, TypeOK
  <2>3. /\ status' = Destroyed(orphans \cup {Head(dChildren[p])}, status)
        /\ code' = ClearedCode(orphans \cup {Head(dChildren[p])}, code)
        /\ orphans' = {} /\ pc' = [pc EXCEPT ![p] = "user"]
        /\ UNCHANGED <<running, ready, waiting>>
    BY <1>1 DEF WaitLoop
  <2>4. status' \in [Proc -> {"free", "alive", "defunct"}] /\ code' \in [Proc -> Int]
    BY <2>3 DEF Destroyed, ClearedCode, TypeOK
  <2>5. pc' \in [Proc -> {"user", "wait", "delay"}]
    BY <2>3 DEF TypeOK
  <2> QED BY <2>2, <2>3, <2>4, <2>5 DEF TypeOK
<1>2. CASE dChildren[p] = <<>>
  <2>1. running' \in Proc \cup {Idle} /\ ready' \in Seq(Proc)
    BY <1>2, RunNextReadyType DEF WaitLoop, TypeOK
  <2> QED BY <1>2, <2>1 DEF WaitLoop, TypeOK
<1> QED BY <1>1, <1>2

LEMMA DelayType ==
  ASSUME TypeOK, NEW p \in Proc, NEW ticks \in 1..MaxDelay, KernelDelay(p, ticks)
  PROVE  TypeOK'
<1>1. running' \in Proc \cup {Idle} /\ ready' \in Seq(Proc)
  BY RunNextReadyType DEF KernelDelay, TypeOK
<1>2. delayed' \in Seq(Proc)
  BY AppendProperties DEF KernelDelay, TypeOK
<1>3. code' \in [Proc -> Int] /\ pc' \in [Proc -> {"user", "wait", "delay"}]
  <2>1. ticks \in Int
    BY ProcTableAssumption
  <2> QED BY <2>1 DEF KernelDelay, TypeOK
<1>4. UNCHANGED <<waiting, orphans, status, parent, aChildren, dChildren, halted>>
  BY DEF KernelDelay
<1> QED BY <1>1, <1>2, <1>3, <1>4 DEF TypeOK

LEMMA ClockType ==
  ASSUME TypeOK, TrapClock
  PROVE  TypeOK'
<1>1. /\ running' \in Proc \cup {Idle} /\ ready' \in Seq(Proc)
      /\ delayed' \in Seq(Proc) /\ code' \in [Proc -> Int]
  <2>1. CASE Due = {} /\ code' = CodesAfterWalk(Len(delayed)) /\ RRPreempt(ready)
             /\ UNCHANGED delayed
    BY <2>1, RRPreemptType DEF CodesAfterWalk, TypeOK
  <2>2. ASSUME NEW i \in Due, code' = CodesAfterWalk(i), delayed' = RemoveAt(delayed, i),
               RRPreempt(Append(ready, delayed[i]))
        PROVE  /\ running' \in Proc \cup {Idle} /\ ready' \in Seq(Proc)
               /\ delayed' \in Seq(Proc) /\ code' \in [Proc -> Int]
    <3>1. i \in 1..Len(delayed)
      BY LenProperties DEF Due, TypeOK
    <3>2. delayed[i] \in Proc
      BY <3>1, ElementOfSeq DEF TypeOK
    <3>3. Append(ready, delayed[i]) \in Seq(Proc)
      BY <3>2, AppendProperties DEF TypeOK
    <3>4. running' \in Proc \cup {Idle} /\ ready' \in Seq(Proc)
      BY <2>2, <3>3, RRPreemptType DEF TypeOK
    <3>5. delayed' \in Seq(Proc)
      BY <2>2, <3>1, RemoveInSeq DEF TypeOK
    <3>6. code' \in [Proc -> Int]
      BY <2>2 DEF CodesAfterWalk, TypeOK
    <3> QED BY <3>4, <3>5, <3>6
  <2> QED BY <2>1, <2>2 DEF TrapClock
<1> QED BY <1>1 DEF TrapClock, TypeOK

LEMMA NextTypeOK == TypeOK /\ [Next]_vars => TypeOK'
<1> SUFFICES ASSUME TypeOK, [Next]_vars PROVE TypeOK'
  OBVIOUS
<1>1. CASE HaltMachine
  BY <1>1 DEF HaltMachine, TypeOK, schedVars, listVars, pcbVars
<1>2. CASE TrapClock
  BY <1>2, ClockType
<1>3. ASSUME NEW p \in Proc, ProcStep(p) PROVE TypeOK'
  <2>1. CASE KernelFork(p)
    BY <2>1, ForkType
  <2>2. ASSUME NEW rc \in Status, KernelExit(p, rc) PROVE TypeOK'
    BY <2>2, ExitType
  <2>3. CASE KernelWait(p) \/ ResumeWait(p)
    BY <2>3, WaitType DEF KernelWait, ResumeWait
  <2>4. ASSUME NEW ticks \in 1..MaxDelay, KernelDelay(p, ticks) PROVE TypeOK'
    BY <2>4, DelayType
  <2>5. CASE ResumeDelay(p)
    BY <2>5 DEF ResumeDelay, TypeOK, listVars, pcbVars
  <2> QED BY <1>3, <2>1, <2>2, <2>3, <2>4, <2>5 DEF ProcStep
<1>4. CASE UNCHANGED vars
  BY <1>4 DEF TypeOK, vars, schedVars, listVars, pcbVars
<1> QED BY <1>1, <1>2, <1>3, <1>4 DEF Next

(***************************************************************************)
(* The queues of the kernel, the pcbs and the saved continuations have     *)
(* their types in every reachable state: only process nodes are queued,    *)
(* and rr_preempt never queues idle.                                       *)
(***************************************************************************)
THEOREM TypeCorrect == Spec => []TypeOK
<1> QED BY InitTypeOK, NextTypeOK, PTL DEF Spec

-----------------------------------------------------------------------------
(***************************************************************************)
(* The inductive invariant.  OnePlace alone is not inductive: graveyard    *)
(* appends to the d_children list of the parent, which must be alive, and  *)
(* the wake-up it sends must go to a process on the waiting list.          *)
(***************************************************************************)
IInv == TypeOK /\ OnePlace /\ ParentIsAlive /\ NoLostChild

LEMMA InitIInv == Init => IInv
<1> SUFFICES ASSUME Init PROVE IInv
  OBVIOUS
<1>1. InitProc \in Proc /\ InitProc # Idle
  BY ProcTableAssumption, IdleAssumption
<1>2. Runnable = {InitProc} /\ RunnableOnce
  BY <1>1, ShortOnce DEF Init, Runnable, RunnableOnce
<1>3. LiveOnce
  BY <1>1, <1>2, ShortOnce DEF Init, LiveOnce, WithStatus
<1>4. DeadOnce
  BY ShortOnce DEF Init, DeadOnce
<1>5. ParentIsAlive /\ NoLostChild
  BY DEF Init, ParentIsAlive, NoLostChild
<1> QED BY <1>3, <1>4, <1>5, InitTypeOK DEF IInv, OnePlace

(***************************************************************************)
(* The running process is alive and in no queue.                           *)
(***************************************************************************)
LEMMA RunningIsAlive ==
  ASSUME TypeOK, LiveOnce, NEW p \in Proc, running = p
  PROVE  /\ status[p] = "alive"
         /\ p \notin Range(ready) /\ p \notin waiting /\ p \notin Range(delayed)
         /\ Runnable = Range(ready) \cup {p}
<1>1. p # Idle
  BY IdleAssumption
<1>2. Runnable = Range(ready) \cup {p}
  BY <1>1 DEF Runnable
<1> QED BY <1>2 DEF LiveOnce, RunnableOnce, WithStatus

(***************************************************************************)
(* A step that moves no node and changes no status keeps the lists.        *)
(***************************************************************************)
LEMMA SameLists ==
  ASSUME OnePlace,
         UNCHANGED <<running, ready, listVars, status, dChildren>>
  PROVE  OnePlace'
BY DEF OnePlace, LiveOnce, DeadOnce, RunnableOnce, Runnable, WithStatus, listVars

LEMMA ForkIInv ==
  ASSUME IInv, NEW p \in Proc, KernelFork(p)
  PROVE  IInv'
<1>1. PICK c \in Proc :
        /\ status[c] = "free"
        /\ status' = [status EXCEPT ![c] = "alive"]
        /\ parent' = [parent EXCEPT ![c] = p]
        /\ aChildren' = [aChildren EXCEPT ![p] = @ \cup {c}, ![c] = {}]
        /\ dChildren' = [dChildren EXCEPT ![c] = <<>>]
        /\ ready' = Append(ready, c)
        /\ pc' = [pc EXCEPT ![c] = "user"]
  BY DEF KernelFork
<1>2. running = p /\ UNCHANGED <<running, waiting, delayed, orphans, code, halted>>
  BY DEF KernelFork, InUser, listVars
<1>3. status[p] = "alive" /\ Runnable = Range(ready) \cup {p} /\ p # c
  BY <1>1, <1>2, RunningIsAlive DEF IInv, OnePlace
<1>4. LiveOnce'
  <2>1. c \notin Range(ready) /\ c \notin waiting /\ c \notin Range(delayed)
    BY <1>1, <1>3 DEF IInv, OnePlace, LiveOnce, WithStatus
  <2>2. IsInjective(ready') /\ Range(ready') = Range(ready) \cup {c}
    BY <1>1, <2>1, AppendOnce DEF IInv, TypeOK, OnePlace, LiveOnce, RunnableOnce
  <2>3. RunnableOnce' /\ Runnable' = Runnable \cup {c}
    BY <1>2, <1>3, <2>2 DEF Runnable, RunnableOnce, IInv, OnePlace, LiveOnce
  <2>4. WithStatus("alive")' = WithStatus("alive") \cup {c}
    BY <1>1 DEF WithStatus, IInv, TypeOK
  <2> QED BY <1>2, <2>1, <2>3, <2>4, <1>3 DEF LiveOnce, IInv, OnePlace
<1>5. DeadOnce'
  <2>1. WithStatus("defunct")' = WithStatus("defunct")
    BY <1>1 DEF WithStatus, IInv, TypeOK
  <2>2. dChildren'[c] = <<>> /\ \A q \in Proc \ {c} : dChildren'[q] = dChildren[q]
    BY <1>1 DEF IInv, TypeOK
  <2>3. IsInjective(dChildren'[c]) /\ Range(dChildren'[c]) = {}
    BY <2>2, ShortOnce
  <2>4. DeadOnce
    BY DEF IInv, OnePlace
  <2>5. ASSUME NEW q \in Proc
        PROVE  /\ IsInjective(dChildren'[q])
               /\ Range(dChildren'[q]) \subseteq WithStatus("defunct")
               /\ Range(dChildren'[q]) \cap orphans = {}
    BY <2>2, <2>3, <2>4 DEF DeadOnce
  <2>6. ASSUME NEW q \in Proc, NEW r \in Proc, q # r
        PROVE  Range(dChildren'[q]) \cap Range(dChildren'[r]) = {}
    BY <2>2, <2>3, <2>4, <2>6 DEF DeadOnce
  <2> QED BY <1>2, <2>1, <2>4, <2>5, <2>6 DEF DeadOnce
<1>6. ParentIsAlive'
  BY <1>1, <1>3 DEF ParentIsAlive, IInv, TypeOK
<1>7. NoLostChild'
  BY <1>1, <1>2 DEF NoLostChild, IInv, TypeOK
<1>8. TypeOK'
  BY ForkType DEF IInv
<1> QED BY <1>4, <1>5, <1>6, <1>7, <1>8 DEF IInv, OnePlace

(***************************************************************************)
(* The loop of process_terminate destroys at most the oldest child.        *)
(***************************************************************************)
LEMMA DestroyedIsDefunct ==
  ASSUME TypeOK, NEW p \in Proc
  PROVE  DestroyedDefunct(p) \subseteq Range(dChildren[p])
BY DEF DestroyedDefunct, Range, TypeOK

LEMMA ExitIInv ==
  ASSUME IInv, NEW p \in Proc, NEW rc \in Status, KernelExit(p, rc)
  PROVE  IInv'
<1> DEFINE dead == orphans \cup DestroyedDefunct(p)
           par  == parent[p]
<1>1. running = p /\ UNCHANGED <<pc, delayed, halted>>
  BY DEF KernelExit, InUser
<1>2. /\ status[p] = "alive" /\ Runnable = Range(ready) \cup {p}
      /\ p \notin Range(ready) /\ p \notin waiting /\ p \notin Range(delayed)
  BY <1>1, RunningIsAlive DEF IInv, OnePlace
<1>3. dead \subseteq WithStatus("defunct")
  BY DestroyedIsDefunct DEF IInv, OnePlace, DeadOnce
<1>4. /\ status'[p] = "defunct"
      /\ \A q \in Proc \ {p} : status'[q] = IF q \in dead THEN "free" ELSE status[q]
  BY DEF KernelExit, Destroyed, IInv, TypeOK
<1>5. TypeOK'
  BY ExitType DEF IInv
<1> HIDE DEF dead
<1>6. WithStatus("alive")' = WithStatus("alive") \ {p}
  BY <1>2, <1>3, <1>4 DEF WithStatus
<1>7. WithStatus("defunct")' = (WithStatus("defunct") \ dead) \cup {p}
  BY <1>2, <1>3, <1>4 DEF WithStatus
<1>8. \/ /\ par # NoProc
         /\ dChildren' = [[dChildren EXCEPT ![p] = <<>>] EXCEPT ![par] = Append(@, p)]
         /\ orphans' = {}
         /\ waiting' = waiting \ Range(CheckWait(par))
         /\ RunNextReady(ready \o CheckWait(par))
      \/ /\ par = NoProc
         /\ dChildren' = [dChildren EXCEPT ![p] = <<>>]
         /\ orphans' = {p}
         /\ UNCHANGED waiting
         /\ RunNextReady(ready)
  BY DEF KernelExit, Graveyard
<1>9. par # NoProc => par \in Proc /\ status[par] = "alive"
  BY <1>2 DEF IInv, TypeOK, ParentIsAlive
<1>10. LiveOnce'
  <2>1. CASE par # NoProc
    <3>1. /\ ready \o CheckWait(par) = IF par \in waiting THEN Append(ready, par) ELSE ready
          /\ waiting' = waiting \ {par}
      BY <1>8, <1>9, <2>1, CheckWaitUnblocks DEF IInv
    <3>2. par \in waiting => par \notin Range(ready)
      BY <1>2 DEF IInv, OnePlace, LiveOnce
    <3>3. /\ ready \o CheckWait(par) \in Seq(Proc)
          /\ IsInjective(ready \o CheckWait(par))
          /\ Range(ready \o CheckWait(par)) = Range(ready) \cup ({par} \cap waiting)
      <4>1. CASE par \in waiting
        BY <1>9, <2>1, <3>1, <3>2, <4>1, AppendOnce
           DEF IInv, TypeOK, OnePlace, LiveOnce, RunnableOnce
      <4>2. CASE par \notin waiting
        BY <3>1, <4>2 DEF IInv, TypeOK, OnePlace, LiveOnce, RunnableOnce
      <4> QED BY <4>1, <4>2
    <3>4. RunnableOnce' /\ Runnable' = Range(ready) \cup ({par} \cap waiting)
      BY <1>8, <2>1, <3>3, RunNextReadyOnce
    <3> QED BY <1>1, <1>2, <1>6, <3>1, <3>4 DEF LiveOnce, IInv, OnePlace
  <2>2. CASE par = NoProc
    <3>1. RunnableOnce' /\ Runnable' = Range(ready)
      BY <1>8, <2>2, RunNextReadyOnce DEF IInv, TypeOK, OnePlace, LiveOnce, RunnableOnce
    <3> QED BY <1>1, <1>2, <1>6, <1>8, <2>2, <3>1 DEF LiveOnce, IInv, OnePlace
  <2> QED BY <2>1, <2>2
<1>11. DeadOnce'
  <2> DEFINE dch == [dChildren EXCEPT ![p] = <<>>]
  <2>1. /\ \A q \in Proc : /\ dch[q] \in Seq(Proc) /\ IsInjective(dch[q])
                           /\ Range(dch[q]) \subseteq WithStatus("defunct") \ dead
        /\ \A q, r \in Proc : q # r => Range(dch[q]) \cap Range(dch[r]) = {}
    <3>1. dch[p] = <<>> /\ \A q \in Proc \ {p} : dch[q] = dChildren[q]
      BY DEF IInv, TypeOK
    <3>2. ASSUME NEW q \in Proc \ {p} PROVE Range(dChildren[q]) \cap dead = {}
      BY DestroyedIsDefunct DEF IInv, OnePlace, DeadOnce, dead
    <3> HIDE DEF dch
    <3>3. /\ dch[p] \in Seq(Proc) /\ IsInjective(dch[p]) /\ Range(dch[p]) = {}
      BY <3>1, ShortOnce, EmptySeq
    <3>4. ASSUME NEW q \in Proc \ {p}
          PROVE  /\ dch[q] \in Seq(Proc) /\ IsInjective(dch[q])
                 /\ Range(dch[q]) \subseteq WithStatus("defunct") \ dead
                 /\ dch[q] = dChildren[q]
      <4>1. dChildren[q] \in Seq(Proc)
        BY DEF IInv, TypeOK
      <4> QED BY <3>1, <3>2, <4>1 DEF IInv, OnePlace, DeadOnce
    <3>5. \A q, r \in Proc : q # r => Range(dChildren[q]) \cap Range(dChildren[r]) = {}
      BY DEF IInv, OnePlace, DeadOnce
    <3> QED BY <3>3, <3>4, <3>5
  <2>2. dch \in [Proc -> Seq(Proc)]
    BY EmptySeq DEF IInv, TypeOK
  <2>3. p \notin WithStatus("defunct")
    BY <1>2 DEF WithStatus
  <2> HIDE DEF dch
  <2>4. CASE par = NoProc
    <3>1. dChildren' = dch /\ orphans' = {p}
      BY <1>8, <2>4 DEF dch
    <3> QED BY <1>7, <2>1, <2>3, <3>1 DEF DeadOnce
  <2>5. CASE par # NoProc
    <3>1. dChildren' = [dch EXCEPT ![par] = Append(@, p)] /\ orphans' = {}
      BY <1>8, <2>5 DEF dch
    <3>2. par \in Proc
      BY <1>9, <2>5
    <3>3. /\ IsInjective(dChildren'[par]) /\ Range(dChildren'[par]) = Range(dch[par]) \cup {p}
          /\ \A q \in Proc \ {par} : dChildren'[q] = dch[q]
      BY <2>1, <2>2, <2>3, <3>1, <3>2, AppendOnce
    <3>4. ASSUME NEW q \in Proc
          PROVE  /\ IsInjective(dChildren'[q])
                 /\ Range(dChildren'[q]) \subseteq WithStatus("defunct")'
      BY <1>7, <2>1, <3>2, <3>3
    <3>5. ASSUME NEW q \in Proc, NEW r \in Proc, q # r
          PROVE  Range(dChildren'[q]) \cap Range(dChildren'[r]) = {}
      <4>1. Range(dch[q]) \cap Range(dch[r]) = {} /\ p \notin Range(dch[q]) /\ p \notin Range(dch[r])
        BY <2>1, <2>3, <3>5
      <4> QED BY <3>3, <3>5, <4>1
    <3> QED BY <3>1, <3>4, <3>5 DEF DeadOnce
  <2> QED BY <2>4, <2>5
<1>12. ParentIsAlive'
  <2> SUFFICES ASSUME NEW q \in Proc, status'[q] # "free", parent'[q] # NoProc
               PROVE  status'[parent'[q]] = "alive" /\ q \in aChildren'[parent'[q]]
    BY DEF ParentIsAlive
  <2>1. q \notin aChildren[p] /\ parent'[q] = parent[q]
    BY DEF KernelExit, Orphaned
  <2>2. status[q] # "free"
    BY <1>2, <1>3, <1>4 DEF WithStatus
  <2>3. status[parent[q]] = "alive" /\ q \in aChildren[parent[q]] /\ parent[q] \in Proc
    BY <2>1, <2>2 DEF IInv, TypeOK, ParentIsAlive
  <2>4. parent[q] # p /\ parent[q] \notin dead
    BY <1>3, <2>1, <2>3 DEF WithStatus
  <2> QED BY <1>4, <2>1, <2>3, <2>4 DEF KernelExit, IInv, TypeOK
<1>13. NoLostChild'
  <2> SUFFICES ASSUME NEW q \in Proc, status'[q] = "alive", pc'[q] = "wait"
               PROVE  q \in waiting' <=> dChildren'[q] = <<>>
    BY DEF NoLostChild
  <2>1. q # p /\ status[q] = "alive" /\ pc[q] = "wait"
    BY <1>1, <1>4
  <2>2. q \in waiting <=> dChildren[q] = <<>>
    BY <2>1 DEF IInv, NoLostChild
  <2>3. CASE par = NoProc \/ q # par
    <3>1. dChildren'[q] = dChildren[q]
      BY <1>8, <2>1, <2>3 DEF IInv, TypeOK
    <3>2. q \in waiting' <=> q \in waiting
      BY <1>8, <1>9, <2>3, CheckWaitUnblocks DEF IInv
    <3> QED BY <2>2, <3>1, <3>2
  <2>4. CASE par # NoProc /\ q = par
    <3>1. dChildren'[q] = Append(dChildren[q], p)
      BY <1>8, <2>1, <2>4 DEF IInv, TypeOK
    <3>2. dChildren'[q] # <<>>
      <4>1. dChildren[q] \in Seq(Proc)
        BY DEF IInv, TypeOK
      <4> QED BY <3>1, <4>1, AppendProperties
    <3>3. q \notin waiting'
      BY <1>8, <1>9, <2>4, CheckWaitUnblocks DEF IInv
    <3> QED BY <3>2, <3>3
  <2> QED BY <2>3, <2>4
<1> QED BY <1>5, <1>10, <1>11, <1>12, <1>13 DEF IInv, OnePlace

(***************************************************************************)
(* Both passes of KernelWait through its loop.                             *)
(***************************************************************************)
LEMMA WaitIInv ==
  ASSUME IInv, NEW p \in Proc, running = p, WaitLoop(p),
         UNCHANGED <<delayed, parent, aChildren, halted>>
  PROVE  IInv'
<1>1. /\ status[p] = "alive" /\ Runnable = Range(ready) \cup {p}
      /\ p \notin Range(ready) /\ p \notin waiting /\ p \notin Range(delayed)
  BY RunningIsAlive DEF IInv, OnePlace
<1>2. TypeOK'
  BY WaitType DEF IInv
<1>3. CASE dChildren[p] # <<>>
  <2> DEFINE dead == orphans \cup {Head(dChildren[p])}
  <2>1. /\ Head(dChildren[p]) \in Range(dChildren[p])
        /\ IsInjective(Tail(dChildren[p]))
        /\ Range(Tail(dChildren[p])) = Range(dChildren[p]) \ {Head(dChildren[p])}
    <3>1. dChildren[p] \in Seq(Proc) /\ IsInjective(dChildren[p])
      BY DEF IInv, TypeOK, OnePlace, DeadOnce
    <3> QED BY <1>3, <3>1, DequeueOnce
  <2>2. dead \subseteq WithStatus("defunct")
    BY <2>1 DEF IInv, OnePlace, DeadOnce
  <2>3. \A q \in Proc : status'[q] = IF q \in dead THEN "free" ELSE status[q]
    BY <1>3 DEF WaitLoop, Destroyed
  <2>4. /\ dChildren'[p] = Tail(dChildren[p]) /\ orphans' = {}
        /\ \A q \in Proc \ {p} : dChildren'[q] = dChildren[q]
        /\ pc'[p] = "user" /\ \A q \in Proc \ {p} : pc'[q] = pc[q]
        /\ UNCHANGED <<running, ready, waiting>>
    BY <1>3 DEF WaitLoop, IInv, TypeOK
  <2> HIDE DEF dead
  <2>5. /\ WithStatus("alive")' = WithStatus("alive")
        /\ WithStatus("defunct")' = WithStatus("defunct") \ dead
    BY <2>2, <2>3 DEF WithStatus
  <2>6. LiveOnce'
    BY <2>4, <2>5 DEF LiveOnce, RunnableOnce, Runnable, IInv, OnePlace
  <2>7. DeadOnce'
    <3>1. ASSUME NEW q \in Proc
          PROVE  /\ IsInjective(dChildren'[q])
                 /\ Range(dChildren'[q]) \subseteq Range(dChildren[q]) \ dead
      <4>1. CASE q = p
        BY <2>1, <2>4, <4>1 DEF IInv, OnePlace, DeadOnce, dead
      <4>2. CASE q # p
        BY <2>1, <2>4, <4>2 DEF IInv, OnePlace, DeadOnce, dead
      <4> QED BY <4>1, <4>2
    <3>2. \A q, r \in Proc : q # r => Range(dChildren'[q]) \cap Range(dChildren'[r]) = {}
      BY <3>1 DEF IInv, OnePlace, DeadOnce
    <3>3. \A q \in Proc : Range(dChildren'[q]) \subseteq WithStatus("defunct")'
      BY <2>5, <3>1 DEF IInv, OnePlace, DeadOnce
    <3> QED BY <2>4, <3>1, <3>2, <3>3 DEF DeadOnce
  <2>8. ParentIsAlive'
    <3> SUFFICES ASSUME NEW q \in Proc, status'[q] # "free", parent[q] # NoProc
                 PROVE  status'[parent[q]] = "alive" /\ q \in aChildren[parent[q]]
      BY DEF ParentIsAlive
    <3>1. /\ status[parent[q]] = "alive" /\ q \in aChildren[parent[q]]
          /\ parent[q] \in Proc
      BY <2>3 DEF IInv, TypeOK, ParentIsAlive
    <3> QED BY <2>2, <2>3, <3>1 DEF WithStatus
  <2>9. NoLostChild'
    BY <2>2, <2>3, <2>4 DEF NoLostChild, IInv
  <2> QED BY <1>2, <2>6, <2>7, <2>8, <2>9 DEF IInv, OnePlace
<1>4. CASE dChildren[p] = <<>>
  <2>1. /\ waiting' = waiting \cup {p} /\ pc' = [pc EXCEPT ![p] = "wait"]
        /\ RunNextReady(ready) /\ UNCHANGED <<orphans, status, code, dChildren>>
    BY <1>4 DEF WaitLoop
  <2>2. RunnableOnce' /\ Runnable' = Range(ready)
    BY <2>1, RunNextReadyOnce DEF IInv, TypeOK, OnePlace, LiveOnce, RunnableOnce
  <2>3. LiveOnce'
    BY <1>1, <2>1, <2>2 DEF LiveOnce, WithStatus, IInv, OnePlace
  <2>4. DeadOnce'
    BY <2>1 DEF DeadOnce, WithStatus, IInv, OnePlace
  <2>5. ParentIsAlive'
    BY <2>1 DEF ParentIsAlive, IInv
  <2>6. NoLostChild'
    BY <1>4, <2>1 DEF NoLostChild, IInv, TypeOK
  <2> QED BY <1>2, <2>3, <2>4, <2>5, <2>6 DEF IInv, OnePlace
<1> QED BY <1>3, <1>4

LEMMA DelayIInv ==
  ASSUME IInv, NEW p \in Proc, NEW ticks \in 1..MaxDelay, KernelDelay(p, ticks)
  PROVE  IInv'
<1>1. /\ running = p
      /\ delayed' = Append(delayed, p) /\ pc' = [pc EXCEPT ![p] = "delay"]
      /\ RunNextReady(ready)
      /\ UNCHANGED <<waiting, orphans, status, parent, aChildren, dChildren>>
  BY DEF KernelDelay, InUser
<1>2. /\ status[p] = "alive" /\ Runnable = Range(ready) \cup {p}
      /\ p \notin Range(ready) /\ p \notin waiting /\ p \notin Range(delayed)
  BY <1>1, RunningIsAlive DEF IInv, OnePlace
<1>3. RunnableOnce' /\ Runnable' = Range(ready)
  BY <1>1, RunNextReadyOnce DEF IInv, TypeOK, OnePlace, LiveOnce, RunnableOnce
<1>4. IsInjective(delayed') /\ Range(delayed') = Range(delayed) \cup {p}
  BY <1>1, <1>2, AppendOnce DEF IInv, TypeOK, OnePlace, LiveOnce
<1>5. LiveOnce'
  BY <1>1, <1>2, <1>3, <1>4 DEF LiveOnce, WithStatus, IInv, OnePlace
<1>6. DeadOnce'
  BY <1>1 DEF DeadOnce, WithStatus, IInv, OnePlace
<1>7. ParentIsAlive'
  BY <1>1 DEF ParentIsAlive, IInv
<1>8. NoLostChild'
  BY <1>1 DEF NoLostChild, IInv, TypeOK
<1>9. TypeOK'
  BY DelayType DEF IInv
<1> QED BY <1>5, <1>6, <1>7, <1>8, <1>9 DEF IInv, OnePlace

LEMMA ClockIInv ==
  ASSUME IInv, TrapClock
  PROVE  IInv'
<1>1. UNCHANGED <<pc, waiting, orphans, status, parent, aChildren, dChildren>>
  BY DEF TrapClock
<1>2. /\ running \in Proc \cup {Idle} /\ ready \in Seq(Proc) /\ IsInjective(ready)
      /\ running \notin Range(ready)
  BY DEF IInv, TypeOK, OnePlace, LiveOnce, RunnableOnce
<1>3. LiveOnce'
  <2>1. CASE RRPreempt(ready) /\ UNCHANGED delayed
    <3>1. RunnableOnce' /\ Runnable' = Range(ready) \cup ({running} \ {Idle})
      BY <1>2, <2>1, RRPreemptOnce
    <3>2. Runnable' = Runnable
      BY <3>1 DEF Runnable
    <3> QED BY <1>1, <2>1, <3>1, <3>2 DEF LiveOnce, WithStatus, IInv, OnePlace
  <2>2. ASSUME NEW i \in Due, delayed' = RemoveAt(delayed, i),
               RRPreempt(Append(ready, delayed[i]))
        PROVE  LiveOnce'
    <3>1. i \in 1..Len(delayed) /\ delayed[i] \in Proc
      BY LenProperties, ElementOfSeq DEF Due, IInv, TypeOK
    <3>2. /\ delayed[i] \in Range(delayed) /\ IsInjective(delayed')
          /\ Range(delayed') = Range(delayed) \ {delayed[i]}
      BY <2>2, <3>1, RemoveOnce DEF IInv, TypeOK, OnePlace, LiveOnce
    <3>3. delayed[i] \notin Runnable /\ delayed[i] # Idle
      BY <3>1, <3>2, IdleAssumption DEF IInv, OnePlace, LiveOnce
    <3>4. delayed[i] \notin Range(ready) /\ delayed[i] # running
      BY <3>3 DEF Runnable
    <3>5. /\ Append(ready, delayed[i]) \in Seq(Proc)
          /\ IsInjective(Append(ready, delayed[i]))
          /\ Range(Append(ready, delayed[i])) = Range(ready) \cup {delayed[i]}
      BY <1>2, <3>1, <3>4, AppendOnce
    <3>6. /\ RunnableOnce'
          /\ Runnable' = Range(ready) \cup {delayed[i]} \cup ({running} \ {Idle})
      BY <1>2, <2>2, <3>4, <3>5, RRPreemptOnce
    <3>7. Runnable' = Runnable \cup {delayed[i]}
      BY <3>6 DEF Runnable
    <3> QED BY <1>1, <3>2, <3>3, <3>6, <3>7 DEF LiveOnce, WithStatus, IInv, OnePlace
  <2> QED BY <2>1, <2>2 DEF TrapClock
<1>4. DeadOnce'
  BY <1>1 DEF DeadOnce, WithStatus, IInv, OnePlace
<1>5. ParentIsAlive'
  BY <1>1 DEF ParentIsAlive, IInv
<1>6. NoLostChild'
  BY <1>1 DEF NoLostChild, IInv
<1>7. TypeOK'
  BY ClockType DEF IInv
<1> QED BY <1>3, <1>4, <1>5, <1>6, <1>7 DEF IInv, OnePlace

LEMMA NextIInv == IInv /\ [Next]_vars => IInv'
<1> SUFFICES ASSUME IInv, [Next]_vars PROVE IInv'
  OBVIOUS
<1>0. TypeOK'
  BY NextTypeOK DEF IInv
<1>1. CASE HaltMachine \/ UNCHANGED vars
  <2>1. UNCHANGED <<schedVars, listVars, pcbVars>>
    BY <1>1 DEF HaltMachine, vars
  <2>2. OnePlace'
    BY <2>1, SameLists DEF IInv, schedVars, pcbVars
  <2>3. ParentIsAlive' /\ NoLostChild'
    BY <2>1 DEF IInv, ParentIsAlive, NoLostChild, schedVars, listVars, pcbVars
  <2> QED BY <1>0, <2>2, <2>3 DEF IInv
<1>2. CASE TrapClock
  BY <1>2, ClockIInv
<1>3. ASSUME NEW p \in Proc, ProcStep(p) PROVE IInv'
  <2>1. CASE KernelFork(p)
    BY <2>1, ForkIInv
  <2>2. ASSUME NEW rc \in Status, KernelExit(p, rc) PROVE IInv'
    BY <2>2, ExitIInv
  <2>3. CASE KernelWait(p) \/ ResumeWait(p)
    BY <2>3, WaitIInv DEF KernelWait, ResumeWait, InUser
  <2>4. ASSUME NEW ticks \in 1..MaxDelay, KernelDelay(p, ticks) PROVE IInv'
    BY <2>4, DelayIInv
  <2>5. CASE ResumeDelay(p)
    <3>1. /\ pc' = [pc EXCEPT ![p] = "user"]
          /\ UNCHANGED <<running, ready, listVars, pcbVars>>
      BY <2>5 DEF ResumeDelay
    <3>2. OnePlace'
      BY <3>1, SameLists DEF IInv, pcbVars
    <3>3. ParentIsAlive' /\ NoLostChild'
      BY <3>1 DEF IInv, TypeOK, ParentIsAlive, NoLostChild, listVars, pcbVars
    <3> QED BY <1>0, <3>2, <3>3 DEF IInv
  <2> QED BY <1>3, <2>1, <2>2, <2>3, <2>4, <2>5 DEF ProcStep
<1> QED BY <1>1, <1>2, <1>3 DEF Next

LEMMA Invariance == Spec => []IInv
<1> QED BY InitIInv, NextIInv, PTL DEF Spec

(***************************************************************************)
(* enqueue, dequeue, remove and the scheduling functions built from them   *)
(* lose no live process and link none twice; the orphans and d_children    *)
(* lists hold defunct processes only, each in one list.                    *)
(***************************************************************************)
THEOREM EveryProcessInOnePlace == Spec => []OnePlace
<1>1. IInv => OnePlace
  BY DEF IInv
<1> QED BY <1>1, Invariance, PTL

(***************************************************************************)
(* graveyard never follows a dangling pcb->parent, although a_children     *)
(* keeps the names of processes that are gone and memory is reused.        *)
(***************************************************************************)
THEOREM ParentsAreAlive == Spec => []ParentIsAlive
<1>1. IInv => ParentIsAlive
  BY DEF IInv
<1> QED BY <1>1, Invariance, PTL

(***************************************************************************)
(* KernelWait loses no wake-up: who is blocked in it has no defunct child. *)
(***************************************************************************)
THEOREM WaitLosesNoChild == Spec => []NoLostChild
<1>1. IInv => NoLostChild
  BY DEF IInv
<1> QED BY <1>1, Invariance, PTL

(***************************************************************************)
(* Only the loops of process_terminate, reap_orphans and KernelWait free   *)
(* memory, and each takes it from a list of defunct processes.             *)
(***************************************************************************)
LEMMA FreedWasDefunct ==
  ASSUME IInv, [Next]_vars, NEW q \in Proc, status[q] # "free", status'[q] = "free"
  PROVE  status[q] = "defunct"
<1>1. status' # status
  OBVIOUS
<1>2. ~TrapClock /\ ~HaltMachine /\ ~UNCHANGED vars
  BY <1>1 DEF TrapClock, HaltMachine, vars, pcbVars
<1>3. PICK p \in Proc : ProcStep(p)
  BY <1>2 DEF Next
<1>4. CASE KernelFork(p)
  BY <1>4 DEF KernelFork, IInv, TypeOK
<1>5. ASSUME NEW rc \in Status, KernelExit(p, rc) PROVE status[q] = "defunct"
  <2>1. q \in orphans \cup DestroyedDefunct(p)
    BY <1>5 DEF KernelExit, Destroyed, IInv, TypeOK
  <2> QED BY <2>1, DestroyedIsDefunct DEF IInv, OnePlace, DeadOnce, WithStatus
<1>6. CASE WaitLoop(p)
  <2>1. dChildren[p] # <<>> /\ q \in orphans \cup {Head(dChildren[p])}
    BY <1>1, <1>6 DEF WaitLoop, Destroyed
  <2>2. dChildren[p] \in Seq(Proc) /\ IsInjective(dChildren[p])
    BY DEF IInv, TypeOK, OnePlace, DeadOnce
  <2>3. Head(dChildren[p]) \in Range(dChildren[p])
    BY <2>1, <2>2, DequeueOnce
  <2> QED BY <2>1, <2>3 DEF IInv, OnePlace, DeadOnce, WithStatus
<1>7. CASE ResumeDelay(p)
  BY <1>1, <1>7 DEF ResumeDelay, pcbVars
<1>8. ASSUME NEW ticks \in 1..MaxDelay PROVE ~KernelDelay(p, ticks)
  BY <1>1 DEF KernelDelay
<1> QED BY <1>3, <1>4, <1>5, <1>6, <1>7, <1>8 DEF ProcStep, KernelWait, ResumeWait

(***************************************************************************)
(* process_destroy frees the memory of terminated processes only, and      *)
(* never the stack that the processor is on.                               *)
(***************************************************************************)
THEOREM FreesOnlyTheDead == Spec => OnlyTheDeadAreFreed
<1>1. IInv /\ IInv' /\ [Next]_vars => [FreedOffProcessor]_vars
  <2> SUFFICES ASSUME IInv, IInv', [Next]_vars, NEW p \in Proc,
                      status[p] # "free", status'[p] = "free"
               PROVE  status[p] = "defunct" /\ p \notin {running, running'}
    BY DEF FreedOffProcessor
  <2>1. status[p] = "defunct"
    BY FreedWasDefunct
  <2>2. p # Idle
    BY IdleAssumption
  <2>3. p # running
    BY <2>1, RunningIsAlive DEF IInv, OnePlace
  <2>4. p # running'
    BY <2>2 DEF IInv, OnePlace, LiveOnce, Runnable, WithStatus
  <2> QED BY <2>1, <2>3, <2>4
<1> QED BY <1>1, Invariance, PTL DEF Spec, OnlyTheDeadAreFreed

(***************************************************************************)
(* What the walk of check_delay does to the count of a sleeper: it takes   *)
(* one off if it comes as far as this node.                                *)
(***************************************************************************)
LEMMA WalkTakesOne ==
  ASSUME IInv, NEW n \in 0..Len(delayed), code' = CodesAfterWalk(n),
         NEW i \in 1..Len(delayed)
  PROVE  /\ code[delayed[i]] \in Int
         /\ code'[delayed[i]] = IF i <= n THEN code[delayed[i]] - 1
                                          ELSE code[delayed[i]]
<1>1. /\ delayed[i] \in Proc /\ code \in [Proc -> Int]
      /\ DOMAIN delayed = 1..Len(delayed) /\ Len(delayed) \in Nat
  BY LenProperties, ElementOfSeq DEF IInv, TypeOK
<1>2. \A j \in 1..Len(delayed) : delayed[j] = delayed[i] => j = i
  BY <1>1 DEF IInv, OnePlace, LiveOnce, IsInjective
<1>3. (\E j \in 1..n : delayed[j] = delayed[i]) <=> i <= n
  BY <1>1, <1>2
<1>4. code'[delayed[i]] = IF \E j \in 1..n : delayed[j] = delayed[i]
                          THEN code[delayed[i]] - 1 ELSE code[delayed[i]]
  BY <1>1 DEF CodesAfterWalk
<1> QED BY <1>1, <1>3, <1>4

(***************************************************************************)
(* A tick that passes a sleeper over because it wakes another one moves it *)
(* up by one place, and a tick that reaches it takes one off its count: no *)
(* Delay is postponed for ever.                                            *)
(***************************************************************************)
THEOREM DelaysAreBounded == Spec => DelayIsBounded
<1>1. IInv /\ [Next]_vars => [TickBringsNearer]_vars
  <2> SUFFICES ASSUME IInv, TrapClock,
                      NEW i \in DOMAIN delayed, NEW j \in DOMAIN delayed',
                      delayed[i] = delayed'[j]
               PROVE  Lateness(delayed', code', j) = Lateness(delayed, code, i) - 1
    BY DEF TickBringsNearer
  <2>1. /\ delayed \in Seq(Proc) /\ DOMAIN delayed = 1..Len(delayed) /\ Len(delayed) \in Nat
        /\ \A m, n \in 1..Len(delayed) : delayed[m] = delayed[n] => m = n
    BY LenProperties DEF IInv, TypeOK, OnePlace, LiveOnce, IsInjective
  <2>2. CASE code' = CodesAfterWalk(Len(delayed)) /\ UNCHANGED delayed
    <3>1. i = j
      BY <2>1, <2>2
    <3>2. /\ code[delayed[i]] \in Int
          /\ code'[delayed[i]] = code[delayed[i]] - 1
      BY <2>1, <2>2, WalkTakesOne
    <3> QED BY <2>1, <2>2, <3>1, <3>2 DEF Lateness
  <2>3. ASSUME NEW k \in Due, code' = CodesAfterWalk(k), delayed' = RemoveAt(delayed, k)
        PROVE  Lateness(delayed', code', j) = Lateness(delayed, code, i) - 1
    <3>1. k \in 1..Len(delayed)
      BY <2>1 DEF Due
    <3>2. /\ delayed' \in Seq(Proc) /\ Len(delayed') = Len(delayed) - 1
          /\ \A m \in 1..(Len(delayed) - 1) :
               delayed'[m] = IF m < k THEN delayed[m] ELSE delayed[m + 1]
      BY <2>1, <2>3, <3>1, RemoveShifts
    <3>3. j \in 1..(Len(delayed) - 1)
      BY <3>2, LenProperties
    <3>4. /\ code[delayed[i]] \in Int
          /\ code'[delayed[i]] = IF i <= k THEN code[delayed[i]] - 1
                                           ELSE code[delayed[i]]
      BY <2>1, <2>3, <3>1, WalkTakesOne
    <3>5. IF j < k THEN i = j ELSE i = j + 1
      BY <2>1, <3>1, <3>2, <3>3
    <3>6. /\ Lateness(delayed', code', j) = code'[delayed[i]] + j
          /\ Lateness(delayed, code, i) = code[delayed[i]] + i
      BY DEF Lateness
    <3> QED BY <2>1, <3>1, <3>3, <3>4, <3>5, <3>6
  <2> QED BY <2>2, <2>3 DEF TrapClock
<1> QED BY <1>1, Invariance, PTL DEF Spec, DelayIsBounded

=============================================================================
