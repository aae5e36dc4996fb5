--------------------------- MODULE LockCvarProofs ---------------------------
(***************************************************************************)
(* Proofs about locks and condition variables: no process is lost or sits  *)
(* on two lists, the counters that guard destroy_lock are exact, no lock   *)
(* is freed under a process that will touch it, and no wake-up is lost --  *)
(* for every number of processes and of objects.                           *)
(***************************************************************************)
EXTENDS LockCvar, SchedulingProofs

(***************************************************************************)
(* Who waits on a lock is inside acquire of that lock; who sleeps in       *)
(* wait_cvar is on no lock's list.                                         *)
(***************************************************************************)
WaitsWhereItSays ==
  \A i \in Id : \A p \in Range(blocked[i]) :
    \/ pc[p] = "cvwait" /\ kind[i] # "lock"
    \/ pc[p] \in {"acquire", "reacquire"} /\ want[p] = i

(***************************************************************************)
(* Identifiers not handed out yet name nothing.                            *)
(***************************************************************************)
FreshIds ==
  \A i \in Id : i >= count => kind[i] = "none" /\ blocked[i] = <<>> /\ owner[i] = NoOne

(***************************************************************************)
(* The inductive invariant.                                                *)
(***************************************************************************)
IInv ==
  /\ OnePlace
  /\ WaitsWhereItSays
  /\ FreshIds
  /\ CountersAreExact
  /\ NoUseAfterDestroy
  /\ NoLostWakeup

(***************************************************************************)
(* Where everybody is.                                                     *)
(***************************************************************************)
LEMMA Places ==
  ASSUME IInv
  PROVE  /\ TypeOK /\ gone \subseteq Proc
         /\ RunnableOnce /\ IsInjective(ready)
         /\ Separate(blocked, Runnable)
         /\ Runnable \cup Queued(blocked) = Proc \ gone
         /\ \A i \in Id : Range(blocked[i]) \subseteq Proc \ Runnable
<1>1. TypeOK /\ QueuedOnce(blocked) /\ Runnable \cup Queued(blocked) = Proc \ gone
  BY DEF IInv, OnePlace
<1>2. RunnableOnce /\ Separate(blocked, Runnable)
  BY <1>1, QueuedOnceIsSeparate
<1>3. gone \subseteq Proc
  BY <1>1, LockCvarAssumption DEF TypeOK
<1>4. \A i \in Id : Range(blocked[i]) \subseteq Proc \ Runnable
  <2>1. \A i \in Id : Range(blocked[i]) \subseteq Proc
    BY <1>1, RangeOfSeq DEF TypeOK
  <2>2. DOMAIN blocked = Id
    BY <1>1 DEF TypeOK
  <2> QED BY <1>2, <2>1, <2>2 DEF Separate
<1> QED BY <1>1, <1>2, <1>3, <1>4 DEF RunnableOnce

(***************************************************************************)
(* The running process is on no waiting list.                              *)
(***************************************************************************)
LEMMA RunningIsRunnable ==
  ASSUME NEW p \in Proc, running = p
  PROVE  p \in Runnable
BY IdleAssumption DEF Runnable

(***************************************************************************)
(* OnePlace of the next state, from what the lemmas of SchedulingProofs    *)
(* say of a step.                                                          *)
(***************************************************************************)
LEMMA OnePlaceAgain ==
  ASSUME TypeOK', RunnableOnce', Separate(blocked', Runnable'),
         Runnable' \cup Queued(blocked') = Proc \ gone'
  PROVE  OnePlace'
BY DEF OnePlace, QueuedOnce, Separate, Queued

-----------------------------------------------------------------------------
LEMMA InitIInv == Init => IInv
<1> SUFFICES ASSUME Init PROVE IInv
  OBVIOUS
<1>1. /\ running \in Proc /\ ready \in Seq(Proc) /\ pc = [p \in Proc |-> "user"]
      /\ RunnableOnce /\ Runnable = Proc
  BY SchedInitOnce DEF Init
<1>2. 0 \in Id /\ MaxId \in Nat
  BY LockCvarAssumption DEF Id
<1>3. TypeOK
  BY <1>1, <1>2, EmptySeq DEF Init, TypeOK, SchedTypeOK
<1>4. \A i \in Id : blocked[i] = <<>> /\ Range(blocked[i]) = {}
  BY ShortOnce DEF Init
<1>5. Queued(blocked) = {}
  BY <1>4 DEF Queued, Init
<1>6. OnePlace
  <2>1. Separate(blocked, Runnable)
    BY <1>4, ShortOnce DEF Separate, Init
  <2>2. QueuedOnce(blocked)
    BY <1>1, <2>1, QueuedOnceIsSeparate
  <2> QED BY <1>1, <1>3, <1>5, <2>2 DEF OnePlace, Init
<1>7. WaitsWhereItSays
  BY <1>4 DEF WaitsWhereItSays
<1>8. FreshIds
  BY <1>4 DEF FreshIds, Init
<1>9. CountersAreExact
  <2>1. \A l \in Id : Limbo(l) = {} /\ CvarWaiters(l) = {}
    BY <1>1 DEF Limbo, CvarWaiters
  <2>2. Cardinality({}) = 0
    BY FS_EmptySet
  <2> QED BY <2>1, <2>2 DEF CountersAreExact, Init
<1>10. NoUseAfterDestroy /\ NoLostWakeup
  BY <1>1, <1>4 DEF NoUseAfterDestroy, NoLostWakeup
<1> QED BY <1>6, <1>7, <1>8, <1>9, <1>10 DEF IInv

(***************************************************************************)
(* What depends on nothing but the objects and the calls in progress.      *)
(***************************************************************************)
LEMMA SameObjects ==
  ASSUME IInv, OnePlace', UNCHANGED <<objVars, pc, want>>
  PROVE  IInv'
<1>1. \A l \in Id : Limbo(l)' = Limbo(l) /\ CvarWaiters(l)' = CvarWaiters(l)
  BY DEF Limbo, Listed, CvarWaiters, objVars
<1>2. CountersAreExact' /\ NoLostWakeup'
  BY <1>1 DEF IInv, CountersAreExact, NoLostWakeup, objVars
<1>3. WaitsWhereItSays' /\ FreshIds' /\ NoUseAfterDestroy'
  BY DEF IInv, WaitsWhereItSays, FreshIds, NoUseAfterDestroy, objVars
<1> QED BY <1>2, <1>3 DEF IInv

(***************************************************************************)
(* The dispatcher, and the ends and beginnings of processes.               *)
(***************************************************************************)
LEMMA ClockStep == IInv /\ TrapClock => IInv'
<1> SUFFICES ASSUME IInv, TrapClock PROVE IInv'
  OBVIOUS
<1>1. RRPreempt(ready) /\ UNCHANGED <<pc, objVars, want, gone>>
  BY DEF TrapClock, ClockTick
<1>2. /\ running \in Proc \cup {Idle} /\ ready \in Seq(Proc)
      /\ running \notin Range(ready)
  BY Places DEF TypeOK, SchedTypeOK, RunnableOnce
<1>3. /\ running' \in Proc \cup {Idle} /\ ready' \in Seq(Proc)
      /\ RunnableOnce' /\ Runnable' = Range(ready) \cup ({running} \ {Idle})
  BY <1>1, <1>2, Places, RRPreemptOnce
<1>4. Runnable' = Runnable
  BY <1>3 DEF Runnable
<1>5. TypeOK'
  BY <1>1, <1>3, Places DEF TypeOK, SchedTypeOK, objVars
<1>6. OnePlace'
  BY <1>1, <1>3, <1>4, <1>5, Places, OnePlaceAgain DEF objVars
<1> QED BY <1>1, <1>6, SameObjects

LEMMA ExitStep ==
  ASSUME IInv, NEW p \in Proc, KernelExit(p)
  PROVE  IInv'
<1>1. /\ running = p /\ p \in Mortal /\ gone' = gone \cup {p}
      /\ RunNextReady(ready) /\ UNCHANGED <<pc, objVars, want>>
  BY DEF KernelExit, InUser
<1>2. /\ ready \in Seq(Proc) /\ IsInjective(ready)
      /\ Runnable = Range(ready) \cup {p} /\ p \notin Range(ready)
  BY <1>1, Places, IdleAssumption DEF TypeOK, SchedTypeOK, Runnable, RunnableOnce
<1>3. Separate(blocked, Range(ready))
  BY <1>2, Places DEF Separate
<1>4. /\ running' \in Proc \cup {Idle} /\ ready' \in Seq(Proc)
      /\ RunnableOnce' /\ Runnable' = Range(ready) /\ Separate(blocked, Runnable')
  BY <1>1, <1>2, <1>3, DispatchSeparate
<1>5. TypeOK'
  BY <1>1, <1>4, Places DEF TypeOK, SchedTypeOK, objVars
<1>6. p \notin Queued(blocked)
  <2>1. DOMAIN blocked = Id
    BY Places DEF TypeOK
  <2> QED BY <1>2, <2>1, Places DEF Queued
<1>7. Runnable' \cup Queued(blocked') = Proc \ gone'
  <2>1. blocked' = blocked
    BY <1>1 DEF objVars
  <2> QED BY <1>1, <1>2, <1>4, <1>6, <2>1, Places
<1>8. OnePlace'
  BY <1>1, <1>4, <1>5, <1>7, OnePlaceAgain DEF objVars
<1> QED BY <1>1, <1>8, SameObjects

LEMMA ForkStep ==
  ASSUME IInv, NEW p \in Proc, KernelFork(p)
  PROVE  IInv'
<1>1. PICK c \in gone : /\ running = p /\ pc[p] = "user"
                        /\ gone' = gone \ {c} /\ ReturnWith(p, Append(ready, c))
                        /\ UNCHANGED <<objVars, want>>
  BY DEF KernelFork, InUser
<1>2. c \in Proc /\ c \notin Runnable \cup Queued(blocked)
  BY <1>1, Places
<1>3. pc' = pc /\ running' = running /\ ready' = Append(ready, c)
  BY <1>1, Places DEF ReturnWith, TypeOK, SchedTypeOK
<1>4. /\ ready' \in Seq(Proc) /\ IsInjective(ready')
      /\ Range(ready') = Range(ready) \cup {c}
  <2>1. c \notin Range(ready) /\ ready \in Seq(Proc)
    BY <1>2, Places DEF Runnable, TypeOK, SchedTypeOK
  <2> QED BY <1>2, <1>3, <2>1, Places, AppendOnce
<1>5. Runnable' = Runnable \cup {c}
  BY <1>3, <1>4 DEF Runnable
<1>6. RunnableOnce'
  BY <1>1, <1>2, <1>3, <1>4, Places, RunningIsRunnable DEF RunnableOnce
<1>7. Separate(blocked, Runnable')
  <2>1. DOMAIN blocked = Id
    BY Places DEF TypeOK
  <2>2. \A i \in Id : c \notin Range(blocked[i])
    BY <1>2, <2>1 DEF Queued
  <2> QED BY <1>5, <2>1, <2>2, Places DEF Separate
<1>8. TypeOK'
  BY <1>1, <1>3, <1>4, Places DEF TypeOK, SchedTypeOK, objVars
<1>9. Runnable' \cup Queued(blocked) = Proc \ gone'
  BY <1>1, <1>2, <1>5, Places
<1>10. OnePlace'
  BY <1>1, <1>6, <1>7, <1>8, <1>9, OnePlaceAgain DEF objVars
<1> QED BY <1>1, <1>3, <1>10, SameObjects

-----------------------------------------------------------------------------
(***************************************************************************)
(* The process that runs is on no list, and the processes that want a lock *)
(* are inside a call.                                                      *)
(***************************************************************************)
LEMMA RunnerIsUnlisted ==
  ASSUME IInv, NEW p \in Proc, running = p
  PROVE  /\ \A i \in Id : p \notin Range(blocked[i])
         /\ Runnable = Range(ready) \cup {p} /\ p \notin Range(ready)
         /\ \A i \in Id : blocked[i] \in Seq(Proc)
BY Places, RunningIsRunnable, IdleAssumption DEF Runnable, RunnableOnce, TypeOK

(***************************************************************************)
(* The counters count finite sets of processes.                            *)
(***************************************************************************)
LEMMA Counted ==
  ASSUME IInv
  PROVE  \A l \in Id : /\ Limbo(l) \in SUBSET Proc /\ CvarWaiters(l) \in SUBSET Proc
                       /\ unfulfilled[l] = Cardinality(Limbo(l))
                       /\ cvar[l] = Cardinality(CvarWaiters(l))
BY DEF IInv, CountersAreExact, Limbo, CvarWaiters

(***************************************************************************)
(* The state is well-typed again when the counters are exact again.        *)
(***************************************************************************)
LEMMA TypeAgain ==
  ASSUME SchedTypeOK({"user", "acquire", "cvwait", "reacquire"})',
         count' \in 0..MaxId,
         kind' \in [Id -> {"none", "lock", "cvar", "gone"}],
         owner' \in [Id -> Proc \cup {NoOne}],
         blocked' \in [Id -> Seq(Proc)],
         unfulfilled' = [l \in Id |-> Cardinality(Limbo(l)')],
         cvar' = [l \in Id |-> Cardinality(CvarWaiters(l)')],
         want' \in [Proc -> Id],
         gone' \subseteq Mortal
  PROVE  TypeOK' /\ CountersAreExact'
<1>1. \A l \in Id : Limbo(l)' \in SUBSET Proc /\ CvarWaiters(l)' \in SUBSET Proc
  BY DEF Limbo, CvarWaiters
<1>2. \A l \in Id : Cardinality(Limbo(l)') \in Nat /\ Cardinality(CvarWaiters(l)') \in Nat
  BY <1>1, CountOfProcs
<1>3. unfulfilled' \in [Id -> Nat] /\ cvar' \in [Id -> Nat]
  BY <1>2
<1> QED BY <1>3 DEF TypeOK, CountersAreExact

(***************************************************************************)
(* KernelLockInit and KernelCvarInit: nobody knows the new identifier.     *)
(***************************************************************************)
LEMMA InitObjectStep ==
  ASSUME IInv, NEW p \in Proc, KernelLockInit(p) \/ KernelCvarInit(p)
  PROVE  IInv' /\ UNCHANGED <<owner, blocked, pc, want>>
<1> DEFINE n == count
<1>1. /\ n < MaxId /\ count' = n + 1 /\ UNCHANGED <<schedVars, want, gone>>
      /\ new_lock(n) \/ new_cvar(n)
  BY DEF KernelLockInit, KernelCvarInit, new_id
<1>2. n \in Id /\ count' \in 0..MaxId /\ MaxId \in Nat /\ n \in Nat
  <2>1. MaxId \in Nat /\ n \in 0..MaxId
    BY Places, LockCvarAssumption DEF TypeOK
  <2> HIDE DEF n
  <2> QED BY <1>1, <2>1 DEF Id
<1>3. kind[n] = "none" /\ blocked[n] = <<>> /\ owner[n] = NoOne
  BY <1>2 DEF IInv, FreshIds
<1>4. Limbo(n) = {} /\ CvarWaiters(n) = {}
  BY <1>2, <1>3 DEF IInv, NoUseAfterDestroy, Limbo, CvarWaiters
<1>5. unfulfilled[n] = 0 /\ cvar[n] = 0
  BY <1>2, <1>4, FS_EmptySet DEF IInv, CountersAreExact
<1> HIDE DEF n
<1>6. PICK k \in {"lock", "cvar"} : kind' = [kind EXCEPT ![n] = k]
  BY <1>1 DEF new_lock, new_cvar
<1>7. UNCHANGED <<owner, blocked, unfulfilled, cvar>>
  <2>1. CASE new_lock(n)
    <3>1. /\ owner' = [owner EXCEPT ![n] = NoOne] /\ blocked' = [blocked EXCEPT ![n] = <<>>]
          /\ unfulfilled' = [unfulfilled EXCEPT ![n] = 0] /\ cvar' = [cvar EXCEPT ![n] = 0]
      BY <2>1 DEF new_lock
    <3> QED BY <1>2, <1>3, <1>5, <3>1, Places DEF TypeOK
  <2>2. CASE new_cvar(n)
    <3>1. blocked' = [blocked EXCEPT ![n] = <<>>] /\ UNCHANGED <<owner, unfulfilled, cvar>>
      BY <2>2 DEF new_cvar
    <3> QED BY <1>2, <1>3, <3>1, Places DEF TypeOK
  <2> QED BY <1>1, <2>1, <2>2
<1>8. OnePlace'
  <2>1. TypeOK'
    BY <1>1, <1>2, <1>6, <1>7, Places DEF TypeOK, SchedTypeOK, schedVars
  <2>2. QueuedOnce(blocked)' /\ (Runnable \cup Queued(blocked) = Proc \ gone)'
    BY <1>1, <1>7 DEF IInv, OnePlace, QueuedOnce, RunnableOnce, Runnable, Queued, schedVars
  <2> QED BY <2>1, <2>2 DEF OnePlace
<1>9. \A l \in Id : Limbo(l)' = Limbo(l) /\ CvarWaiters(l)' = CvarWaiters(l)
  BY <1>1, <1>7 DEF Limbo, Listed, CvarWaiters, schedVars
<1>10. CountersAreExact'
  BY <1>7, <1>9 DEF IInv, CountersAreExact
<1>11. \A i \in Id : i # n => kind'[i] = kind[i]
  BY <1>6, Places DEF TypeOK
<1>12. WaitsWhereItSays'
  <2>1. Range(blocked[n]) = {}
    BY <1>3, ShortOnce
  <2> QED BY <1>1, <1>7, <1>11, <2>1 DEF IInv, WaitsWhereItSays, schedVars
<1>13. FreshIds'
  <2>1. \A i \in Id : i >= count' => i # n /\ i >= count
    BY <1>1, <1>2 DEF Id, n
  <2> QED BY <1>7, <1>11, <2>1 DEF IInv, FreshIds
<1>14. NoUseAfterDestroy'
  BY <1>1, <1>3, <1>11, Places DEF IInv, NoUseAfterDestroy, TypeOK, schedVars
<1>15. NoLostWakeup'
  BY <1>3, <1>7, <1>9, <1>11 DEF IInv, NoLostWakeup
<1> QED BY <1>1, <1>7, <1>8, <1>10, <1>12, <1>13, <1>14, <1>15 DEF IInv, schedVars

(***************************************************************************)
(* KernelReclaim: a lock that passes the test of destroy_lock is wanted by *)
(* nobody; a condition variable is no lock.                                *)
(***************************************************************************)
LEMMA ReclaimStep ==
  ASSUME IInv, NEW p \in Proc, NEW i \in Id, KernelReclaim(p, i)
  PROVE  IInv'
<1>1. /\ kind' = [kind EXCEPT ![i] = "gone"] /\ kind[i] \in {"lock", "cvar"}
      /\ UNCHANGED <<schedVars, count, owner, blocked, unfulfilled, cvar, want, gone>>
  BY DEF KernelReclaim, find_cvar, find_lock, destroy_cvar, destroy_lock
<1>2. \A q \in Proc : pc[q] # "user" => want[q] # i
  <2>1. CASE kind[i] = "cvar"
    BY <2>1 DEF IInv, NoUseAfterDestroy
  <2>2. CASE kind[i] = "lock"
    <3>1. unfulfilled[i] <= 0 /\ cvar[i] <= 0 /\ blocked[i] = <<>>
      BY <2>2 DEF KernelReclaim, find_cvar, destroy_lock, Destructible
    <3>2. unfulfilled[i] = 0 /\ cvar[i] = 0
      BY <3>1, Places DEF TypeOK
    <3>3. Limbo(i) = {} /\ CvarWaiters(i) = {}
      BY <3>2, Counted, CountOfProcs
    <3>4. Range(blocked[i]) = {}
      BY <3>1, ShortOnce
    <3> QED BY <3>3, <3>4, Places DEF Limbo, Listed, CvarWaiters, TypeOK, SchedTypeOK
  <2> QED BY <1>1, <2>1, <2>2
<1>3. OnePlace'
  <2>1. TypeOK'
    BY <1>1, Places DEF TypeOK, SchedTypeOK, schedVars
  <2>2. QueuedOnce(blocked)' /\ (Runnable \cup Queued(blocked) = Proc \ gone)'
    BY <1>1 DEF IInv, OnePlace, QueuedOnce, RunnableOnce, Runnable, Queued, schedVars
  <2> QED BY <2>1, <2>2 DEF OnePlace
<1>4. \A l \in Id : Limbo(l)' = Limbo(l) /\ CvarWaiters(l)' = CvarWaiters(l)
  BY <1>1 DEF Limbo, Listed, CvarWaiters, schedVars
<1>5. CountersAreExact'
  BY <1>1, <1>4 DEF IInv, CountersAreExact
<1>6. kind'[i] = "gone" /\ \A j \in Id : j # i => kind'[j] = kind[j]
  BY <1>1, Places DEF TypeOK
<1>7. WaitsWhereItSays'
  BY <1>1, <1>6 DEF IInv, WaitsWhereItSays, schedVars
<1>8. FreshIds'
  BY <1>1, <1>6 DEF IInv, FreshIds
<1>9. NoUseAfterDestroy'
  BY <1>1, <1>2, <1>6, Places DEF IInv, NoUseAfterDestroy, TypeOK, schedVars
<1>10. NoLostWakeup'
  BY <1>1, <1>4, <1>6 DEF IInv, NoLostWakeup
<1> QED BY <1>3, <1>5, <1>7, <1>8, <1>9, <1>10 DEF IInv

(***************************************************************************)
(* signal_cvar and broadcast: whoever is woken was asleep in wait_cvar, so *)
(* no counter changes.                                                     *)
(***************************************************************************)
LEMMA WakeSleepersStep ==
  ASSUME IInv, NEW p \in Proc, NEW c \in Id, NEW W, Taken(blocked, blocked', c, W),
         NEW rd \in Seq(Proc), IsInjective(rd), Range(rd) = Range(ready) \cup W,
         InUser(p), find_cvar(c), blocked' \in [Id -> Seq(Proc)],
         ReturnWith(p, rd),
         UNCHANGED <<count, kind, owner, unfulfilled, cvar, want, gone>>
  PROVE  IInv' /\ \A q \in W : pc[q] = "cvwait"
<1>1. /\ \A i \in Id : i # c => blocked'[i] = blocked[i]
      /\ Range(blocked'[c]) = Range(blocked[c]) \ W /\ W \subseteq Range(blocked[c])
  BY Places DEF TypeOK, ChangedAt, Taken
<1>2. running = p /\ pc[p] = "user" /\ pc' = pc /\ running' = running /\ ready' = rd
  BY Places DEF InUser, ReturnWith, TypeOK, SchedTypeOK
<1>3. W \subseteq Proc \ Runnable
  BY <1>1, Places
<1>4. RunnableOnce' /\ Runnable' = Runnable \cup W
  BY <1>2, <1>3, Places, WakeSeparate
<1>5. Separate(blocked', Runnable') /\ Queued(blocked') = Queued(blocked) \ W
      /\ W \subseteq Queued(blocked)
  <2>1. Separate(blocked, Runnable)
    BY Places
  <2>2. Runnable' \subseteq Runnable \cup W
    BY <1>4
  <2>3. Separate(blocked', Runnable')
    BY <2>1, <2>2, TakeSeparate
  <2>4. Queued(blocked') = Queued(blocked) \ W /\ W \subseteq Queued(blocked)
    BY <2>1, TakeQueued
  <2> QED BY <2>3, <2>4
<1>6. \A q \in W : pc[q] = "cvwait"
  <2> SUFFICES ASSUME NEW q \in W, pc[q] \in {"acquire", "reacquire"}, want[q] = c
               PROVE  FALSE
    BY <1>1 DEF IInv, WaitsWhereItSays
  <2> QED BY <1>3 DEF IInv, NoUseAfterDestroy, find_cvar
<1>7. \A l \in Id : Limbo(l)' = Limbo(l) /\ CvarWaiters(l)' = CvarWaiters(l)
  <2>1. \A q \in Proc, l \in Id :
          pc[q] \in {"acquire", "reacquire"} => (Listed(q, l)' <=> Listed(q, l))
    BY <1>1, <1>6 DEF Listed
  <2> QED BY <1>2, <2>1 DEF Limbo, CvarWaiters
<1>8. OnePlace'
  <2>1. TypeOK'
    BY <1>2, Places DEF TypeOK, SchedTypeOK
  <2>2. Runnable' \cup Queued(blocked') = Proc \ gone'
    BY <1>4, <1>5, Places
  <2> QED BY <1>4, <1>5, <2>1, <2>2, OnePlaceAgain
<1>9. CountersAreExact' /\ NoUseAfterDestroy'
  BY <1>2, <1>7 DEF IInv, CountersAreExact, NoUseAfterDestroy
<1>10. WaitsWhereItSays'
  BY <1>1, <1>2 DEF IInv, WaitsWhereItSays
<1>11. kind[c] = "cvar"
  BY DEF find_cvar
<1>12. FreshIds'
  BY <1>1, <1>11 DEF IInv, FreshIds
<1>13. NoLostWakeup'
  BY <1>1, <1>7, <1>11 DEF IInv, NoLostWakeup
<1> QED BY <1>6, <1>8, <1>9, <1>10, <1>12, <1>13 DEF IInv

(***************************************************************************)
(* CvarSignal wakes at most the first sleeper, nobody else and nobody on a *)
(* lock's list.                                                            *)
(***************************************************************************)
LEMMA SignalTakes ==
  ASSUME IInv, NEW p \in Proc, NEW c \in Id, KernelCvarSignal(p, c)
  PROVE  /\ IInv'
         /\ \A q \in Range(HeadOf(blocked[c])) : pc[q] = "cvwait"
         /\ Taken(blocked, blocked', c, Range(HeadOf(blocked[c])))
<1> DEFINE w == HeadOf(blocked[c])
           r == RestOf(blocked[c])
           rd == ready \o w
<1>1. /\ InUser(p) /\ find_cvar(c)
      /\ blocked' = [blocked EXCEPT ![c] = r]
      /\ ReturnWith(p, rd)
      /\ UNCHANGED <<count, kind, owner, unfulfilled, cvar, want, gone>>
  BY DEF KernelCvarSignal
<1>2. w \in Seq(Proc) /\ r \in Seq(Proc) /\ blocked[c] = w \o r
  BY HeadAndRest, Places DEF TypeOK
<1>3. /\ IsInjective(r) /\ IsInjective(w) /\ Range(r) = Range(blocked[c]) \ Range(w)
      /\ Range(w) \subseteq Range(blocked[c])
  <2>1. IsInjective(blocked[c])
    BY Places DEF Separate, TypeOK
  <2> HIDE DEF w, r
  <2>2. IsInjective(w \o r) /\ Range(w \o r) = Range(blocked[c])
    BY <1>2, <2>1
  <2> QED BY <1>2, <2>2, SplitOnce
<1>4. rd \in Seq(Proc) /\ IsInjective(rd) /\ Range(rd) = Range(ready) \cup Range(w)
  <2>1. ready \in Seq(Proc) /\ RunnableOnce /\ Range(w) \cap Runnable = {}
    BY <1>3, Places DEF TypeOK, SchedTypeOK
  <2> HIDE DEF w
  <2> QED BY <1>2, <1>3, <2>1, WokenIsReady
<1> HIDE DEF w, r, rd
<1>5. /\ ChangedAt(blocked, blocked', c) /\ blocked' \in [Id -> Seq(Proc)]
      /\ blocked'[c] = r
  BY <1>1, <1>2, Places DEF ChangedAt, TypeOK
<1>6. Taken(blocked, blocked', c, Range(w))
  BY <1>3, <1>5 DEF Taken
<1>7. IInv' /\ \A q \in Range(w) : pc[q] = "cvwait"
  BY <1>1, <1>4, <1>5, <1>6, WakeSleepersStep
<1> QED BY <1>6, <1>7 DEF w

(***************************************************************************)
(* CvarBroadcast wakes all sleepers and nobody on a lock's list.           *)
(***************************************************************************)
LEMMA BroadcastTakes ==
  ASSUME IInv, NEW p \in Proc, NEW c \in Id, KernelCvarBroadcast(p, c)
  PROVE  /\ IInv'
         /\ \A q \in Range(blocked[c]) : pc[q] = "cvwait"
         /\ Taken(blocked, blocked', c, Range(blocked[c]))
<1> DEFINE rd == ready \o blocked[c]
<1>1. /\ InUser(p) /\ find_cvar(c)
      /\ blocked' = [blocked EXCEPT ![c] = <<>>]
      /\ ReturnWith(p, rd)
      /\ UNCHANGED <<count, kind, owner, unfulfilled, cvar, want, gone>>
  BY DEF KernelCvarBroadcast
<1>2. blocked[c] \in Seq(Proc) /\ IsInjective(blocked[c])
  BY Places DEF TypeOK, Separate
<1>3. rd \in Seq(Proc) /\ IsInjective(rd) /\ Range(rd) = Range(ready) \cup Range(blocked[c])
  <2>1. ready \in Seq(Proc) /\ RunnableOnce /\ Range(blocked[c]) \cap Runnable = {}
    BY Places DEF TypeOK, SchedTypeOK
  <2> QED BY <1>2, <2>1, WokenIsReady
<1> HIDE DEF rd
<1>4. /\ ChangedAt(blocked, blocked', c) /\ blocked' \in [Id -> Seq(Proc)]
      /\ blocked'[c] = <<>>
  BY <1>1, EmptySeq, Places DEF ChangedAt, TypeOK
<1>5. IsInjective(blocked'[c]) /\ Range(blocked'[c]) = {}
  BY <1>4, ShortOnce
<1>6. Taken(blocked, blocked', c, Range(blocked[c]))
  BY <1>4, <1>5 DEF Taken
<1>7. IInv' /\ \A q \in Range(blocked[c]) : pc[q] = "cvwait"
  BY <1>1, <1>3, <1>4, <1>6, WakeSleepersStep
<1> QED BY <1>6, <1>7

(***************************************************************************)
(* release of lock l, by its owner or by somebody who does not own it and  *)
(* changes nothing: whoever leaves the list is in limbo.                   *)
(***************************************************************************)
LEMMA ReleaseTakes ==
  ASSUME IInv, NEW p \in Proc, NEW l \in Id, kind[l] = "lock"
  PROVE  LET w == WokenByRelease(p, l)
             r == BlockedAfterRelease(p, l)
         IN  /\ w \in Seq(Proc) /\ r \in Seq(Proc)
             /\ IsInjective(w) /\ IsInjective(r) /\ Range(r) = Range(blocked[l]) \ Range(w)
             /\ Range(w) \subseteq Range(blocked[l])
             /\ \A q \in Range(w) : /\ q \in Proc
                                    /\ pc[q] \in {"acquire", "reacquire"}
                                    /\ want[q] = l
             /\ w = <<>> => Range(w) = {} /\ (owner[l] = p => r = <<>>)
             /\ owner[l] # p => w = <<>>
             /\ w # <<>> => \E x : Range(w) = {x}
<1>1. blocked[l] \in Seq(Proc)
  BY Places DEF TypeOK
<1> DEFINE w == WokenByRelease(p, l)
           r == BlockedAfterRelease(p, l)
<1>2. /\ w \in Seq(Proc) /\ r \in Seq(Proc) /\ blocked[l] = w \o r
      /\ w = <<>> => Range(w) = {} /\ (owner[l] = p => r = <<>>)
      /\ owner[l] # p => w = <<>>
      /\ w # <<>> => \E x : Range(w) = {x}
  <2>1. CASE owner[l] = p
    <3>1. w = HeadOf(blocked[l])
      BY <2>1 DEF WokenByRelease
    <3>2. r = RestOf(blocked[l])
      BY <1>1, <3>1, HeadAndRest DEF BlockedAfterRelease
    <3>3. w = <<>> => Range(w) = {} /\ r = <<>>
      BY <1>1, <3>1, <3>2, HeadAndRest, ShortOnce DEF RestOf
    <3>4. w # <<>> => \E x : Range(w) = {x}
      BY <3>1, ShortOnce DEF HeadOf
    <3>5. w \in Seq(Proc) /\ r \in Seq(Proc) /\ blocked[l] = w \o r
      BY <1>1, <3>1, <3>2, HeadAndRest
    <3> QED BY <2>1, <3>3, <3>4, <3>5
  <2>2. CASE owner[l] # p
    <3>1. w = <<>>
      BY <2>2 DEF WokenByRelease
    <3>2. r = blocked[l]
      BY <1>1, <3>1, NoneAndAll DEF BlockedAfterRelease
    <3>3. Range(<<>>) = {} /\ <<>> \in Seq(Proc) /\ blocked[l] = <<>> \o blocked[l]
      BY <1>1, NoneAndAll, ShortOnce, EmptySeq
    <3> QED BY <1>1, <2>2, <3>1, <3>2, <3>3
  <2> QED BY <2>1, <2>2
<1> HIDE DEF w, r
<1>3. /\ IsInjective(w) /\ IsInjective(r) /\ Range(r) = Range(blocked[l]) \ Range(w)
      /\ Range(w) \subseteq Range(blocked[l])
  <2>1. IsInjective(blocked[l])
    BY Places DEF Separate, TypeOK
  <2>2. IsInjective(w \o r) /\ Range(w \o r) = Range(blocked[l])
    BY <1>2, <2>1
  <2> QED BY <1>2, <2>2, SplitOnce
<1>4. Range(w) \subseteq Proc
  BY <1>2, RangeOfSeq
<1>5. \A q \in Range(w) : pc[q] \in {"acquire", "reacquire"} /\ want[q] = l
  BY <1>3 DEF IInv, WaitsWhereItSays
<1> QED BY <1>2, <1>3, <1>4, <1>5 DEF w, r

LEMMA ReleaseStep ==
  ASSUME IInv, NEW p \in Proc, NEW l \in Id, KernelRelease(p, l)
  PROVE  IInv'
<1> DEFINE w == WokenByRelease(p, l)
           r == BlockedAfterRelease(p, l)
<1>1. /\ running = p /\ pc[p] = "user" /\ kind[l] = "lock" /\ owner[l] = p
      /\ owner' = [owner EXCEPT ![l] = NoOne]
      /\ unfulfilled' = [unfulfilled EXCEPT ![l] = IF w = <<>> THEN @ ELSE @ + 1]
      /\ blocked' = [blocked EXCEPT ![l] = r]
      /\ ReturnWith(p, ready \o w)
      /\ UNCHANGED <<count, kind, cvar, want, gone>>
  BY DEF KernelRelease, InUser, find_lock, Release
<1> HIDE DEF w, r
<1>2. /\ w \in Seq(Proc) /\ r \in Seq(Proc)
      /\ IsInjective(w) /\ IsInjective(r) /\ Range(r) = Range(blocked[l]) \ Range(w)
      /\ Range(w) \subseteq Range(blocked[l])
      /\ \A q \in Range(w) : /\ q \in Proc
                             /\ pc[q] \in {"acquire", "reacquire"}
                             /\ want[q] = l
      /\ w = <<>> => Range(w) = {} /\ r = <<>>
      /\ w # <<>> => \E x : Range(w) = {x}
  <2>1. kind[l] = "lock" /\ owner[l] = p
    BY <1>1
  <2> QED BY <2>1, ReleaseTakes DEF w, r
<1>3. pc' = pc /\ running' = running /\ ready' = ready \o w
  BY <1>1, Places DEF ReturnWith, TypeOK, SchedTypeOK
<1>4. /\ blocked' \in [Id -> Seq(Proc)] /\ DOMAIN blocked = Id /\ blocked'[l] = r
      /\ \A i \in Id : i # l => blocked'[i] = blocked[i]
  BY <1>1, <1>2, Places DEF TypeOK
<1>5. Taken(blocked, blocked', l, Range(w))
  BY <1>2, <1>4 DEF Taken, ChangedAt
<1>6. /\ ready' \in Seq(Proc) /\ RunnableOnce' /\ Runnable' = Runnable \cup Range(w)
  <2>1. Range(w) \subseteq Proc \ Runnable /\ ready \in Seq(Proc) /\ RunnableOnce
    BY <1>2, Places DEF TypeOK, SchedTypeOK
  <2>2. ready' \in Seq(Proc) /\ IsInjective(ready') /\ Range(ready') = Range(ready) \cup Range(w)
    BY <1>2, <1>3, <2>1, WokenIsReady
  <2> QED BY <1>3, <2>1, <2>2, WakeSeparate
<1>7. Separate(blocked', Runnable') /\ Queued(blocked') = Queued(blocked) \ Range(w)
      /\ Range(w) \subseteq Queued(blocked)
  <2>1. Separate(blocked, Runnable)
    BY Places
  <2>2. Runnable' \subseteq Runnable \cup Range(w)
    BY <1>6
  <2>3. Separate(blocked', Runnable')
    BY <1>5, <2>1, <2>2, TakeSeparate
  <2> QED BY <1>5, <2>1, <2>3, TakeQueued
<1>8. /\ Limbo(l)' = Limbo(l) \cup Range(w) /\ Limbo(l) \cap Range(w) = {}
      /\ \A j \in Id : j # l => Limbo(j)' = Limbo(j)
      /\ \A j \in Id : CvarWaiters(j)' = CvarWaiters(j)
  BY <1>1, <1>2, <1>3, <1>4 DEF Limbo, Listed, CvarWaiters
<1>9. TypeOK' /\ CountersAreExact'
  <2>1. \A j \in Id : unfulfilled'[j] = Cardinality(Limbo(j)')
    <3>1. \A j \in Id : j # l => unfulfilled'[j] = unfulfilled[j]
      BY <1>1, Places DEF TypeOK
    <3>2. CASE w = <<>>
      <4>1. unfulfilled' = unfulfilled
        BY <1>1, <3>2, Places DEF TypeOK
      <4>2. \A j \in Id : Limbo(j)' = Limbo(j)
        BY <1>2, <1>8, <3>2
      <4> QED BY <4>1, <4>2, Counted
    <3>3. CASE w # <<>>
      <4>1. PICK x \in Proc : Range(w) = {x}
        BY <1>2, <3>3
      <4>2. Cardinality(Limbo(l) \cup {x}) = Cardinality(Limbo(l)) + 1
        BY <1>8, <4>1, Counted, CountOfProcs
      <4>3. unfulfilled'[l] = unfulfilled[l] + 1
        BY <1>1, <3>3, Places DEF TypeOK
      <4> QED BY <1>8, <3>1, <4>1, <4>2, <4>3, Counted
    <3> QED BY <3>2, <3>3
  <2>2. \A j \in Id : cvar'[j] = Cardinality(CvarWaiters(j)')
    BY <1>1, <1>8, Counted
  <2>3. unfulfilled' = [j \in Id |-> Cardinality(Limbo(j)')]
    BY <1>1, <2>1, Places DEF TypeOK
  <2>4. cvar' = [j \in Id |-> Cardinality(CvarWaiters(j)')]
    BY <1>1, <2>2, Places DEF TypeOK
  <2>5. owner' \in [Id -> Proc \cup {NoOne}]
    BY <1>1, Places DEF TypeOK
  <2>6. SchedTypeOK({"user", "acquire", "cvwait", "reacquire"})'
    BY <1>3, <1>6, Places DEF TypeOK, SchedTypeOK
  <2>7. /\ count' \in 0..MaxId /\ kind' \in [Id -> {"none", "lock", "cvar", "gone"}]
        /\ want' \in [Proc -> Id] /\ gone' \subseteq Mortal
    BY <1>1, Places DEF TypeOK
  <2> QED BY <1>4, <2>3, <2>4, <2>5, <2>6, <2>7, TypeAgain
<1>10. OnePlace'
  <2>1. Runnable' \cup Queued(blocked') = Proc \ gone'
    BY <1>1, <1>6, <1>7, Places
  <2> QED BY <1>6, <1>7, <1>9, <2>1, OnePlaceAgain
<1>11. WaitsWhereItSays' /\ NoUseAfterDestroy'
  BY <1>1, <1>2, <1>3, <1>4 DEF IInv, WaitsWhereItSays, NoUseAfterDestroy
<1>12. FreshIds'
  BY <1>1, <1>4, Places DEF IInv, FreshIds, TypeOK
<1>13. NoLostWakeup'
  <2>1. \A j \in Id : j # l => owner'[j] = owner[j]
    BY <1>1, Places DEF TypeOK
  <2>2. r # <<>> => Limbo(l)' # {}
    BY <1>2, <1>8
  <2> QED BY <1>1, <1>4, <1>8, <2>1, <2>2 DEF IInv, NoLostWakeup
<1> QED BY <1>9, <1>10, <1>11, <1>12, <1>13 DEF IInv

-----------------------------------------------------------------------------
(***************************************************************************)
(* One round of the loop of acquire, by a caller, by a process that        *)
(* release has woken, or by one that comes back from CvarWait: afterwards  *)
(* p is in no limbo.                                                       *)
(***************************************************************************)
Acquires(p, l, point) ==
  /\ running = p /\ kind[l] = "lock"
  /\ pc[p] = "user" \/ want[p] = l
  /\ point \in {"acquire", "reacquire"}
  /\ point = "reacquire" <=> pc[p] \in {"cvwait", "reacquire"}
  /\ AcquireLoop(p, l, point)
  /\ want' = [want EXCEPT ![p] = l]
  /\ unfulfilled' = IF pc[p] \in {"acquire", "reacquire"}
                    THEN [unfulfilled EXCEPT ![l] = @ - 1] ELSE unfulfilled
  /\ cvar' = IF MayTake(p, l) /\ point = "reacquire"
             THEN [cvar EXCEPT ![l] = @ - 1] ELSE cvar
  /\ UNCHANGED <<count, kind, gone>>

(***************************************************************************)
(* The counters, once it is known who is in limbo and who is in CvarWait.  *)
(***************************************************************************)
LEMMA AcquireCounts ==
  ASSUME IInv, NEW p \in Proc, NEW l \in Id, NEW point, Acquires(p, l, point),
         \A j \in Id : Limbo(j)' = Limbo(j) \ {p},
         \A j \in Id : CvarWaiters(j)' =
                         IF MayTake(p, l) THEN CvarWaiters(j) \ {p} ELSE CvarWaiters(j)
  PROVE  /\ unfulfilled' = [j \in Id |-> Cardinality(Limbo(j)')]
         /\ cvar' = [j \in Id |-> Cardinality(CvarWaiters(j)')]
<1>1. \A i \in Id : p \notin Range(blocked[i])
  BY RunnerIsUnlisted DEF Acquires
<1>2. \A j \in Id : /\ p \in Limbo(j) <=> pc[p] \in {"acquire", "reacquire"} /\ j = l
                    /\ p \in CvarWaiters(j) <=> point = "reacquire" /\ j = l
  BY <1>1 DEF Acquires, Limbo, Listed, CvarWaiters
<1>3. unfulfilled' = [j \in Id |-> Cardinality(Limbo(j)')]
  <2>1. CASE pc[p] \in {"acquire", "reacquire"}
    <3>1. unfulfilled' = [unfulfilled EXCEPT ![l] = unfulfilled[l] - 1]
      BY <2>1 DEF Acquires
    <3>2. Cardinality(Limbo(l)') = Cardinality(Limbo(l)) - 1
      BY <1>2, <2>1, Counted, CountOfProcs
    <3>3. \A j \in Id : j # l => Limbo(j)' = Limbo(j)
      BY <1>2
    <3>4. \A j \in Id : unfulfilled'[j] = Cardinality(Limbo(j)')
      BY <3>1, <3>2, <3>3, Counted, Places DEF TypeOK
    <3> QED BY <3>1, <3>4, Places DEF TypeOK
  <2>2. CASE pc[p] \notin {"acquire", "reacquire"}
    <3>1. unfulfilled' = unfulfilled
      BY <2>2 DEF Acquires
    <3>2. \A j \in Id : Limbo(j)' = Limbo(j)
      BY <1>2, <2>2
    <3> QED BY <3>1, <3>2, Counted, Places DEF TypeOK
  <2> QED BY <2>1, <2>2
<1>4. cvar' = [j \in Id |-> Cardinality(CvarWaiters(j)')]
  <2>1. CASE MayTake(p, l) /\ point = "reacquire"
    <3>1. cvar' = [cvar EXCEPT ![l] = cvar[l] - 1]
      BY <2>1 DEF Acquires
    <3>2. Cardinality(CvarWaiters(l)') = Cardinality(CvarWaiters(l)) - 1
      BY <1>2, <2>1, Counted, CountOfProcs
    <3>3. \A j \in Id : j # l => CvarWaiters(j)' = CvarWaiters(j)
      BY <1>2, <2>1
    <3>4. \A j \in Id : cvar'[j] = Cardinality(CvarWaiters(j)')
      BY <3>1, <3>2, <3>3, Counted, Places DEF TypeOK
    <3> QED BY <3>1, <3>4, Places DEF TypeOK
  <2>2. CASE ~(MayTake(p, l) /\ point = "reacquire")
    <3>1. cvar' = cvar
      BY <2>2 DEF Acquires
    <3>2. \A j \in Id : CvarWaiters(j)' = CvarWaiters(j)
      BY <1>2, <2>2
    <3> QED BY <3>1, <3>2, Counted, Places DEF TypeOK
  <2> QED BY <2>1, <2>2
<1> QED BY <1>3, <1>4

(***************************************************************************)
(* acquire by a process that may have the lock.                            *)
(***************************************************************************)
LEMMA TakeLock ==
  ASSUME IInv, NEW p \in Proc, NEW l \in Id, NEW point, Acquires(p, l, point),
         MayTake(p, l)
  PROVE  IInv'
<1>1. /\ running = p /\ kind[l] = "lock" /\ owner' = [owner EXCEPT ![l] = p]
      /\ pc' = [pc EXCEPT ![p] = "user"] /\ UNCHANGED <<running, ready, blocked>>
      /\ want' = [want EXCEPT ![p] = l] /\ UNCHANGED <<count, kind, gone>>
  BY DEF Acquires, AcquireLoop, ReturnWith
<1>2. /\ pc'[p] = "user" /\ \A q \in Proc : q # p => pc'[q] = pc[q] /\ want'[q] = want[q]
      /\ owner'[l] = p /\ \A j \in Id : j # l => owner'[j] = owner[j]
      /\ p # NoOne
  BY <1>1, Places, LockCvarAssumption DEF TypeOK, SchedTypeOK
<1>3. \A i \in Id : p \notin Range(blocked[i])
  BY <1>1, RunnerIsUnlisted
<1>4. \A j \in Id : Limbo(j)' = Limbo(j) \ {p} /\ CvarWaiters(j)' = CvarWaiters(j) \ {p}
  BY <1>1, <1>2 DEF Limbo, Listed, CvarWaiters
<1>5. TypeOK' /\ CountersAreExact'
  <2>1. /\ unfulfilled' = [j \in Id |-> Cardinality(Limbo(j)')]
        /\ cvar' = [j \in Id |-> Cardinality(CvarWaiters(j)')]
    BY <1>4, AcquireCounts
  <2>2. SchedTypeOK({"user", "acquire", "cvwait", "reacquire"})'
    BY <1>1, Places DEF TypeOK, SchedTypeOK
  <2>3. /\ count' \in 0..MaxId /\ kind' \in [Id -> {"none", "lock", "cvar", "gone"}]
        /\ want' \in [Proc -> Id] /\ gone' \subseteq Mortal
        /\ owner' \in [Id -> Proc \cup {NoOne}] /\ blocked' \in [Id -> Seq(Proc)]
    BY <1>1, Places DEF TypeOK
  <2> QED BY <2>1, <2>2, <2>3, TypeAgain
<1>6. OnePlace'
  <2>1. QueuedOnce(blocked)' /\ (Runnable \cup Queued(blocked) = Proc \ gone)'
    BY <1>1 DEF IInv, OnePlace, QueuedOnce, RunnableOnce, Runnable, Queued
  <2> QED BY <1>5, <2>1 DEF OnePlace
<1>7. WaitsWhereItSays'
  <2>1. \A i \in Id : Range(blocked[i]) \subseteq Proc
    BY Places
  <2> QED BY <1>1, <1>2, <1>3, <2>1 DEF IInv, WaitsWhereItSays
<1>8. FreshIds'
  BY <1>1, <1>2 DEF IInv, FreshIds
<1>9. NoUseAfterDestroy'
  BY <1>1, <1>2 DEF IInv, NoUseAfterDestroy
<1>10. NoLostWakeup'
  <2>1. \A j \in Id : j # l => Limbo(j)' = Limbo(j)
    BY <1>4 DEF Acquires, Limbo
  <2> QED BY <1>1, <1>2, <2>1 DEF IInv, NoLostWakeup
<1> QED BY <1>5, <1>6, <1>7, <1>8, <1>9, <1>10 DEF IInv

(***************************************************************************)
(* acquire by a process that may not have the lock, and blocks.            *)
(***************************************************************************)
LEMMA BlockOnLock ==
  ASSUME IInv, NEW p \in Proc, NEW l \in Id, NEW point, Acquires(p, l, point),
         ~MayTake(p, l)
  PROVE  IInv'
<1>1. /\ running = p /\ kind[l] = "lock"
      /\ blocked' = [blocked EXCEPT ![l] = Append(@, p)]
      /\ pc' = [pc EXCEPT ![p] = point] /\ RunNextReady(ready)
      /\ want' = [want EXCEPT ![p] = l] /\ UNCHANGED <<count, kind, gone, owner>>
  BY DEF Acquires, AcquireLoop, BlockAt
<1>2. /\ point \in {"acquire", "reacquire"}
      /\ point = "reacquire" <=> pc[p] \in {"cvwait", "reacquire"}
      /\ pc[p] = "user" \/ want[p] = l
  BY DEF Acquires
<1>3. /\ pc'[p] = point /\ want'[p] = l
      /\ \A q \in Proc : q # p => pc'[q] = pc[q] /\ want'[q] = want[q]
  BY <1>1, Places DEF TypeOK, SchedTypeOK
<1>4. /\ \A i \in Id : p \notin Range(blocked[i])
      /\ Runnable = Range(ready) \cup {p} /\ p \notin Range(ready)
      /\ blocked[l] \in Seq(Proc)
  BY <1>1, RunnerIsUnlisted
<1>5. /\ blocked' \in [Id -> Seq(Proc)] /\ IsInjective(blocked'[l])
      /\ Range(blocked'[l]) = Range(blocked[l]) \cup {p}
      /\ \A j \in Id : j # l => blocked'[j] = blocked[j]
  <2>1. IsInjective(blocked[l])
    BY Places DEF Separate, TypeOK
  <2> DEFINE s == Append(blocked[l], p)
  <2>2. s \in Seq(Proc) /\ IsInjective(s) /\ Range(s) = Range(blocked[l]) \cup {p}
    BY <1>4, <2>1, AppendOnce
  <2>3. blocked' = [blocked EXCEPT ![l] = s]
    BY <1>1
  <2> HIDE DEF s
  <2> QED BY <2>2, <2>3, Places DEF TypeOK
<1>6. Joined(blocked, blocked', l, p)
  BY <1>5, Places DEF Joined, ChangedAt, TypeOK
<1>7. /\ running' \in Proc \cup {Idle} /\ ready' \in Seq(Proc)
      /\ RunnableOnce' /\ Runnable' = Range(ready)
      /\ Separate(blocked', Runnable') /\ Queued(blocked') = Queued(blocked) \cup {p}
  <2>1. /\ running' \in Proc \cup {Idle} /\ ready' \in Seq(Proc)
        /\ RunnableOnce' /\ Runnable' = Range(ready)
    BY <1>1, Places, RunNextReadyOnce DEF TypeOK, SchedTypeOK
  <2>2. Separate(blocked, Runnable) /\ p \in Runnable
    BY <1>4, Places
  <2>3. Range(ready) \subseteq Runnable /\ p \notin Range(ready)
    BY <1>4
  <2>4. Separate(blocked', Range(ready)) /\ Queued(blocked') = Queued(blocked) \cup {p}
    BY <1>6, <2>2, <2>3, JoinSeparate
  <2> QED BY <2>1, <2>4
<1>8. \A j \in Id : Limbo(j)' = Limbo(j) \ {p} /\ CvarWaiters(j)' = CvarWaiters(j)
  BY <1>2, <1>3, <1>5 DEF Limbo, Listed, CvarWaiters
<1>9. TypeOK' /\ CountersAreExact'
  <2>1. /\ unfulfilled' = [j \in Id |-> Cardinality(Limbo(j)')]
        /\ cvar' = [j \in Id |-> Cardinality(CvarWaiters(j)')]
    BY <1>8, AcquireCounts
  <2>2. SchedTypeOK({"user", "acquire", "cvwait", "reacquire"})'
    BY <1>1, <1>2, <1>7, Places DEF TypeOK, SchedTypeOK
  <2>3. /\ count' \in 0..MaxId /\ kind' \in [Id -> {"none", "lock", "cvar", "gone"}]
        /\ want' \in [Proc -> Id] /\ gone' \subseteq Mortal
        /\ owner' \in [Id -> Proc \cup {NoOne}]
    BY <1>1, Places DEF TypeOK
  <2> QED BY <1>5, <2>1, <2>2, <2>3, TypeAgain
<1>10. OnePlace'
  <2>1. Runnable' \cup Queued(blocked') = Proc \ gone'
    BY <1>1, <1>4, <1>7, Places
  <2> QED BY <1>7, <1>9, <2>1, OnePlaceAgain
<1>11. WaitsWhereItSays'
  <2>1. \A i \in Id : Range(blocked[i]) \subseteq Proc
    BY Places
  <2> QED BY <1>1, <1>2, <1>3, <1>4, <1>5, <2>1 DEF IInv, WaitsWhereItSays
<1>12. FreshIds'
  BY <1>1, <1>5 DEF IInv, FreshIds
<1>13. NoUseAfterDestroy'
  BY <1>1, <1>3 DEF IInv, NoUseAfterDestroy
<1>14. NoLostWakeup'
  <2>1. \A j \in Id : j # l => Limbo(j)' = Limbo(j)
    BY <1>2, <1>8 DEF Limbo
  <2>2. owner[l] # NoOne
    BY DEF MayTake
  <2> QED BY <1>1, <1>5, <2>1, <2>2 DEF IInv, NoLostWakeup
<1> QED BY <1>9, <1>10, <1>11, <1>12, <1>13, <1>14 DEF IInv

(***************************************************************************)
(* The three ways into acquire: the system call, going on after release    *)
(* has woken the process, and the end of CvarWait.                         *)
(***************************************************************************)
LEMMA AcquireIsAcquires ==
  ASSUME IInv, NEW p \in Proc
  PROVE  /\ \A l \in Id : KernelAcquire(p, l) => Acquires(p, l, "acquire")
         /\ ResumeAcquire(p) => Acquires(p, want[p], "acquire")
         /\ ResumeCvarWait(p) => Acquires(p, want[p], "reacquire")
<1>1. want[p] \in Id /\ want' = want => want' = [want EXCEPT ![p] = want[p]]
  BY Places DEF TypeOK
<1>2. \A l \in Id : KernelAcquire(p, l) => Acquires(p, l, "acquire")
  BY DEF KernelAcquire, InUser, find_lock, Acquires
<1>3. pc[p] # "user" => kind[want[p]] = "lock"
  BY DEF IInv, NoUseAfterDestroy
<1>4. ResumeAcquire(p) => Acquires(p, want[p], "acquire")
  BY <1>1, <1>3, Places DEF ResumeAcquire, Acquires, Fulfilled, TypeOK
<1>5. ResumeCvarWait(p) => Acquires(p, want[p], "reacquire")
  BY <1>1, <1>3, Places DEF ResumeCvarWait, Acquires, Fulfilled, TypeOK
<1> QED BY <1>2, <1>4, <1>5

-----------------------------------------------------------------------------
(***************************************************************************)
(* wait_cvar moves two nodes: the first waiter of the lock becomes ready,  *)
(* and the caller joins the list of the condition variable.                *)
(***************************************************************************)
LEMMA CvarWaitStep ==
  ASSUME IInv, NEW p \in Proc, NEW c \in Id, NEW l \in Id, KernelCvarWait(p, c, l)
  PROVE  IInv'
<1> DEFINE w == WokenByRelease(p, l)
           r == BlockedAfterRelease(p, l)
           mid == [blocked EXCEPT ![l] = r]
           rd == ready \o w
<1>1. /\ running = p /\ pc[p] = "user" /\ kind[c] = "cvar" /\ kind[l] = "lock" /\ c # l
      /\ owner' = [owner EXCEPT ![l] = IF @ = p THEN NoOne ELSE @]
      /\ unfulfilled' = [unfulfilled EXCEPT ![l] = IF w = <<>> THEN @ ELSE @ + 1]
      /\ blocked' = [blocked EXCEPT ![l] = r, ![c] = Append(@, p)]
      /\ cvar' = [cvar EXCEPT ![l] = @ + 1]
      /\ pc' = [pc EXCEPT ![p] = "cvwait"] /\ RunNextReady(rd)
      /\ want' = [want EXCEPT ![p] = l]
      /\ UNCHANGED <<count, kind, gone>>
  BY DEF KernelCvarWait, InUser, find_lock, find_cvar, Release, BlockAt
<1>2. /\ w \in Seq(Proc) /\ r \in Seq(Proc)
      /\ IsInjective(w) /\ IsInjective(r) /\ Range(r) = Range(blocked[l]) \ Range(w)
      /\ Range(w) \subseteq Range(blocked[l])
      /\ \A q \in Range(w) : /\ q \in Proc
                             /\ pc[q] \in {"acquire", "reacquire"}
                             /\ want[q] = l
      /\ w = <<>> => Range(w) = {} /\ (owner[l] = p => r = <<>>)
      /\ owner[l] # p => w = <<>>
      /\ w # <<>> => \E x : Range(w) = {x}
  BY <1>1, ReleaseTakes
<1> HIDE DEF w, r
<1>3. /\ \A i \in Id : p \notin Range(blocked[i]) /\ blocked[i] \in Seq(Proc)
      /\ Runnable = Range(ready) \cup {p} /\ p \notin Range(ready)
      /\ ready \in Seq(Proc) /\ IsInjective(ready) /\ RunnableOnce
      /\ Separate(blocked, Runnable)
  BY <1>1, RunnerIsUnlisted, Places DEF TypeOK, SchedTypeOK
<1>4. /\ mid \in [Id -> Seq(Proc)] /\ mid[l] = r
      /\ \A i \in Id : i # l => mid[i] = blocked[i]
      /\ blocked' = [mid EXCEPT ![c] = Append(blocked[c], p)]
  BY <1>1, <1>2, Places DEF TypeOK
<1> HIDE DEF mid
<1>5. Taken(blocked, mid, l, Range(w))
  BY <1>2, <1>4, Places DEF Taken, ChangedAt, TypeOK
<1>6. /\ Separate(mid, Runnable \cup Range(w))
      /\ Queued(mid) = Queued(blocked) \ Range(w)
      /\ Range(w) \cap Runnable = {} /\ Range(w) \subseteq Queued(blocked)
  <2> DEFINE S == Runnable \cup Range(w)
  <2>1. S \subseteq Runnable \cup Range(w)
    OBVIOUS
  <2> HIDE DEF S
  <2>2. /\ Separate(mid, S)
        /\ Queued(mid) = Queued(blocked) \ Range(w)
        /\ Range(w) \cap Runnable = {} /\ Range(w) \subseteq Queued(blocked)
    <3>1. Separate(blocked, Runnable)
      BY <1>3
    <3>2. Separate(mid, S)
      BY <1>5, <2>1, <3>1, TakeSeparate
    <3> QED BY <1>5, <3>1, <3>2, TakeQueued
  <2> QED BY <2>2 DEF S
<1>7. /\ blocked' \in [Id -> Seq(Proc)] /\ IsInjective(blocked'[c])
      /\ Range(blocked'[c]) = Range(blocked[c]) \cup {p}
      /\ blocked'[l] = r
      /\ \A i \in Id : i # l /\ i # c => blocked'[i] = blocked[i]
  <2>1. IsInjective(blocked[c])
    BY <1>3, Places DEF Separate, TypeOK
  <2> DEFINE s == Append(blocked[c], p)
  <2>2. s \in Seq(Proc) /\ IsInjective(s) /\ Range(s) = Range(blocked[c]) \cup {p}
    BY <1>3, <2>1, AppendOnce
  <2>3. blocked' = [mid EXCEPT ![c] = s]
    BY <1>4
  <2> HIDE DEF s
  <2> QED BY <1>1, <1>4, <2>2, <2>3
<1>8. Joined(mid, blocked', c, p)
  <2>1. ChangedAt(mid, blocked', c)
    BY <1>1, <1>4, <1>7 DEF ChangedAt
  <2>2. mid[c] = blocked[c]
    BY <1>1, <1>4
  <2> QED BY <1>7, <2>1, <2>2 DEF Joined
<1>9. rd \in Seq(Proc) /\ IsInjective(rd) /\ Range(rd) = Range(ready) \cup Range(w)
  BY <1>2, <1>3, <1>6, WokenIsReady
<1> HIDE DEF rd
<1>10. /\ running' \in Proc \cup {Idle} /\ ready' \in Seq(Proc)
       /\ RunnableOnce' /\ Runnable' = (Runnable \ {p}) \cup Range(w)
       /\ Separate(blocked', Runnable') /\ Queued(blocked') = Queued(mid) \cup {p}
  <2>1. /\ running' \in Proc \cup {Idle} /\ ready' \in Seq(Proc)
        /\ RunnableOnce' /\ Runnable' = Range(rd)
    BY <1>1, <1>9, RunNextReadyOnce
  <2> DEFINE R == Runnable \cup Range(w)
  <2>2. Separate(mid, R) /\ p \in R
    BY <1>3, <1>6
  <2>3. Range(rd) \subseteq R /\ p \notin Range(rd)
    BY <1>2, <1>3, <1>9
  <2> HIDE DEF R
  <2>4. Separate(blocked', Range(rd)) /\ Queued(blocked') = Queued(mid) \cup {p}
    BY <1>8, <2>2, <2>3, JoinSeparate
  <2>5. Range(rd) = (Runnable \ {p}) \cup Range(w)
    BY <1>3, <1>9
  <2> QED BY <2>1, <2>4, <2>5
<1>11. /\ pc'[p] = "cvwait" /\ want'[p] = l
       /\ \A q \in Proc : q # p => pc'[q] = pc[q] /\ want'[q] = want[q]
  BY <1>1, Places DEF TypeOK, SchedTypeOK
<1>12. /\ Limbo(l)' = Limbo(l) \cup Range(w) /\ Limbo(l) \cap Range(w) = {}
       /\ \A j \in Id : j # l => Limbo(j)' = Limbo(j)
  <2>1. \A q \in Proc : q # p => (Listed(q, l)' <=> Listed(q, l) /\ q \notin Range(w))
    BY <1>2, <1>7 DEF Listed
  <2>2. \A q \in Proc, j \in Id : q # p /\ j # l => (Listed(q, j)' <=> Listed(q, j))
    BY <1>7 DEF Listed
  <2>3. pc[p] = "user" /\ p \notin Range(w)
    BY <1>1, <1>2
  <2> QED BY <1>2, <1>11, <2>1, <2>2, <2>3 DEF Limbo, Listed
<1>13. /\ CvarWaiters(l)' = CvarWaiters(l) \cup {p} /\ p \notin CvarWaiters(l)
       /\ \A j \in Id : j # l => CvarWaiters(j)' = CvarWaiters(j)
  BY <1>1, <1>11 DEF CvarWaiters
<1>14. TypeOK' /\ CountersAreExact'
  <2>1. \A j \in Id : unfulfilled'[j] = Cardinality(Limbo(j)')
    <3>1. \A j \in Id : j # l => unfulfilled'[j] = unfulfilled[j]
      BY <1>1, Places DEF TypeOK
    <3>2. CASE w = <<>>
      <4>1. unfulfilled' = unfulfilled
        BY <1>1, <3>2, Places DEF TypeOK
      <4>2. \A j \in Id : Limbo(j)' = Limbo(j)
        BY <1>2, <1>12, <3>2
      <4> QED BY <4>1, <4>2, Counted
    <3>3. CASE w # <<>>
      <4>1. PICK x \in Proc : Range(w) = {x}
        BY <1>2, <3>3
      <4>2. Cardinality(Limbo(l) \cup {x}) = Cardinality(Limbo(l)) + 1
        BY <1>12, <4>1, Counted, CountOfProcs
      <4>3. unfulfilled'[l] = unfulfilled[l] + 1
        BY <1>1, <3>3, Places DEF TypeOK
      <4> QED BY <1>12, <3>1, <4>1, <4>2, <4>3, Counted
    <3> QED BY <3>2, <3>3
  <2>2. \A j \in Id : cvar'[j] = Cardinality(CvarWaiters(j)')
    <3>1. Cardinality(CvarWaiters(l) \cup {p}) = Cardinality(CvarWaiters(l)) + 1
      BY <1>13, Counted, CountOfProcs
    <3>2. cvar'[l] = cvar[l] + 1 /\ \A j \in Id : j # l => cvar'[j] = cvar[j]
      BY <1>1, Places DEF TypeOK
    <3> QED BY <1>13, <3>1, <3>2, Counted
  <2>3. unfulfilled' = [j \in Id |-> Cardinality(Limbo(j)')]
    BY <1>1, <2>1, Places DEF TypeOK
  <2>4. cvar' = [j \in Id |-> Cardinality(CvarWaiters(j)')]
    BY <1>1, <2>2, Places DEF TypeOK
  <2>5. owner' \in [Id -> Proc \cup {NoOne}]
    BY <1>1, Places DEF TypeOK
  <2>6. SchedTypeOK({"user", "acquire", "cvwait", "reacquire"})'
    BY <1>1, <1>10, Places DEF TypeOK, SchedTypeOK
  <2>7. /\ count' \in 0..MaxId /\ kind' \in [Id -> {"none", "lock", "cvar", "gone"}]
        /\ want' \in [Proc -> Id] /\ gone' \subseteq Mortal
    BY <1>1, Places DEF TypeOK
  <2> QED BY <1>7, <2>3, <2>4, <2>5, <2>6, <2>7, TypeAgain
<1>15. OnePlace'
  <2>1. Runnable' \cup Queued(blocked') = Proc \ gone'
    BY <1>1, <1>3, <1>6, <1>10, Places
  <2> QED BY <1>10, <1>14, <2>1, OnePlaceAgain
<1>16. WaitsWhereItSays'
  <2>1. \A i \in Id : Range(blocked[i]) \subseteq Proc
    BY Places
  <2>2. ASSUME NEW i \in Id, NEW q \in Range(blocked'[i])
        PROVE  \/ pc'[q] = "cvwait" /\ kind'[i] # "lock"
               \/ pc'[q] \in {"acquire", "reacquire"} /\ want'[q] = i
    <3>1. CASE q = p
      <4>1. i = c
        BY <1>2, <1>3, <1>7, <3>1
      <4> QED BY <1>1, <1>11, <3>1, <4>1
    <3>2. CASE q # p
      <4>1. q \in Range(blocked[i])
        BY <1>2, <1>7, <3>2
      <4> QED BY <1>1, <1>11, <2>1, <3>2, <4>1 DEF IInv, WaitsWhereItSays
    <3> QED BY <3>1, <3>2
  <2> QED BY <2>2 DEF WaitsWhereItSays
<1>17. FreshIds'
  <2>1. \A j \in Id : j # l => owner'[j] = owner[j]
    BY <1>1, Places DEF TypeOK
  <2> QED BY <1>1, <1>7, <2>1 DEF IInv, FreshIds
<1>18. NoUseAfterDestroy'
  BY <1>1, <1>11 DEF IInv, NoUseAfterDestroy
<1>19. NoLostWakeup'
  <2>1. /\ owner'[l] = IF owner[l] = p THEN NoOne ELSE owner[l]
        /\ \A j \in Id : j # l => owner'[j] = owner[j]
    BY <1>1, Places DEF TypeOK
  <2>2. ASSUME r # <<>> PROVE owner'[l] # NoOne \/ Limbo(l)' # {}
    <3>1. CASE w # <<>>
      BY <1>2, <1>12, <3>1
    <3>2. CASE w = <<>>
      <4>1. owner[l] # p /\ Range(r) = Range(blocked[l]) /\ Range(r) # {}
        <5>1. \A s \in Seq(Proc) : s # <<>> => Range(s) # {}
          BY NonemptyRange
        <5> QED BY <1>2, <2>2, <3>2, <5>1
      <4>2. blocked[l] # <<>>
        BY <4>1, ShortOnce
      <4> QED BY <1>1, <1>12, <2>1, <4>1, <4>2 DEF IInv, NoLostWakeup
    <3> QED BY <3>1, <3>2
  <2> QED BY <1>1, <1>7, <1>12, <2>1, <2>2 DEF IInv, NoLostWakeup
<1> QED BY <1>14, <1>15, <1>16, <1>17, <1>18, <1>19 DEF IInv

-----------------------------------------------------------------------------
(***************************************************************************)
(* Every step keeps the inductive invariant.                               *)
(***************************************************************************)
LEMMA NextIInv == IInv /\ [Next]_vars => IInv'
<1> SUFFICES ASSUME IInv, [Next]_vars PROVE IInv'
  OBVIOUS
<1>1. CASE UNCHANGED vars
  <2>1. OnePlace'
    BY <1>1 DEF IInv, OnePlace, TypeOK, SchedTypeOK, QueuedOnce, RunnableOnce, Runnable,
       Queued, vars, schedVars, objVars
  <2> QED BY <1>1, <2>1, SameObjects DEF vars, schedVars
<1>2. CASE TrapClock
  BY <1>2, ClockStep
<1>3. CASE \E p \in Proc : Calls(p) \/ Resume(p)
  <2>1. PICK p \in Proc : Calls(p) \/ Resume(p)
    BY <1>3
  <2>2. CASE KernelLockInit(p) \/ KernelCvarInit(p)
    BY <2>2, InitObjectStep
  <2>3. CASE KernelExit(p)
    BY <2>3, ExitStep
  <2>4. CASE KernelFork(p)
    BY <2>4, ForkStep
  <2>5. CASE (\E l \in Id : KernelAcquire(p, l)) \/ Resume(p)
    <3>1. want[p] \in Id
      BY Places DEF TypeOK
    <3>2. PICK l \in Id, point \in {"acquire", "reacquire"} : Acquires(p, l, point)
      BY <2>5, <3>1, AcquireIsAcquires DEF Resume
    <3> QED BY <3>2, TakeLock, BlockOnLock
  <2>6. CASE \E i \in Id : KernelRelease(p, i)
    BY <2>6, ReleaseStep
  <2>7. CASE \E i, l \in Id : KernelCvarWait(p, i, l)
    BY <2>7, CvarWaitStep
  <2>8. CASE \E i \in Id : KernelCvarSignal(p, i) \/ KernelCvarBroadcast(p, i)
    BY <2>8, SignalTakes, BroadcastTakes
  <2>9. CASE \E i \in Id : KernelReclaim(p, i)
    BY <2>9, ReclaimStep
  <2> QED BY <2>1, <2>2, <2>3, <2>4, <2>5, <2>6, <2>7, <2>8, <2>9 DEF Calls
<1> QED BY <1>1, <1>2, <1>3 DEF Next

(***************************************************************************)
(* IInv holds from the boot on, after every system call and every resumed  *)
(* handler.                                                                *)
(***************************************************************************)
THEOREM InductiveInvariant == Spec => []IInv
<1> QED BY InitIInv, NextIInv, PTL DEF Spec

(***************************************************************************)
(* Whatever the processes do with their locks and condition variables,     *)
(* nobody sits on two lists or on none: the release, block and acquire of  *)
(* wait_cvar move every node as a whole.                                   *)
(***************************************************************************)
THEOREM AlwaysOnePlace == Spec => []OnePlace
<1>1. IInv => OnePlace
  BY DEF IInv
<1> QED BY <1>1, InductiveInvariant, PTL

(***************************************************************************)
(* unfulfilled and cvar are exact counts of the processes that a lock has  *)
(* to outlive.                                                             *)
(***************************************************************************)
THEOREM CountersAlwaysExact == Spec => []CountersAreExact
<1>1. IInv => CountersAreExact
  BY DEF IInv
<1> QED BY <1>1, InductiveInvariant, PTL

(***************************************************************************)
(* KernelReclaim never frees a lock under a process inside a call.         *)
(***************************************************************************)
THEOREM NeverUsedAfterDestroy == Spec => []NoUseAfterDestroy
<1>1. IInv => NoUseAfterDestroy
  BY DEF IInv
<1> QED BY <1>1, InductiveInvariant, PTL

(***************************************************************************)
(* A lock that somebody waits for is owned, or a process that release woke *)
(* is on its way to it.                                                    *)
(***************************************************************************)
THEOREM WakeupsAreNotLost == Spec => []NoLostWakeup
<1>1. IInv => NoLostWakeup
  BY DEF IInv
<1> QED BY <1>1, InductiveInvariant, PTL

-----------------------------------------------------------------------------
(***************************************************************************)
(* The refinement of Monitor.  The mode of a process, by the point where   *)
(* it will continue and the list it is on.                                 *)
(***************************************************************************)
ModesAre ==
  /\ modeBar = [p \in Proc |-> modeBar[p]]
  /\ \A p \in Proc :
       /\ pc[p] = "user" => modeBar[p] = <<"user">>
       /\ \A c \in Id : pc[p] = "cvwait" /\ Listed(p, c)
                          => modeBar[p] = <<"asleep", c, want[p]>>
       /\ pc[p] # "user" /\ (pc[p] = "cvwait" => \A c \in Id : ~Listed(p, c))
            => modeBar[p] = <<"enter", want[p]>>

(***************************************************************************)
(* What a process inside a call is to the monitor, read off the place it   *)
(* waits in.                                                               *)
(***************************************************************************)
LEMMA Modes == IInv => ModesAre
<1> SUFFICES ASSUME IInv PROVE ModesAre
  OBVIOUS
<1>1. modeBar = [p \in Proc |-> modeBar[p]]
  BY DEF modeBar
<1>2. ASSUME NEW p \in Proc, NEW c \in Id, pc[p] = "cvwait", Listed(p, c)
      PROVE  modeBar[p] = <<"asleep", c, want[p]>>
  <2>1. c \in SleepsOn(p)
    BY <1>2 DEF SleepsOn
  <2>2. \A d \in SleepsOn(p) : d = c
    BY <1>2, Places DEF SleepsOn, Listed, Separate, TypeOK
  <2>3. (CHOOSE d \in SleepsOn(p) : TRUE) = c
    BY <2>1, <2>2
  <2>4. SleepsOn(p) # {}
    BY <2>1
  <2> QED BY <1>2, <2>3, <2>4 DEF modeBar
<1>3. ASSUME NEW p \in Proc, pc[p] # "user", pc[p] = "cvwait" => \A c \in Id : ~Listed(p, c)
      PROVE  modeBar[p] = <<"enter", want[p]>>
  <2>1. pc[p] = "cvwait" => SleepsOn(p) = {}
    BY <1>3 DEF SleepsOn
  <2> QED BY <1>3, <2>1 DEF modeBar
<1>4. \A p \in Proc : pc[p] = "user" => modeBar[p] = <<"user">>
  BY DEF modeBar
<1> QED BY <1>1, <1>2, <1>3, <1>4 DEF ModesAre

(***************************************************************************)
(* Only the mode of p may differ when nobody else's state does.            *)
(***************************************************************************)
LEMMA OthersKeepTheirMode ==
  ASSUME IInv, ModesAre, ModesAre', NEW q \in Proc, pc'[q] = pc[q], want'[q] = want[q],
         pc[q] = "cvwait" => \A c \in Id : Listed(q, c)' <=> Listed(q, c)
  PROVE  modeBar'[q] = modeBar[q]
<1>1. CASE pc[q] = "user"
  BY <1>1 DEF ModesAre
<1>2. CASE pc[q] = "cvwait" /\ \E c \in Id : Listed(q, c)
  <2>1. PICK c \in Id : Listed(q, c)
    BY <1>2
  <2>2. modeBar[q] = <<"asleep", c, want[q]>>
    BY <1>2, <2>1 DEF ModesAre
  <2>3. modeBar'[q] = <<"asleep", c, want[q]>>
    BY <1>2, <2>1 DEF ModesAre
  <2> QED BY <2>2, <2>3
<1>3. CASE pc[q] # "user" /\ (pc[q] = "cvwait" => \A c \in Id : ~Listed(q, c))
  <2>1. modeBar[q] = <<"enter", want[q]>>
    BY <1>3 DEF ModesAre
  <2>2. modeBar'[q] = <<"enter", want[q]>>
    BY <1>3 DEF ModesAre
  <2> QED BY <2>1, <2>2
<1> QED BY <1>1, <1>2, <1>3

(***************************************************************************)
(* A step that leaves calls, lists and owners alone is not seen by the     *)
(* monitor.                                                                *)
(***************************************************************************)
LEMMA SameMode ==
  ASSUME UNCHANGED <<pc, want, blocked, owner>>
  PROVE  UNCHANGED Abstract!vars
BY DEF Abstract!vars, modeBar, SleepsOn, Listed

(***************************************************************************)
(* acquire enters the monitor, or the process contends for it.             *)
(***************************************************************************)
LEMMA RefineAcquire ==
  ASSUME IInv, ModesAre, ModesAre', NEW p \in Proc, NEW l \in Id, NEW point,
         Acquires(p, l, point)
  PROVE  Abstract!Enter(p, l) \/ Abstract!Contend(p, l) \/ UNCHANGED Abstract!vars
<1>1. /\ running = p
      /\ pc[p] = "user" \/ want[p] = l
      /\ point \in {"acquire", "reacquire"} /\ want' = [want EXCEPT ![p] = l]
  BY DEF Acquires
<1>2. \A i \in Id : ~Listed(p, i)
  BY <1>1, RunnerIsUnlisted DEF Listed
<1>3. pc[p] = "user" \/ modeBar[p] = <<"enter", l>>
  BY <1>1, <1>2 DEF ModesAre
<1>4. pc[p] = "user" => modeBar[p] = <<"user">>
  BY DEF ModesAre
<1>5. want'[p] = l /\ \A q \in Proc : q # p => want'[q] = want[q]
  BY <1>1, Places DEF TypeOK
<1>6. CASE MayTake(p, l)
  <2>1. /\ owner' = [owner EXCEPT ![l] = p] /\ pc' = [pc EXCEPT ![p] = "user"]
        /\ blocked' = blocked
    BY <1>6 DEF Acquires, AcquireLoop, ReturnWith
  <2>2. pc'[p] = "user" /\ \A q \in Proc : q # p => pc'[q] = pc[q]
    BY <2>1, Places DEF TypeOK, SchedTypeOK
  <2>3. modeBar'[p] = <<"user">>
    BY <2>2 DEF ModesAre
  <2>4. \A q \in Proc : q # p => modeBar'[q] = modeBar[q]
    BY <1>5, <2>1, <2>2, OthersKeepTheirMode DEF Listed
  <2>5. modeBar' = [modeBar EXCEPT ![p] = <<"user">>]
    BY <2>3, <2>4 DEF ModesAre
  <2> QED BY <1>3, <1>4, <1>6, <2>1, <2>5
      DEF Abstract!Enter, Abstract!User, Abstract!MayEnter, MayTake
<1>7. CASE ~MayTake(p, l)
  <2>1. /\ owner' = owner /\ pc' = [pc EXCEPT ![p] = point]
        /\ blocked' = [blocked EXCEPT ![l] = Append(@, p)]
    BY <1>7 DEF Acquires, AcquireLoop, BlockAt
  <2>2. pc'[p] = point /\ \A q \in Proc : q # p => pc'[q] = pc[q]
    BY <2>1, Places DEF TypeOK, SchedTypeOK
  <2>3. modeBar'[p] = <<"enter", l>>
    BY <1>1, <1>5, <2>2 DEF ModesAre
  <2>4. \A q \in Proc, i \in Id : q # p => (Listed(q, i)' <=> Listed(q, i))
    <3>1. blocked[l] \in Seq(Proc)
      BY Places DEF TypeOK
    <3>2. IsInjective(blocked[l]) /\ p \notin Range(blocked[l])
      BY <1>2, Places DEF Separate, TypeOK, Listed
    <3> DEFINE s == Append(blocked[l], p)
    <3>3. Range(s) = Range(blocked[l]) \cup {p}
      BY <3>1, <3>2, AppendOnce
    <3>4. blocked' = [blocked EXCEPT ![l] = s]
      BY <2>1
    <3> HIDE DEF s
    <3> QED BY <3>3, <3>4, Places DEF Listed, TypeOK
  <2>5. \A q \in Proc : q # p => modeBar'[q] = modeBar[q]
    BY <1>5, <2>2, <2>4, OthersKeepTheirMode
  <2>6. modeBar' = [modeBar EXCEPT ![p] = <<"enter", l>>]
    BY <2>3, <2>5 DEF ModesAre
  <2>7. CASE pc[p] = "user"
    BY <1>4, <1>7, <2>1, <2>6, <2>7
      DEF Abstract!Contend, Abstract!User, Abstract!MayEnter, MayTake
  <2>8. CASE modeBar[p] = <<"enter", l>>
    <3>1. modeBar' = modeBar
      BY <2>3, <2>5, <2>8 DEF ModesAre
    <3> QED BY <2>1, <3>1 DEF Abstract!vars
  <2> QED BY <1>3, <2>7, <2>8
<1> QED BY <1>6, <1>7

(***************************************************************************)
(* release leaves the monitor.                                             *)
(***************************************************************************)
LEMMA RefineRelease ==
  ASSUME IInv, ModesAre, ModesAre', NEW p \in Proc, NEW l \in Id, KernelRelease(p, l)
  PROVE  Abstract!Leave(p, l)
<1> DEFINE w == WokenByRelease(p, l)
           r == BlockedAfterRelease(p, l)
<1>1. /\ pc[p] = "user" /\ kind[l] = "lock" /\ owner[l] = p
      /\ owner' = [owner EXCEPT ![l] = NoOne]
      /\ blocked' = [blocked EXCEPT ![l] = r]
      /\ pc' = [pc EXCEPT ![p] = "user"] /\ want' = want
  BY DEF KernelRelease, InUser, find_lock, Release, ReturnWith
<1>2. /\ Range(r) = Range(blocked[l]) \ Range(w)
      /\ \A q \in Range(w) : pc[q] \in {"acquire", "reacquire"}
  BY <1>1, ReleaseTakes
<1> HIDE DEF w, r
<1>3. pc' = pc /\ blocked'[l] = r /\ \A i \in Id : i # l => blocked'[i] = blocked[i]
  BY <1>1, Places DEF TypeOK, SchedTypeOK
<1>4. \A q \in Proc : modeBar'[q] = modeBar[q]
  <2>1. \A q \in Proc, i \in Id : pc[q] = "cvwait" => (Listed(q, i)' <=> Listed(q, i))
    BY <1>2, <1>3 DEF Listed
  <2> QED BY <1>1, <1>3, <2>1, OthersKeepTheirMode
<1>5. modeBar' = modeBar
  BY <1>4 DEF ModesAre
<1>6. modeBar[p] = <<"user">>
  BY <1>1 DEF ModesAre
<1> QED BY <1>1, <1>5, <1>6 DEF Abstract!Leave, Abstract!User

(***************************************************************************)
(* CvarWait leaves the monitor and sleeps, in one step.                    *)
(***************************************************************************)
LEMMA RefineCvarWait ==
  ASSUME IInv, ModesAre, ModesAre', NEW p \in Proc, NEW c \in Id, NEW l \in Id,
         KernelCvarWait(p, c, l)
  PROVE  Abstract!Sleep(p, c, l)
<1> DEFINE w == WokenByRelease(p, l)
           r == BlockedAfterRelease(p, l)
           s == Append(blocked[c], p)
<1>1. /\ running = p /\ pc[p] = "user" /\ kind[l] = "lock" /\ c # l
      /\ owner' = [owner EXCEPT ![l] = IF @ = p THEN NoOne ELSE @]
      /\ blocked' = [blocked EXCEPT ![l] = r, ![c] = Append(@, p)]
      /\ pc' = [pc EXCEPT ![p] = "cvwait"] /\ want' = [want EXCEPT ![p] = l]
  BY DEF KernelCvarWait, InUser, find_lock, find_cvar, Release, BlockAt
<1>2. /\ Range(r) = Range(blocked[l]) \ Range(w)
      /\ \A q \in Range(w) : pc[q] \in {"acquire", "reacquire"}
  BY <1>1, ReleaseTakes
<1> HIDE DEF w, r
<1>3. Range(s) = Range(blocked[c]) \cup {p}
  <2>1. blocked[c] \in Seq(Proc) /\ p \notin Range(blocked[c])
    BY <1>1, RunnerIsUnlisted
  <2>2. IsInjective(blocked[c])
    BY Places DEF Separate, TypeOK
  <2> QED BY <2>1, <2>2, AppendOnce
<1>4. /\ blocked'[l] = r /\ blocked'[c] = s
      /\ \A i \in Id : i # l /\ i # c => blocked'[i] = blocked[i]
  BY <1>1, Places DEF TypeOK
<1> HIDE DEF s
<1>5. /\ pc'[p] = "cvwait" /\ want'[p] = l
      /\ \A q \in Proc : q # p => pc'[q] = pc[q] /\ want'[q] = want[q]
  BY <1>1, Places DEF TypeOK, SchedTypeOK
<1>6. modeBar'[p] = <<"asleep", c, l>>
  <2>1. Listed(p, c)'
    BY <1>3, <1>4 DEF Listed
  <2> QED BY <1>5, <2>1 DEF ModesAre
<1>7. \A q \in Proc : q # p => modeBar'[q] = modeBar[q]
  <2>1. \A q \in Proc, i \in Id :
          q # p /\ pc[q] = "cvwait" => (Listed(q, i)' <=> Listed(q, i))
    BY <1>2, <1>3, <1>4 DEF Listed
  <2> QED BY <1>5, <2>1, OthersKeepTheirMode
<1>8. modeBar' = [modeBar EXCEPT ![p] = <<"asleep", c, l>>]
  BY <1>6, <1>7 DEF ModesAre
<1>9. modeBar[p] = <<"user">>
  BY <1>1 DEF ModesAre
<1> QED BY <1>1, <1>8, <1>9 DEF Abstract!Sleep, Abstract!User

(***************************************************************************)
(* signal_cvar and broadcast wake sleepers, if there are any.              *)
(***************************************************************************)
LEMMA RefineWake ==
  ASSUME IInv, ModesAre, ModesAre', NEW c \in Id, NEW W, W # {},
         Taken(blocked, blocked', c, W), \A q \in W : pc[q] = "cvwait",
         UNCHANGED <<pc, want, owner>>
  PROVE  Abstract!Wake(W, c)
<1>1. /\ W \subseteq Range(blocked[c]) /\ Range(blocked'[c]) = Range(blocked[c]) \ W
      /\ \A i \in Id : i # c => blocked'[i] = blocked[i]
  BY Places DEF Taken, ChangedAt, TypeOK
<1>2. W \subseteq Proc
  BY <1>1, Places
<1>3. \A q \in W : modeBar[q] = <<"asleep", c, want[q]>> /\ want[q] \in Id
  BY <1>1, <1>2, Places DEF ModesAre, Listed, TypeOK
<1>4. \A q \in W : modeBar'[q] = <<"enter", want[q]>>
  <2>1. ASSUME NEW q \in W, NEW i \in Id PROVE ~Listed(q, i)'
    <3>1. CASE i = c
      BY <1>1, <3>1 DEF Listed
    <3>2. CASE i # c
      BY <1>1, <3>2, Places DEF Listed, Separate, TypeOK
    <3> QED BY <3>1, <3>2
  <2> QED BY <1>2, <2>1 DEF ModesAre
<1>5. \A q \in Proc : q \notin W => modeBar'[q] = modeBar[q]
  <2>1. \A q \in Proc, i \in Id : q \notin W => (Listed(q, i)' <=> Listed(q, i))
    BY <1>1 DEF Listed
  <2> QED BY <2>1, OthersKeepTheirMode
<1>6. \A q \in W : modeBar[q][3] = want[q]
  BY <1>3
<1>7. modeBar' = [q \in Proc |-> IF q \in W THEN <<"enter", modeBar[q][3]>> ELSE modeBar[q]]
  <2>1. \A q \in Proc :
          modeBar'[q] = IF q \in W THEN <<"enter", modeBar[q][3]>> ELSE modeBar[q]
    BY <1>4, <1>5, <1>6
  <2> QED BY <2>1 DEF ModesAre
<1>8. W \subseteq Abstract!Sleepers(c)
  BY <1>2, <1>3 DEF Abstract!Sleepers
<1> QED BY <1>7, <1>8 DEF Abstract!Wake

(***************************************************************************)
(* CvarSignal ends the sleep of one process, or of none.                   *)
(***************************************************************************)
LEMMA RefineSignal ==
  ASSUME IInv, ModesAre, ModesAre', NEW p \in Proc, NEW c \in Id, KernelCvarSignal(p, c)
  PROVE  (\E q \in Proc : Abstract!Wake({q}, c)) \/ UNCHANGED Abstract!vars
<1>1. UNCHANGED <<pc, want, owner>> /\ blocked' = [blocked EXCEPT ![c] = RestOf(@)]
  BY Places DEF KernelCvarSignal, InUser, ReturnWith, TypeOK, SchedTypeOK
<1>2. CASE blocked[c] = <<>>
  <2>1. blocked' = blocked
    BY <1>1, <1>2, Places DEF RestOf, TypeOK
  <2> QED BY <1>1, <2>1, SameMode
<1>3. CASE blocked[c] # <<>>
  <2> DEFINE q == Head(blocked[c])
  <2>1. Range(HeadOf(blocked[c])) = {q}
    BY <1>3, ShortOnce DEF HeadOf
  <2>2. q \in Proc
    BY <1>3, Places, HeadTailProperties DEF TypeOK
  <2> HIDE DEF q
  <2> DEFINE W == {q}
  <2>3. Taken(blocked, blocked', c, W) /\ \A x \in W : pc[x] = "cvwait"
    BY <2>1, SignalTakes
  <2>4. W # {}
    OBVIOUS
  <2> HIDE DEF W
  <2>5. Abstract!Wake(W, c)
    BY <1>1, <2>3, <2>4, RefineWake
  <2> QED BY <2>2, <2>5 DEF W
<1> QED BY <1>2, <1>3

(***************************************************************************)
(* CvarBroadcast ends the sleep of all processes on the condition          *)
(* variable.                                                               *)
(***************************************************************************)
LEMMA RefineBroadcast ==
  ASSUME IInv, ModesAre, ModesAre', NEW p \in Proc, NEW c \in Id, KernelCvarBroadcast(p, c)
  PROVE  Abstract!Wake(Abstract!Sleepers(c), c) \/ UNCHANGED Abstract!vars
<1>1. UNCHANGED <<pc, want, owner>> /\ blocked' = [blocked EXCEPT ![c] = <<>>]
  BY Places DEF KernelCvarBroadcast, InUser, ReturnWith, TypeOK, SchedTypeOK
<1>2. CASE blocked[c] = <<>>
  <2>1. blocked' = blocked
    BY <1>1, <1>2, Places DEF TypeOK
  <2> QED BY <1>1, <2>1, SameMode
<1>3. CASE blocked[c] # <<>>
  <2>1. Taken(blocked, blocked', c, Range(blocked[c]))
        /\ \A q \in Range(blocked[c]) : pc[q] = "cvwait"
    BY BroadcastTakes
  <2>2. Range(blocked[c]) # {}
    BY <1>3, Places, NonemptyRange DEF TypeOK
  <2>3. Range(blocked[c]) = Abstract!Sleepers(c)
    <3>1. ASSUME NEW q \in Range(blocked[c]) PROVE q \in Abstract!Sleepers(c)
      <4>1. q \in Proc /\ want[q] \in Id
        BY Places DEF TypeOK
      <4>2. modeBar[q] = <<"asleep", c, want[q]>>
        BY <2>1, <4>1 DEF ModesAre, Listed
      <4> QED BY <4>1, <4>2 DEF Abstract!Sleepers
    <3>2. ASSUME NEW q \in Abstract!Sleepers(c) PROVE q \in Range(blocked[c])
      <4>1. PICK l \in Id : q \in Proc /\ modeBar[q] = <<"asleep", c, l>>
        BY <3>2 DEF Abstract!Sleepers
      <4>2. pc[q] = "cvwait" /\ \E d \in Id : Listed(q, d)
        BY <4>1 DEF ModesAre
      <4>3. PICK d \in Id : Listed(q, d)
        BY <4>2
      <4>4. modeBar[q] = <<"asleep", d, want[q]>>
        BY <4>1, <4>2, <4>3 DEF ModesAre
      <4>5. d = c
        BY <4>1, <4>4
      <4> QED BY <4>3, <4>5 DEF Listed
    <3> QED BY <3>1, <3>2
  <2>4. Abstract!Wake(Range(blocked[c]), c)
    BY <1>1, <2>1, <2>2, RefineWake
  <2> QED BY <2>3, <2>4
<1> QED BY <1>2, <1>3

(***************************************************************************)
(* The kernel's locks and condition variables are a monitor: a lock has at *)
(* most one holder, acquire and CvarWait return to a process only with the *)
(* lock, and CvarWait gives the lock up and falls asleep in one step, for  *)
(* every number of processes, locks and condition variables.               *)
(***************************************************************************)
THEOREM IsMonitor == Spec => ImplementsMonitor
<1>1. Init => Abstract!Init
  BY DEF Init, SchedInit, Abstract!Init, Abstract!User, modeBar
<1>2. IInv /\ ModesAre /\ ModesAre' /\ [Next]_vars => [Abstract!Next]_(Abstract!vars)
  <2> SUFFICES ASSUME IInv, ModesAre, ModesAre', [Next]_vars
               PROVE  [Abstract!Next]_(Abstract!vars)
    OBVIOUS
  <2>1. CASE UNCHANGED vars
    BY <2>1, SameMode DEF vars, schedVars, objVars
  <2>2. CASE TrapClock
    BY <2>2, SameMode DEF TrapClock, ClockTick, objVars
  <2>3. CASE \E p \in Proc : Calls(p) \/ Resume(p)
    <3>1. PICK p \in Proc : Calls(p) \/ Resume(p)
      BY <2>3
    <3>2. CASE KernelLockInit(p) \/ KernelCvarInit(p)
      BY <3>2, InitObjectStep, SameMode
    <3>3. CASE KernelExit(p)
      BY <3>3, SameMode DEF KernelExit, objVars
    <3>4. CASE KernelFork(p)
      <4>1. pc' = pc
        BY <3>4, Places DEF KernelFork, InUser, ReturnWith, TypeOK, SchedTypeOK
      <4> QED BY <3>4, <4>1, SameMode DEF KernelFork, objVars
    <3>5. CASE (\E l \in Id : KernelAcquire(p, l)) \/ Resume(p)
      <4>1. want[p] \in Id
        BY Places DEF TypeOK
      <4>2. PICK l \in Id, point \in {"acquire", "reacquire"} : Acquires(p, l, point)
        BY <3>5, <4>1, AcquireIsAcquires DEF Resume
      <4>3. Abstract!Enter(p, l) \/ Abstract!Contend(p, l) \/ UNCHANGED Abstract!vars
        BY <4>2, RefineAcquire
      <4> QED BY <4>3 DEF Abstract!Next
    <3>6. CASE \E l \in Id : KernelRelease(p, l)
      BY <3>6, RefineRelease DEF Abstract!Next
    <3>7. CASE \E c, l \in Id : KernelCvarWait(p, c, l)
      BY <3>7, RefineCvarWait DEF Abstract!Next
    <3>8. CASE \E c \in Id : KernelCvarSignal(p, c)
      BY <3>8, RefineSignal DEF Abstract!Next
    <3>9. CASE \E c \in Id : KernelCvarBroadcast(p, c)
      BY <3>9, RefineBroadcast DEF Abstract!Next
    <3>10. CASE \E i \in Id : KernelReclaim(p, i)
      BY <3>10, SameMode DEF KernelReclaim, schedVars
    <3> QED BY <3>1, <3>2, <3>3, <3>4, <3>5, <3>6, <3>7, <3>8, <3>9, <3>10 DEF Calls
  <2> QED BY <2>1, <2>2, <2>3 DEF Next
<1> QED BY <1>1, <1>2, InductiveInvariant, Modes, PTL DEF Spec, ImplementsMonitor, Abstract!Spec

=============================================================================
