----------------------------- MODULE PipeProofs -----------------------------
(***************************************************************************)
(* Proofs about pipes: no process is lost or sits on two lists, the        *)
(* promises that guard destroy_pipe are exact, no pipe is freed under a    *)
(* process inside a call, writers wait for a full pipe only and readers    *)
(* for an empty pipe or a writer -- for every number of processes and of   *)
(* pipes, every size of the buffer and every length.                       *)
(***************************************************************************)
EXTENDS Pipe, SchedulingProofs

(***************************************************************************)
(* Who is on a list of a pipe is inside the call of that pipe that uses    *)
(* the list.                                                               *)
(***************************************************************************)
WaitsWhereItSays ==
  \A k \in {"read", "write"}, i \in Id :
    \A p \in Range(WaitingLists[<<k, i>>]) : pc[p] = k /\ call[p].pipe = i

(***************************************************************************)
(* Identifiers not handed out yet name empty pipes.                        *)
(***************************************************************************)
FreshIds ==
  \A i \in Id :
    i >= count => filled[i] = 0 /\ readblocked[i] = <<>> /\ writeblocked[i] = <<>>

(***************************************************************************)
(* A writer that has blocked has something left to write, never more than  *)
(* it was called with, and a reader wants something.                       *)
(***************************************************************************)
CallsInBounds ==
  \A p \in Proc :
    /\ pc[p] = "write" => 0 < call[p].left /\ call[p].left <= call[p].len
    /\ pc[p] = "read" => 0 < call[p].len

(***************************************************************************)
(* The inductive invariant.                                                *)
(***************************************************************************)
IInv ==
  /\ OnePlace
  /\ WaitsWhereItSays
  /\ FreshIds
  /\ CallsInBounds
  /\ PromisesAreExact
  /\ NoUseAfterDestroy
  /\ WritersWaitForSpace
  /\ ReadersWaitForWriters


-----------------------------------------------------------------------------
(***************************************************************************)
(* WaitingLists is another view of the two variables.                      *)
(***************************************************************************)
LEMMA ListsAre ==
  /\ DOMAIN WaitingLists = {"read", "write"} \X Id
  /\ \A i \in Id : /\ WaitingLists[<<"read", i>>] = readblocked[i]
                   /\ WaitingLists[<<"write", i>>] = writeblocked[i]
  /\ DOMAIN WaitingLists' = {"read", "write"} \X Id
  /\ \A i \in Id : /\ WaitingLists'[<<"read", i>>] = readblocked'[i]
                   /\ WaitingLists'[<<"write", i>>] = writeblocked'[i]
BY DEF WaitingLists

(***************************************************************************)
(* A step of read_pipe or write_pipe that changes one list of one pipe.    *)
(***************************************************************************)
LEMMA OneListChanges ==
  ASSUME NEW i \in Id
  PROVE  /\ /\ UNCHANGED writeblocked
            /\ \A j \in Id : j # i => readblocked'[j] = readblocked[j]
            => ChangedAt(WaitingLists, WaitingLists', <<"read", i>>)
         /\ /\ UNCHANGED readblocked
            /\ \A j \in Id : j # i => writeblocked'[j] = writeblocked[j]
            => ChangedAt(WaitingLists, WaitingLists', <<"write", i>>)
<1>1. ASSUME UNCHANGED writeblocked, \A j \in Id : j # i => readblocked'[j] = readblocked[j]
      PROVE  ChangedAt(WaitingLists, WaitingLists', <<"read", i>>)
  BY <1>1 DEF ChangedAt, WaitingLists
<1>2. ASSUME UNCHANGED readblocked, \A j \in Id : j # i => writeblocked'[j] = writeblocked[j]
      PROVE  ChangedAt(WaitingLists, WaitingLists', <<"write", i>>)
  BY <1>2 DEF ChangedAt, WaitingLists
<1> QED BY <1>1, <1>2

(***************************************************************************)
(* Where everybody is.                                                     *)
(***************************************************************************)
LEMMA Places ==
  ASSUME IInv
  PROVE  /\ TypeOK /\ running \in Proc \cup {Idle} /\ ready \in Seq(Proc)
         /\ RunnableOnce /\ Separate(WaitingLists, Runnable)
         /\ Proc = Runnable \cup Queued(WaitingLists)
         /\ \A i \in Id : /\ readblocked[i] \in Seq(Proc) /\ IsInjective(readblocked[i])
                          /\ writeblocked[i] \in Seq(Proc) /\ IsInjective(writeblocked[i])
<1>1. TypeOK /\ QueuedOnce(WaitingLists) /\ Proc = Runnable \cup Queued(WaitingLists)
  BY DEF IInv, OnePlace
<1>2. RunnableOnce /\ Separate(WaitingLists, Runnable)
  BY <1>1, QueuedOnceIsSeparate
<1>3. \A i \in Id : IsInjective(readblocked[i]) /\ IsInjective(writeblocked[i])
  BY <1>2, ListsAre DEF Separate
<1> QED BY <1>1, <1>2, <1>3 DEF TypeOK, SchedTypeOK

(***************************************************************************)
(* OnePlace of the next state, from what the lemmas of SchedulingProofs    *)
(* say of a step.                                                          *)
(***************************************************************************)
LEMMA OnePlaceAgain ==
  ASSUME TypeOK', RunnableOnce', Separate(WaitingLists', Runnable'),
         Proc = Runnable' \cup Queued(WaitingLists')
  PROVE  OnePlace'
BY DEF OnePlace, QueuedOnce, Separate, Queued

(***************************************************************************)
(* The process that runs is on no list.                                    *)
(***************************************************************************)
LEMMA RunnerIsUnlisted ==
  ASSUME IInv, NEW p \in Proc, running = p
  PROVE  /\ \A i \in Id : ~Listed(p, i)
         /\ \A l \in DOMAIN WaitingLists : p \notin Range(WaitingLists[l])
<1>1. p \in Runnable
  BY IdleAssumption DEF Runnable
<1>2. \A l \in DOMAIN WaitingLists : p \notin Range(WaitingLists[l])
  BY <1>1, Places DEF Separate
<1> QED BY <1>2, ListsAre DEF Listed

(***************************************************************************)
(* A pipe that exists has an identifier that was handed out.               *)
(***************************************************************************)
LEMMA NotHandedOut ==
  ASSUME IInv, NEW i \in exists
  PROVE  \A j \in Id : j >= count => j # i
<1>1. TypeOK
  BY Places
<1>2. count \in Int /\ i \in 0..(count - 1)
  BY <1>1, PipeAssumption DEF TypeOK
<1> QED BY <1>2 DEF Id

(***************************************************************************)
(* The processes that unfulfilled counts are a finite set.                 *)
(***************************************************************************)
LEMMA Counted ==
  ASSUME IInv
  PROVE  \A i \in Id : Limbo(i) \in SUBSET Proc /\ unfulfilled[i] = Cardinality(Limbo(i))
BY DEF IInv, PromisesAreExact, Limbo

-----------------------------------------------------------------------------
LEMMA InitIInv == Init => IInv
<1> SUFFICES ASSUME Init PROVE IInv
  OBVIOUS
<1>1. /\ running \in Proc /\ ready \in Seq(Proc) /\ pc = [p \in Proc |-> "user"]
      /\ RunnableOnce /\ Runnable = Proc
  BY SchedInitOnce DEF Init
<1>2. 0 \in Id /\ MaxId \in Nat /\ Size \in Nat
  BY PipeAssumption DEF Id
<1>3. TypeOK
  BY <1>1, <1>2, EmptySeq DEF Init, TypeOK, SchedTypeOK, Call
<1>4. \A l \in DOMAIN WaitingLists : WaitingLists[l] = <<>>
  BY DEF WaitingLists, Init
<1>5. Separate(WaitingLists, Runnable) /\ Queued(WaitingLists) = {}
  <2>1. Range(<<>>) = {} /\ IsInjective(<<>>)
    BY ShortOnce
  <2>2. Separate(WaitingLists, Runnable)
    BY <1>4, <2>1 DEF Separate
  <2>3. Queued(WaitingLists) = {}
    BY <1>4, <2>1 DEF Queued
  <2> QED BY <2>2, <2>3
<1>6. OnePlace
  <2>1. QueuedOnce(WaitingLists)
    BY <1>1, <1>5, QueuedOnceIsSeparate
  <2> QED BY <1>1, <1>3, <1>5, <2>1 DEF OnePlace
<1>7. WaitsWhereItSays
  BY <1>4, ShortOnce, ListsAre DEF WaitsWhereItSays
<1>8. FreshIds /\ CallsInBounds
  BY <1>1 DEF Init, FreshIds, CallsInBounds
<1>9. PromisesAreExact
  <2>1. \A i \in Id : Limbo(i) = {}
    BY <1>1 DEF Limbo
  <2>2. Cardinality({}) = 0
    BY FS_EmptySet
  <2> QED BY <2>1, <2>2 DEF PromisesAreExact, Init
<1>10. NoUseAfterDestroy /\ WritersWaitForSpace /\ ReadersWaitForWriters
  BY <1>1 DEF Init, NoUseAfterDestroy, WritersWaitForSpace, ReadersWaitForWriters
<1> QED BY <1>6, <1>7, <1>8, <1>9, <1>10 DEF IInv

(***************************************************************************)
(* What depends on nothing but the pipes and the calls in progress.        *)
(***************************************************************************)
LEMMA SamePipes ==
  ASSUME IInv, OnePlace', UNCHANGED <<pipeVars, pc, call>>
  PROVE  IInv'
<1>1. \A i \in Id : Limbo(i)' = Limbo(i) /\ Writing(i)' = Writing(i)
  BY DEF Limbo, Listed, Writing, pipeVars
<1>2. PromisesAreExact' /\ ReadersWaitForWriters'
  BY <1>1 DEF IInv, PromisesAreExact, ReadersWaitForWriters, pipeVars
<1>3. WaitsWhereItSays'
  <2>1. WaitingLists' = WaitingLists
    BY DEF WaitingLists, pipeVars
  <2> QED BY <2>1 DEF IInv, WaitsWhereItSays
<1>4. FreshIds' /\ CallsInBounds' /\ NoUseAfterDestroy' /\ WritersWaitForSpace'
  BY DEF IInv, FreshIds, CallsInBounds, NoUseAfterDestroy, WritersWaitForSpace, pipeVars
<1> QED BY <1>2, <1>3, <1>4 DEF IInv

LEMMA ClockStep == IInv /\ TrapClock => IInv'
<1> SUFFICES ASSUME IInv, TrapClock PROVE IInv'
  OBVIOUS
<1>1. RRPreempt(ready) /\ UNCHANGED <<pc, pipeVars, call>>
  BY DEF TrapClock, ClockTick
<1>2. /\ running' \in Proc \cup {Idle} /\ ready' \in Seq(Proc)
      /\ RunnableOnce' /\ Runnable' = Runnable
  BY <1>1, Places, TickKeepsPlaces
<1>3. WaitingLists' = WaitingLists
  BY <1>1 DEF WaitingLists, pipeVars
<1>4. TypeOK'
  BY <1>1, <1>2, Places DEF TypeOK, SchedTypeOK, pipeVars
<1>5. OnePlace'
  BY <1>2, <1>3, <1>4, Places, OnePlaceAgain
<1> QED BY <1>1, <1>5, SamePipes

(***************************************************************************)
(* KernelPipeInit: nobody knows the new identifier.                        *)
(***************************************************************************)
LEMMA PipeInitStep ==
  ASSUME IInv, NEW p \in Proc, KernelPipeInit(p)
  PROVE  IInv'
<1> DEFINE n == count
<1>1. /\ n < MaxId /\ count' = n + 1 /\ UNCHANGED <<schedVars, call>> /\ new_pipe(n)
  BY DEF KernelPipeInit, new_id
<1>2. n \in Id /\ count' \in 0..MaxId /\ MaxId \in Nat /\ n \in Nat /\ exists \subseteq 0..(n - 1)
  <2>1. MaxId \in Nat /\ n \in 0..MaxId /\ exists \subseteq 0..(n - 1)
    BY Places, PipeAssumption DEF TypeOK
  <2> HIDE DEF n
  <2> QED BY <1>1, <2>1 DEF Id
<1>3. filled[n] = 0 /\ readblocked[n] = <<>> /\ writeblocked[n] = <<>>
  BY <1>2 DEF IInv, FreshIds
<1>4. unfulfilled[n] = 0
  <2>1. n \notin exists
    BY <1>2
  <2>2. Limbo(n) = {}
    BY <2>1 DEF IInv, NoUseAfterDestroy, Limbo
  <2> QED BY <1>2, <2>2, Counted, FS_EmptySet
<1> HIDE DEF n
<1>5. UNCHANGED <<filled, readblocked, writeblocked, unfulfilled>> /\ exists' = exists \cup {n}
  BY <1>1, <1>2, <1>3, <1>4, Places DEF new_pipe, TypeOK
<1>6. UNCHANGED <<running, ready, pc, call>>
  BY <1>1 DEF schedVars
<1>7. WaitingLists' = WaitingLists
  BY <1>5 DEF WaitingLists
<1>8. OnePlace'
  <2>1. exists' \subseteq 0..(count' - 1)
    BY <1>1, <1>2, <1>5
  <2>2. TypeOK'
    BY <1>2, <1>5, <1>6, <2>1, Places DEF TypeOK, SchedTypeOK
  <2>3. Runnable' = Runnable /\ RunnableOnce'
    BY <1>6, Places DEF Runnable, RunnableOnce
  <2> QED BY <1>7, <2>2, <2>3, Places, OnePlaceAgain
<1>9. \A i \in Id : Limbo(i)' = Limbo(i) /\ Writing(i)' = Writing(i)
  BY <1>5, <1>6 DEF Limbo, Listed, Writing
<1>10. PromisesAreExact' /\ ReadersWaitForWriters'
  BY <1>5, <1>9 DEF IInv, PromisesAreExact, ReadersWaitForWriters
<1>11. FreshIds'
  <2>1. \A i \in Id : i >= count' => i >= count
    BY <1>1, <1>2 DEF Id, n
  <2> QED BY <1>5, <2>1 DEF IInv, FreshIds
<1>12. WaitsWhereItSays' /\ CallsInBounds' /\ NoUseAfterDestroy' /\ WritersWaitForSpace'
  BY <1>5, <1>6, <1>7 DEF IInv, WaitsWhereItSays, CallsInBounds, NoUseAfterDestroy,
     WritersWaitForSpace
<1> QED BY <1>8, <1>10, <1>11, <1>12 DEF IInv

(***************************************************************************)
(* KernelReclaim: a pipe that passes the test of destroy_pipe is used by   *)
(* nobody, because the promises are exact.                                 *)
(***************************************************************************)
LEMMA ReclaimStep ==
  ASSUME IInv, NEW p \in Proc, NEW i \in Id, KernelReclaim(p, i)
  PROVE  IInv'
<1>1. /\ exists' = exists \ {i} /\ Destructible(i)
      /\ UNCHANGED <<schedVars, count, filled, readblocked, writeblocked, unfulfilled, call>>
  BY DEF KernelReclaim, destroy_pipe
<1>2. UNCHANGED <<running, ready, pc>>
  BY <1>1 DEF schedVars
<1>3. \A q \in Proc : pc[q] # "user" => call[q].pipe # i
  <2>1. unfulfilled[i] = 0 /\ readblocked[i] = <<>> /\ writeblocked[i] = <<>>
    BY <1>1, Places DEF Destructible, TypeOK
  <2>2. Limbo(i) = {}
    BY <2>1, Counted, CountOfProcs
  <2>3. Range(readblocked[i]) = {} /\ Range(writeblocked[i]) = {}
    BY <2>1, ShortOnce
  <2> QED BY <2>2, <2>3 DEF Limbo, Listed
<1>4. WaitingLists' = WaitingLists
  BY <1>1 DEF WaitingLists
<1>5. OnePlace'
  <2>1. TypeOK'
    BY <1>1, <1>2, Places DEF TypeOK, SchedTypeOK
  <2>2. Runnable' = Runnable /\ RunnableOnce'
    BY <1>2, Places DEF Runnable, RunnableOnce
  <2> QED BY <1>4, <2>1, <2>2, Places, OnePlaceAgain
<1>6. \A j \in Id : Limbo(j)' = Limbo(j) /\ Writing(j)' = Writing(j)
  BY <1>1, <1>2 DEF Limbo, Listed, Writing
<1>7. PromisesAreExact' /\ ReadersWaitForWriters'
  BY <1>1, <1>6 DEF IInv, PromisesAreExact, ReadersWaitForWriters
<1>8. WaitsWhereItSays' /\ CallsInBounds' /\ FreshIds' /\ WritersWaitForSpace'
  BY <1>1, <1>2, <1>4 DEF IInv, WaitsWhereItSays, CallsInBounds, FreshIds, WritersWaitForSpace
<1>9. NoUseAfterDestroy'
  BY <1>1, <1>2, <1>3 DEF IInv, NoUseAfterDestroy
<1> QED BY <1>5, <1>7, <1>8, <1>9 DEF IInv

-----------------------------------------------------------------------------
(***************************************************************************)
(* p runs in a call of pipe i: it has just trapped into it, or it has been *)
(* woken and its promise is fulfilled.                                     *)
(***************************************************************************)
Inside(p, i, promise) ==
  /\ running = p /\ i \in exists
  /\ promise = IF pc[p] = "user" THEN 0 ELSE 1
  /\ pc[p] # "user" => call[p].pipe = i

(***************************************************************************)
(* One promise of pipe i, or none, is fulfilled, and n are given.          *)
(***************************************************************************)
Settled(i, promise, n) == unfulfilled' = [unfulfilled EXCEPT ![i] = @ - promise + n]

(***************************************************************************)
(* The promises after p has looked at the pipe and woken those of W.       *)
(***************************************************************************)
LEMMA PromisesAgain ==
  ASSUME IInv, NEW p \in Proc, NEW i \in Id, NEW promise, Inside(p, i, promise),
         NEW W \in SUBSET Proc, W \cap Limbo(i) = {}, p \notin W,
         Limbo(i)' = (Limbo(i) \ {p}) \cup W,
         \A j \in Id : j # i => Limbo(j)' = Limbo(j),
         Settled(i, promise, Cardinality(W))
  PROVE  PromisesAreExact' /\ unfulfilled' \in [Id -> Nat]
<1>1. p \in Limbo(i) <=> promise = 1
  BY RunnerIsUnlisted DEF Inside, Limbo
<1>2. promise \in {0, 1}
  BY DEF Inside
<1>3. Cardinality(Limbo(i) \ {p}) = unfulfilled[i] - promise
  <2>1. CASE promise = 1
    BY <1>1, <2>1, Counted, CountOfProcs
  <2>2. CASE promise = 0
    <3>1. Limbo(i) \ {p} = Limbo(i)
      BY <1>1, <2>2
    <3>2. unfulfilled[i] - 0 = unfulfilled[i]
      BY Places DEF TypeOK
    <3>3. Cardinality(Limbo(i)) = unfulfilled[i]
      BY Counted
    <3> QED BY <2>2, <3>1, <3>2, <3>3
  <2> QED BY <1>2, <2>1, <2>2
<1>4. Cardinality(Limbo(i)') = unfulfilled[i] - promise + Cardinality(W)
  <2> DEFINE L == Limbo(i) \ {p}
  <2>1. L \in SUBSET Proc /\ L \cap W = {}
    BY Counted
  <2>2. Cardinality(L \cup W) = Cardinality(L) + Cardinality(W)
    BY <2>1, CountOfUnion
  <2> QED BY <1>3, <2>2
<1>5. unfulfilled \in [Id -> Nat]
  BY Places DEF TypeOK
<1>6. \A j \in Id : unfulfilled'[j] = Cardinality(Limbo(j)')
  BY <1>4, <1>5, Counted DEF Settled
<1>7. \A j \in Id : Limbo(j)' \in SUBSET Proc
  BY DEF Limbo
<1>8. \A j \in Id : unfulfilled'[j] \in Nat
  BY <1>6, <1>7, CountOfProcs
<1> QED BY <1>5, <1>6, <1>8 DEF PromisesAreExact, Settled

(***************************************************************************)
(* p blocks in a call of pipe i, on the list the call uses.                *)
(***************************************************************************)
LEMMA BlockInCall ==
  ASSUME IInv, NEW p \in Proc, NEW i \in Id, NEW promise, Inside(p, i, promise),
         NEW k \in {"read", "write"}, BlockAt(p, k, ready),
         Joined(WaitingLists, WaitingLists', <<k, i>>, p),
         readblocked' \in [Id -> Seq(Proc)], writeblocked' \in [Id -> Seq(Proc)],
         NEW d \in Call, d.pipe = i, call' = [call EXCEPT ![p] = d],
         k = "write" => 0 < d.left /\ d.left <= d.len,
         k = "read" => 0 < d.len,
         filled' \in [Id -> 0..Size], \A j \in Id : j # i => filled'[j] = filled[j],
         Settled(i, promise, 0), UNCHANGED <<count, exists>>
  PROVE  /\ OnePlace' /\ WaitsWhereItSays' /\ FreshIds' /\ CallsInBounds'
         /\ PromisesAreExact' /\ NoUseAfterDestroy'
         /\ pc'[p] = k /\ call'[p] = d
         /\ \A q \in Proc : q # p => pc'[q] = pc[q] /\ call'[q] = call[q]
<1>1. /\ pc' = [pc EXCEPT ![p] = k] /\ RunNextReady(ready) /\ running = p /\ i \in exists
      /\ pc[p] # "user" => call[p].pipe = i
  BY DEF BlockAt, Inside
<1>2. /\ pc'[p] = k /\ call'[p] = d
      /\ \A q \in Proc : q # p => pc'[q] = pc[q] /\ call'[q] = call[q]
  BY <1>1, Places DEF TypeOK, SchedTypeOK
<1>3. /\ running' \in Proc \cup {Idle} /\ ready' \in Seq(Proc)
      /\ RunnableOnce' /\ Separate(WaitingLists', Runnable')
      /\ Proc = Runnable' \cup Queued(WaitingLists')
  BY <1>1, Places, BlockKeepsPlaces
<1>4. /\ \A l \in DOMAIN WaitingLists : l # <<k, i>> => WaitingLists'[l] = WaitingLists[l]
      /\ Range(WaitingLists'[<<k, i>>]) = Range(WaitingLists[<<k, i>>]) \cup {p}
  BY DEF Joined, ChangedAt
<1>5. \A l \in DOMAIN WaitingLists : p \notin Range(WaitingLists[l])
  BY <1>1, RunnerIsUnlisted
<1>6. \A q \in Proc, j \in Id : Listed(q, j)' <=> Listed(q, j) \/ (q = p /\ j = i)
  <2>1. CASE k = "read"
    <3>1. /\ Range(readblocked'[i]) = Range(readblocked[i]) \cup {p}
          /\ \A j \in Id : j # i => readblocked'[j] = readblocked[j]
      BY <1>4, <2>1, ListsAre
    <3>2. \A j \in Id : writeblocked'[j] = writeblocked[j]
      BY <1>4, <2>1, ListsAre
    <3> QED BY <3>1, <3>2 DEF Listed
  <2>2. CASE k = "write"
    <3>1. /\ Range(writeblocked'[i]) = Range(writeblocked[i]) \cup {p}
          /\ \A j \in Id : j # i => writeblocked'[j] = writeblocked[j]
      BY <1>4, <2>2, ListsAre
    <3>2. \A j \in Id : readblocked'[j] = readblocked[j]
      BY <1>4, <2>2, ListsAre
    <3> QED BY <3>1, <3>2 DEF Listed
  <2> QED BY <2>1, <2>2
<1>7. /\ Limbo(i)' = Limbo(i) \ {p}
      /\ \A j \in Id : j # i => Limbo(j)' = Limbo(j)
  BY <1>1, <1>2, <1>6 DEF Limbo
<1>8. PromisesAreExact' /\ unfulfilled' \in [Id -> Nat]
  <2> DEFINE W == {}
  <2>1. Settled(i, promise, Cardinality(W))
    BY FS_EmptySet
  <2>2. W \in SUBSET Proc /\ W \cap Limbo(i) = {} /\ p \notin W
    OBVIOUS
  <2>3. Limbo(i)' = (Limbo(i) \ {p}) \cup W
    BY <1>7
  <2> HIDE DEF W
  <2> QED BY <1>7, <2>1, <2>2, <2>3, PromisesAgain
<1>9. TypeOK'
  <2>1. SchedTypeOK({"user", "read", "write"})'
    BY <1>1, <1>3, Places DEF TypeOK, SchedTypeOK
  <2>2. call' \in [Proc -> Call]
    BY Places DEF TypeOK
  <2> QED BY <1>8, <2>1, <2>2, Places DEF TypeOK
<1>10. OnePlace'
  BY <1>3, <1>9, OnePlaceAgain
<1>11. WaitsWhereItSays'
  <2> SUFFICES ASSUME NEW m \in {"read", "write"}, NEW j \in Id,
                      NEW q \in Range(WaitingLists'[<<m, j>>])
               PROVE  pc'[q] = m /\ call'[q].pipe = j
    BY DEF WaitsWhereItSays
  <2>1. <<m, j>> \in DOMAIN WaitingLists
    BY ListsAre
  <2>2. CASE q = p
    BY <1>2, <1>4, <1>5, <2>1, <2>2
  <2>3. CASE q # p
    <3>1. q \in Range(WaitingLists[<<m, j>>])
      BY <1>4, <2>1, <2>3
    <3>2. q \in Proc
      BY <2>1, <3>1, Places DEF Queued
    <3>3. pc[q] = m /\ call[q].pipe = j
      BY <3>1 DEF IInv, WaitsWhereItSays
    <3> QED BY <1>2, <2>3, <3>2, <3>3
  <2> QED BY <2>2, <2>3
<1>12. FreshIds'
  <2>1. \A j \in Id : j >= count => j # i
    BY <1>1, NotHandedOut
  <2>2. \A j \in Id : j # i => readblocked'[j] = readblocked[j] /\ writeblocked'[j] = writeblocked[j]
    BY <1>4, ListsAre
  <2> QED BY <2>1, <2>2 DEF IInv, FreshIds
<1>13. CallsInBounds' /\ NoUseAfterDestroy'
  BY <1>1, <1>2 DEF IInv, CallsInBounds, NoUseAfterDestroy
<1> QED BY <1>2, <1>8, <1>10, <1>11, <1>12, <1>13

(***************************************************************************)
(* p returns from a call of pipe i and wakes all of one of its lists.      *)
(***************************************************************************)
LEMMA ReturnFromCall ==
  ASSUME IInv, NEW p \in Proc, NEW i \in Id, NEW promise, Inside(p, i, promise),
         NEW k \in {"read", "write"}, NEW w, w = WaitingLists[<<k, i>>],
         ReturnWith(p, ready \o w),
         ChangedAt(WaitingLists, WaitingLists', <<k, i>>), WaitingLists'[<<k, i>>] = <<>>,
         readblocked' \in [Id -> Seq(Proc)], writeblocked' \in [Id -> Seq(Proc)],
         NEW c \in Call, call' = [call EXCEPT ![p] = c],
         filled' \in [Id -> 0..Size], \A j \in Id : j # i => filled'[j] = filled[j],
         Settled(i, promise, Len(w)), UNCHANGED <<count, exists>>
  PROVE  /\ OnePlace' /\ WaitsWhereItSays' /\ FreshIds' /\ CallsInBounds'
         /\ PromisesAreExact' /\ NoUseAfterDestroy'
         /\ pc'[p] = "user" /\ call'[p] = c
         /\ \A q \in Proc : q # p => pc'[q] = pc[q] /\ call'[q] = call[q]
<1>1. /\ pc' = [pc EXCEPT ![p] = "user"] /\ ready' = ready \o w /\ running' = running
      /\ running = p /\ i \in exists
      /\ pc[p] # "user" => call[p].pipe = i
  BY DEF ReturnWith, Inside
<1>2. /\ pc'[p] = "user" /\ call'[p] = c
      /\ \A q \in Proc : q # p => pc'[q] = pc[q] /\ call'[q] = call[q]
  BY <1>1, Places DEF TypeOK, SchedTypeOK
<1>3. <<k, i>> \in DOMAIN WaitingLists /\ w \in Seq(Proc) /\ IsInjective(w)
  BY Places, ListsAre
<1> DEFINE W == Range(w)
<1>4. Taken(WaitingLists, WaitingLists', <<k, i>>, W)
  BY ShortOnce DEF Taken
<1>5. /\ ready' \in Seq(Proc) /\ RunnableOnce' /\ Separate(WaitingLists', Runnable')
      /\ Proc = Runnable' \cup Queued(WaitingLists')
  BY <1>1, <1>3, <1>4, Places, WakeKeepsPlaces
<1>6. W \subseteq Proc /\ \A q \in W : pc[q] = k /\ call[q].pipe = i /\ Listed(q, i)
  <2>1. W \subseteq Proc
    BY <1>3, RangeOfSeq
  <2>2. \A q \in W : pc[q] = k /\ call[q].pipe = i
    BY DEF IInv, WaitsWhereItSays
  <2>3. \A q \in W : Listed(q, i)
    BY ListsAre DEF Listed
  <2> QED BY <2>1, <2>2, <2>3
<1>7. p \notin W
  BY <1>1, <1>3, RunnerIsUnlisted
<1>8. Len(w) = Cardinality(W)
  BY <1>3, LengthCounts
<1>9. /\ \A l \in DOMAIN WaitingLists : l # <<k, i>> => WaitingLists'[l] = WaitingLists[l]
      /\ Range(WaitingLists'[<<k, i>>]) = {}
  BY ShortOnce DEF ChangedAt
<1>10. /\ \A q \in Proc : Listed(q, i)' <=> Listed(q, i) /\ q \notin W
       /\ \A q \in Proc, j \in Id : j # i => (Listed(q, j)' <=> Listed(q, j))
  <2>1. \A q \in Proc, j \in Id : j # i => (Listed(q, j)' <=> Listed(q, j))
    <3>1. \A j \in Id : j # i => /\ readblocked'[j] = readblocked[j]
                                /\ writeblocked'[j] = writeblocked[j]
      BY <1>9, ListsAre
    <3> QED BY <3>1 DEF Listed
  <2>2. \A q \in Proc : Listed(q, i)' <=> Listed(q, i) /\ q \notin W
    <3>1. CASE k = "read"
      <4>1. Range(writeblocked[i]) \cap W = {}
        BY <1>6, <3>1, ListsAre DEF IInv, WaitsWhereItSays
      <4> QED BY <1>9, <3>1, <4>1, ListsAre DEF Listed
    <3>2. CASE k = "write"
      <4>1. Range(readblocked[i]) \cap W = {}
        BY <1>6, <3>2, ListsAre DEF IInv, WaitsWhereItSays
      <4> QED BY <1>9, <3>2, <4>1, ListsAre DEF Listed
    <3> QED BY <3>1, <3>2
  <2> QED BY <2>1, <2>2
<1> HIDE DEF W
<1>11. /\ Limbo(i)' = (Limbo(i) \ {p}) \cup W /\ W \cap Limbo(i) = {}
       /\ \A j \in Id : j # i => Limbo(j)' = Limbo(j)
  BY <1>1, <1>2, <1>6, <1>7, <1>10 DEF Limbo
<1>12. PromisesAreExact' /\ unfulfilled' \in [Id -> Nat]
  <2>1. Settled(i, promise, Cardinality(W))
    BY <1>8
  <2> QED BY <1>6, <1>7, <1>11, <2>1, PromisesAgain
<1>13. TypeOK'
  <2>1. SchedTypeOK({"user", "read", "write"})'
    BY <1>1, <1>5, Places DEF TypeOK, SchedTypeOK
  <2>2. call' \in [Proc -> Call]
    BY Places DEF TypeOK
  <2> QED BY <1>12, <2>1, <2>2, Places DEF TypeOK
<1>14. OnePlace'
  BY <1>5, <1>13, OnePlaceAgain
<1>15. WaitsWhereItSays'
  <2> SUFFICES ASSUME NEW m \in {"read", "write"}, NEW j \in Id,
                      NEW q \in Range(WaitingLists'[<<m, j>>])
               PROVE  pc'[q] = m /\ call'[q].pipe = j
    BY DEF WaitsWhereItSays
  <2>1. <<m, j>> \in DOMAIN WaitingLists
    BY ListsAre
  <2>2. q \in Range(WaitingLists[<<m, j>>])
    BY <1>9, <2>1
  <2>3. q \in Proc /\ q # p
    BY <1>1, <2>1, <2>2, Places, RunnerIsUnlisted DEF Queued
  <2>4. pc[q] = m /\ call[q].pipe = j
    BY <2>2 DEF IInv, WaitsWhereItSays
  <2> QED BY <1>2, <2>3, <2>4
<1>16. FreshIds'
  <2>1. \A j \in Id : j >= count => j # i
    BY <1>1, NotHandedOut
  <2>2. \A j \in Id : j # i => readblocked'[j] = readblocked[j] /\ writeblocked'[j] = writeblocked[j]
    BY <1>9, ListsAre
  <2> QED BY <2>1, <2>2 DEF IInv, FreshIds
<1>17. CallsInBounds' /\ NoUseAfterDestroy'
  BY <1>1, <1>2 DEF IInv, CallsInBounds, NoUseAfterDestroy
<1> QED BY <1>2, <1>12, <1>14, <1>15, <1>16, <1>17

-----------------------------------------------------------------------------
(***************************************************************************)
(* One round of the loop of write_pipe, by a caller or by a woken writer.  *)
(***************************************************************************)
Writes(p, c, promise) ==
  /\ Inside(p, c.pipe, promise) /\ pc[p] \in {"user", "write"}
  /\ c \in Call /\ 0 <= c.left /\ c.left <= c.len
  /\ WriteLoop(p, c, promise)

LEMMA AcceptedFits ==
  ASSUME TypeOK, NEW c \in Call, 0 <= c.left, c.left <= c.len
  PROVE  /\ Accepted(c.pipe, c) \in 0..(Size - filled[c.pipe])
         /\ Accepted(c.pipe, c) < c.left => Accepted(c.pipe, c) = Size - filled[c.pipe]
<1>1. filled[c.pipe] \in 0..Size /\ Size \in Nat /\ c.left \in Int /\ c.len \in Int
  BY PipeAssumption DEF TypeOK, Call
<1> QED BY <1>1 DEF Accepted, AtMost

(***************************************************************************)
(* write_pipe that does not get everything in: it wakes no reader, and     *)
(* blocks.                                                                 *)
(***************************************************************************)
LEMMA WriterBlocks ==
  ASSUME IInv, NEW p \in Proc, NEW c, NEW promise, Writes(p, c, promise),
         Accepted(c.pipe, c) < c.left
  PROVE  IInv'
<1> DEFINE i == c.pipe
           written == Accepted(i, c)
           d == [c EXCEPT !.left = @ - written, !.total = @ + written]
           s == Append(writeblocked[i], p)
<1>1. /\ Inside(p, i, promise) /\ c \in Call /\ 0 <= c.left /\ c.left <= c.len
      /\ filled' = [filled EXCEPT ![i] = @ + written]
      /\ written < c.left /\ call' = [call EXCEPT ![p] = d]
      /\ writeblocked' = [writeblocked EXCEPT ![i] = Append(@, p)]
      /\ unfulfilled' = [unfulfilled EXCEPT ![i] = @ - promise]
      /\ BlockAt(p, "write", ready) /\ UNCHANGED <<readblocked, count, exists>>
  <2>1. ~(written >= c.left)
    <3>1. c.left \in Int /\ written \in Int
      BY Places, AcceptedFits DEF Writes, Call
    <3> QED BY <3>1
  <2> QED BY <2>1 DEF Writes, WriteLoop
<1>2. i \in Id /\ c.left \in Int /\ c.len \in Int /\ c.total \in Int
  BY <1>1 DEF Call
<1>3. written \in 0..(Size - filled[i]) /\ written = Size - filled[i]
  BY <1>1, Places, AcceptedFits
<1>4. filled \in [Id -> 0..Size] /\ Size \in Nat
  BY Places, PipeAssumption DEF TypeOK
<1> HIDE DEF written
<1>5. d \in Call /\ d.pipe = i /\ 0 < d.left /\ d.left <= d.len
  <2>1. written \in Nat /\ c.left - written \in Int /\ c.total + written \in Int
    BY <1>2, <1>3, <1>4
  <2>2. d.pipe = i /\ d.left = c.left - written /\ d.len = c.len
    BY <1>1 DEF Call
  <2>3. d \in Call
    BY <1>1, <2>1 DEF Call
  <2> HIDE DEF d
  <2> QED BY <1>1, <1>2, <2>1, <2>2, <2>3
<1> HIDE DEF d
<1>6. /\ filled' \in [Id -> 0..Size] /\ filled'[i] = Size
      /\ \A j \in Id : j # i => filled'[j] = filled[j]
  BY <1>1, <1>2, <1>3, <1>4
<1>7. p \notin Range(writeblocked[i])
  BY <1>1, <1>2, RunnerIsUnlisted DEF Inside, Listed
<1>8. s \in Seq(Proc) /\ IsInjective(s) /\ Range(s) = Range(writeblocked[i]) \cup {p}
  BY <1>2, <1>7, Places, AppendOnce
<1>9. writeblocked' = [writeblocked EXCEPT ![i] = s]
  BY <1>1
<1> HIDE DEF s
<1>10. /\ writeblocked' \in [Id -> Seq(Proc)] /\ writeblocked'[i] = s
       /\ \A j \in Id : j # i => writeblocked'[j] = writeblocked[j]
       /\ readblocked' \in [Id -> Seq(Proc)]
  BY <1>1, <1>2, <1>8, <1>9, Places DEF TypeOK
<1>11. Joined(WaitingLists, WaitingLists', <<"write", i>>, p)
  <2>1. ChangedAt(WaitingLists, WaitingLists', <<"write", i>>)
    BY <1>1, <1>2, <1>10, OneListChanges
  <2> QED BY <1>2, <1>8, <1>10, <2>1, ListsAre DEF Joined
<1>12. Settled(i, promise, 0)
  <2>1. unfulfilled[i] - promise = unfulfilled[i] - promise + 0
    BY <1>1, <1>2, Places DEF TypeOK, Inside
  <2> QED BY <1>1, <2>1 DEF Settled
<1>13. /\ OnePlace' /\ WaitsWhereItSays' /\ FreshIds' /\ CallsInBounds'
       /\ PromisesAreExact' /\ NoUseAfterDestroy'
       /\ pc'[p] = "write" /\ call'[p] = d
       /\ \A q \in Proc : q # p => pc'[q] = pc[q] /\ call'[q] = call[q]
  <2>1. /\ Inside(p, i, promise) /\ call' = [call EXCEPT ![p] = d]
        /\ BlockAt(p, "write", ready) /\ UNCHANGED <<count, exists>>
    BY <1>1
  <2> QED BY <1>2, <1>5, <1>6, <1>10, <1>11, <1>12, <2>1, BlockInCall
<1>14. WritersWaitForSpace'
  BY <1>6, <1>10 DEF IInv, WritersWaitForSpace
<1>15. ReadersWaitForWriters'
  <2>1. p \in Writing(i)'
    BY <1>5, <1>13 DEF Writing
  <2>2. \A j \in Id : j # i => Writing(j)' = Writing(j)
    BY <1>1, <1>5, <1>13 DEF Writing, Inside
  <2> QED BY <1>1, <1>6, <2>1, <2>2 DEF IInv, ReadersWaitForWriters
<1> QED BY <1>13, <1>14, <1>15 DEF IInv

(***************************************************************************)
(* write_pipe that gets everything in, wakes the readers and returns.      *)
(***************************************************************************)
LEMMA WriterReturns ==
  ASSUME IInv, NEW p \in Proc, NEW c, NEW promise, Writes(p, c, promise),
         Accepted(c.pipe, c) >= c.left
  PROVE  IInv'
<1> DEFINE i == c.pipe
           written == Accepted(i, c)
           w == readblocked[i]
<1>1. /\ Inside(p, i, promise) /\ c \in Call /\ 0 <= c.left /\ c.left <= c.len
      /\ filled' = [filled EXCEPT ![i] = @ + written]
      /\ call' = [call EXCEPT ![p] = c]
      /\ readblocked' = [readblocked EXCEPT ![i] = SubSeq(@, 1 + Len(w), Len(@))]
      /\ unfulfilled' = [unfulfilled EXCEPT ![i] = @ - promise + Len(w)]
      /\ ReturnWith(p, ready \o w) /\ UNCHANGED <<writeblocked, count, exists>>
  <2>1. ~(written < c.left)
    <3>1. c.left \in Int /\ written \in Int
      BY Places, AcceptedFits DEF Writes, Call
    <3> QED BY <3>1
  <2> QED BY <2>1 DEF Writes, WriteLoop, WokenReaders, Promised
<1>2. i \in Id
  BY <1>1 DEF Call
<1>3. written \in 0..(Size - filled[i])
  BY <1>1, Places, AcceptedFits
<1>4. filled \in [Id -> 0..Size] /\ Size \in Nat
  BY Places, PipeAssumption DEF TypeOK
<1> HIDE DEF written
<1>5. /\ filled' \in [Id -> 0..Size] /\ (filled[i] = Size => filled'[i] = Size)
      /\ \A j \in Id : j # i => filled'[j] = filled[j]
  BY <1>1, <1>2, <1>3, <1>4
<1>6. w \in Seq(Proc) /\ SubSeq(w, 1 + Len(w), Len(w)) = <<>>
  BY <1>2, Places, NoneAndAll
<1>7. readblocked' = [readblocked EXCEPT ![i] = <<>>]
  BY <1>1, <1>6
<1>8. /\ readblocked' \in [Id -> Seq(Proc)] /\ readblocked'[i] = <<>>
      /\ \A j \in Id : j # i => readblocked'[j] = readblocked[j]
      /\ writeblocked' \in [Id -> Seq(Proc)]
  BY <1>1, <1>2, <1>7, Places, EmptySeq DEF TypeOK
<1>9. /\ ChangedAt(WaitingLists, WaitingLists', <<"read", i>>)
      /\ WaitingLists'[<<"read", i>>] = <<>> /\ w = WaitingLists[<<"read", i>>]
  BY <1>1, <1>2, <1>8, OneListChanges, ListsAre
<1>10. Settled(i, promise, Len(w))
  BY <1>1 DEF Settled
<1> HIDE DEF w
<1>11. /\ OnePlace' /\ WaitsWhereItSays' /\ FreshIds' /\ CallsInBounds'
       /\ PromisesAreExact' /\ NoUseAfterDestroy'
       /\ pc'[p] = "user" /\ call'[p] = c
       /\ \A q \in Proc : q # p => pc'[q] = pc[q] /\ call'[q] = call[q]
  <2>1. /\ Inside(p, i, promise) /\ c \in Call /\ call' = [call EXCEPT ![p] = c]
        /\ ReturnWith(p, ready \o w) /\ UNCHANGED <<count, exists>>
    BY <1>1
  <2> QED BY <1>2, <1>5, <1>8, <1>9, <1>10, <2>1, ReturnFromCall
<1>12. WritersWaitForSpace'
  BY <1>1, <1>5 DEF IInv, WritersWaitForSpace
<1>13. ReadersWaitForWriters'
  <2>1. \A j \in Id : j # i => Writing(j)' = Writing(j)
    BY <1>1, <1>11 DEF Writing, Inside
  <2> QED BY <1>5, <1>8, <2>1 DEF IInv, ReadersWaitForWriters
<1> QED BY <1>11, <1>12, <1>13 DEF IInv

(***************************************************************************)
(* One round of the loop of read_pipe, by a caller or by a woken reader.   *)
(***************************************************************************)
Reads(p, c, promise) ==
  /\ Inside(p, c.pipe, promise) /\ pc[p] \in {"user", "read"}
  /\ c \in Call /\ 0 < c.len
  /\ ReadLoop(p, c, promise)

(***************************************************************************)
(* read_pipe that finds the pipe empty, and blocks.                        *)
(***************************************************************************)
LEMMA ReaderBlocks ==
  ASSUME IInv, NEW p \in Proc, NEW c, NEW promise, Reads(p, c, promise),
         AtMost(filled[c.pipe], c.len) = 0
  PROVE  IInv'
<1> DEFINE i == c.pipe
           s == Append(readblocked[i], p)
<1>1. /\ Inside(p, i, promise) /\ c \in Call /\ 0 < c.len
      /\ call' = [call EXCEPT ![p] = c]
      /\ readblocked' = [readblocked EXCEPT ![i] = Append(@, p)]
      /\ unfulfilled' = [unfulfilled EXCEPT ![i] = @ - promise]
      /\ BlockAt(p, "read", ready) /\ UNCHANGED <<filled, writeblocked, count, exists>>
  BY DEF Reads, ReadLoop
<1>2. i \in Id /\ c.len \in Int
  BY <1>1 DEF Call
<1>3. filled[i] = 0
  <2>1. filled[i] \in Int
    BY <1>2, Places, PipeAssumption DEF TypeOK
  <2> QED BY <1>1, <1>2, <2>1 DEF AtMost
<1>4. p \notin Range(readblocked[i])
  BY <1>1, <1>2, RunnerIsUnlisted DEF Inside, Listed
<1>5. s \in Seq(Proc) /\ IsInjective(s) /\ Range(s) = Range(readblocked[i]) \cup {p}
  BY <1>2, <1>4, Places, AppendOnce
<1>6. readblocked' = [readblocked EXCEPT ![i] = s]
  BY <1>1
<1> HIDE DEF s
<1>7. /\ readblocked' \in [Id -> Seq(Proc)] /\ readblocked'[i] = s
      /\ \A j \in Id : j # i => readblocked'[j] = readblocked[j]
      /\ writeblocked' \in [Id -> Seq(Proc)] /\ filled' \in [Id -> 0..Size]
  BY <1>1, <1>2, <1>5, <1>6, Places DEF TypeOK
<1>8. Joined(WaitingLists, WaitingLists', <<"read", i>>, p)
  <2>1. ChangedAt(WaitingLists, WaitingLists', <<"read", i>>)
    BY <1>1, <1>2, <1>7, OneListChanges
  <2> QED BY <1>2, <1>5, <1>7, <2>1, ListsAre DEF Joined
<1>9. Settled(i, promise, 0)
  <2>1. unfulfilled[i] - promise = unfulfilled[i] - promise + 0
    BY <1>1, <1>2, Places DEF TypeOK, Inside
  <2> QED BY <1>1, <2>1 DEF Settled
<1>10. /\ OnePlace' /\ WaitsWhereItSays' /\ FreshIds' /\ CallsInBounds'
       /\ PromisesAreExact' /\ NoUseAfterDestroy'
       /\ pc'[p] = "read" /\ call'[p] = c
       /\ \A q \in Proc : q # p => pc'[q] = pc[q] /\ call'[q] = call[q]
  BY <1>1, <1>2, <1>7, <1>8, <1>9, BlockInCall
<1>11. WritersWaitForSpace'
  BY <1>1 DEF IInv, WritersWaitForSpace
<1>12. ReadersWaitForWriters'
  <2>1. \A j \in Id : j # i => Writing(j)' = Writing(j)
    BY <1>1, <1>10 DEF Writing, Inside
  <2> QED BY <1>1, <1>3, <1>7, <2>1 DEF IInv, ReadersWaitForWriters
<1> QED BY <1>10, <1>11, <1>12 DEF IInv

(***************************************************************************)
(* read_pipe that gets something, wakes the writers and returns.           *)
(***************************************************************************)
LEMMA ReaderReturns ==
  ASSUME IInv, NEW p \in Proc, NEW c, NEW promise, Reads(p, c, promise),
         AtMost(filled[c.pipe], c.len) # 0
  PROVE  IInv'
<1> DEFINE i == c.pipe
           read == AtMost(filled[i], c.len)
           w == writeblocked[i]
<1>1. /\ Inside(p, i, promise) /\ pc[p] \in {"user", "read"} /\ c \in Call /\ 0 < c.len
      /\ call' = [call EXCEPT ![p] = c]
      /\ filled' = [filled EXCEPT ![i] = @ - read]
      /\ writeblocked' = [writeblocked EXCEPT ![i] = SubSeq(@, 1 + Len(w), Len(@))]
      /\ unfulfilled' = [unfulfilled EXCEPT ![i] = @ - promise + Len(w)]
      /\ ReturnWith(p, ready \o w) /\ UNCHANGED <<readblocked, count, exists>>
  BY DEF Reads, ReadLoop, WokenWriters, Promised
<1>2. i \in Id /\ c.len \in Int
  BY <1>1 DEF Call
<1>3. filled \in [Id -> 0..Size] /\ Size \in Nat
  BY Places, PipeAssumption DEF TypeOK
<1>4. read \in 0..filled[i] /\ filled[i] # 0
  BY <1>1, <1>2, <1>3 DEF AtMost
<1> HIDE DEF read
<1>5. /\ filled' \in [Id -> 0..Size]
      /\ \A j \in Id : j # i => filled'[j] = filled[j]
  BY <1>1, <1>2, <1>3, <1>4
<1>6. w \in Seq(Proc) /\ SubSeq(w, 1 + Len(w), Len(w)) = <<>>
  BY <1>2, Places, NoneAndAll
<1>7. writeblocked' = [writeblocked EXCEPT ![i] = <<>>]
  BY <1>1, <1>6
<1>8. /\ writeblocked' \in [Id -> Seq(Proc)] /\ writeblocked'[i] = <<>>
      /\ \A j \in Id : j # i => writeblocked'[j] = writeblocked[j]
      /\ readblocked' \in [Id -> Seq(Proc)]
  BY <1>1, <1>2, <1>7, Places, EmptySeq DEF TypeOK
<1>9. /\ ChangedAt(WaitingLists, WaitingLists', <<"write", i>>)
      /\ WaitingLists'[<<"write", i>>] = <<>> /\ w = WaitingLists[<<"write", i>>]
  BY <1>1, <1>2, <1>8, OneListChanges, ListsAre
<1>10. Settled(i, promise, Len(w))
  BY <1>1 DEF Settled
<1> HIDE DEF w
<1>11. /\ OnePlace' /\ WaitsWhereItSays' /\ FreshIds' /\ CallsInBounds'
       /\ PromisesAreExact' /\ NoUseAfterDestroy'
       /\ pc'[p] = "user" /\ call'[p] = c
       /\ \A q \in Proc : q # p => pc'[q] = pc[q] /\ call'[q] = call[q]
  <2>1. /\ Inside(p, i, promise) /\ c \in Call /\ call' = [call EXCEPT ![p] = c]
        /\ ReturnWith(p, ready \o w) /\ UNCHANGED <<count, exists>>
    BY <1>1
  <2> QED BY <1>2, <1>5, <1>8, <1>9, <1>10, <2>1, ReturnFromCall
<1>12. WritersWaitForSpace'
  BY <1>5, <1>8 DEF IInv, WritersWaitForSpace
<1>13. ReadersWaitForWriters'
  <2>1. \A j \in Id : Writing(j)' = Writing(j)
    BY <1>1, <1>11 DEF Writing, Inside
  <2>2. readblocked[i] # <<>> => Writing(i) # {}
    BY <1>2, <1>4 DEF IInv, ReadersWaitForWriters
  <2> QED BY <1>1, <1>5, <2>1, <2>2 DEF IInv, ReadersWaitForWriters
<1> QED BY <1>11, <1>12, <1>13 DEF IInv

-----------------------------------------------------------------------------
(***************************************************************************)
(* The four ways into the two loops.                                       *)
(***************************************************************************)
LEMMA WritesStep ==
  ASSUME IInv, NEW p \in Proc,
         ResumeWrite(p) \/ \E i \in Id, n \in 0..MaxLen : KernelPipeWrite(p, i, n)
  PROVE  \E c \in Call, promise \in {0, 1} : Writes(p, c, promise)
<1>1. CASE ResumeWrite(p)
  <2>1. running = p /\ pc[p] = "write" /\ WriteLoop(p, call[p], 1)
    BY <1>1 DEF ResumeWrite
  <2>2. call[p] \in Call /\ call[p].pipe \in exists
    BY <2>1, Places DEF TypeOK, IInv, NoUseAfterDestroy
  <2>3. call[p].left \in Int /\ 0 < call[p].left /\ call[p].left <= call[p].len
    BY <2>1, <2>2 DEF IInv, CallsInBounds, Call
  <2>4. Writes(p, call[p], 1)
    BY <2>1, <2>2, <2>3 DEF Writes, Inside
  <2> QED BY <2>2, <2>4
<1>2. CASE \E i \in Id, n \in 0..MaxLen : KernelPipeWrite(p, i, n)
  <2>1. PICK i \in Id, n \in 0..MaxLen : KernelPipeWrite(p, i, n)
    BY <1>2
  <2>2. PICK t \in Unset :
          WriteLoop(p, [pipe |-> i, len |-> n, left |-> n, total |-> t], 0)
    BY <2>1 DEF KernelPipeWrite
  <2>3. running = p /\ pc[p] = "user" /\ i \in exists
    BY <2>1 DEF KernelPipeWrite, InUser, find_pipe
  <2> DEFINE c == [pipe |-> i, len |-> n, left |-> n, total |-> t]
  <2>4. n \in Nat /\ t \in Int
    BY PipeAssumption
  <2>5. c \in Call /\ c.pipe = i /\ 0 <= c.left /\ c.left <= c.len
    BY <2>4 DEF Call
  <2>6. WriteLoop(p, c, 0)
    BY <2>2
  <2> HIDE DEF c
  <2>7. Writes(p, c, 0)
    BY <2>3, <2>5, <2>6 DEF Writes, Inside
  <2> QED BY <2>5, <2>7
<1> QED BY <1>1, <1>2

LEMMA ReadsStep ==
  ASSUME IInv, NEW p \in Proc,
         ResumeRead(p) \/ \E i \in Id, n \in 1..MaxLen : KernelPipeRead(p, i, n)
  PROVE  \E c \in Call, promise \in {0, 1} : Reads(p, c, promise)
<1>1. CASE ResumeRead(p)
  <2>1. running = p /\ pc[p] = "read" /\ ReadLoop(p, call[p], 1)
    BY <1>1 DEF ResumeRead
  <2>2. call[p] \in Call /\ call[p].pipe \in exists /\ 0 < call[p].len
    BY <2>1, Places DEF TypeOK, IInv, NoUseAfterDestroy, CallsInBounds
  <2>3. Reads(p, call[p], 1)
    BY <2>1, <2>2 DEF Reads, Inside
  <2> QED BY <2>2, <2>3
<1>2. CASE \E i \in Id, n \in 1..MaxLen : KernelPipeRead(p, i, n)
  <2>1. PICK i \in Id, n \in 1..MaxLen : KernelPipeRead(p, i, n)
    BY <1>2
  <2> DEFINE c == [pipe |-> i, len |-> n, left |-> 0, total |-> 0]
  <2>2. running = p /\ pc[p] = "user" /\ i \in exists /\ ReadLoop(p, c, 0)
    BY <2>1 DEF KernelPipeRead, InUser, find_pipe
  <2>3. c \in Call /\ c.pipe = i /\ 0 < c.len
    BY PipeAssumption DEF Call
  <2> HIDE DEF c
  <2>4. Reads(p, c, 0)
    BY <2>2, <2>3 DEF Reads, Inside
  <2> QED BY <2>3, <2>4
<1> QED BY <1>1, <1>2

(***************************************************************************)
(* Every step keeps the inductive invariant.                               *)
(***************************************************************************)
LEMMA NextIInv == IInv /\ [Next]_vars => IInv'
<1> SUFFICES ASSUME IInv, [Next]_vars PROVE IInv'
  OBVIOUS
<1>1. CASE UNCHANGED vars
  <2>1. UNCHANGED <<running, ready, pc, pipeVars, call>>
    BY <1>1 DEF vars, schedVars
  <2>2. WaitingLists' = WaitingLists /\ Runnable' = Runnable /\ RunnableOnce'
    BY <2>1, Places DEF WaitingLists, Runnable, RunnableOnce, pipeVars
  <2>3. TypeOK'
    BY <2>1, Places DEF TypeOK, SchedTypeOK, pipeVars
  <2>4. OnePlace'
    BY <2>2, <2>3, Places, OnePlaceAgain
  <2> QED BY <2>1, <2>4, SamePipes
<1>2. CASE TrapClock
  BY <1>2, ClockStep
<1>3. CASE \E p \in Proc : Calls(p) \/ Resume(p)
  <2>1. PICK p \in Proc : Calls(p) \/ Resume(p)
    BY <1>3
  <2>2. CASE KernelPipeInit(p)
    BY <2>2, PipeInitStep
  <2>3. CASE ResumeWrite(p) \/ \E i \in Id, n \in 0..MaxLen : KernelPipeWrite(p, i, n)
    <3>1. PICK c \in Call, promise \in {0, 1} : Writes(p, c, promise)
      BY <2>3, WritesStep
    <3>2. Accepted(c.pipe, c) \in Int /\ c.left \in Int
      BY <3>1, Places, AcceptedFits DEF Writes, Call
    <3>3. CASE Accepted(c.pipe, c) < c.left
      BY <3>1, <3>3, WriterBlocks
    <3>4. CASE Accepted(c.pipe, c) >= c.left
      BY <3>1, <3>4, WriterReturns
    <3> QED BY <3>2, <3>3, <3>4
  <2>4. CASE ResumeRead(p) \/ \E i \in Id, n \in 1..MaxLen : KernelPipeRead(p, i, n)
    <3>1. PICK c \in Call, promise \in {0, 1} : Reads(p, c, promise)
      BY <2>4, ReadsStep
    <3> QED BY <3>1, ReaderBlocks, ReaderReturns
  <2>5. CASE \E i \in Id : KernelReclaim(p, i)
    BY <2>5, ReclaimStep
  <2> QED BY <2>1, <2>2, <2>3, <2>4, <2>5 DEF Calls, Resume
<1> QED BY <1>1, <1>2, <1>3 DEF Next

(***************************************************************************)
(* IInv holds from the boot on, after every system call and every resumed  *)
(* handler.                                                                *)
(***************************************************************************)
THEOREM InductiveInvariant == Spec => []IInv
<1> QED BY InitIInv, NextIInv, PTL DEF Spec

(***************************************************************************)
(* Whatever the processes do with their pipes, nobody sits on two lists or *)
(* on none: read_pipe and write_pipe move every node as a whole.           *)
(***************************************************************************)
THEOREM AlwaysOnePlace == Spec => []OnePlace
<1>1. IInv => OnePlace
  BY DEF IInv
<1> QED BY <1>1, InductiveInvariant, PTL

(***************************************************************************)
(* unfulfilled, which readers and writers of a pipe share, is an exact     *)
(* count of the processes that have been woken and not yet looked.         *)
(***************************************************************************)
THEOREM PromisesAlwaysExact == Spec => []PromisesAreExact
<1>1. IInv => PromisesAreExact
  BY DEF IInv
<1> QED BY <1>1, InductiveInvariant, PTL

(***************************************************************************)
(* KernelReclaim never frees a pipe under a process inside a call of it.   *)
(***************************************************************************)
THEOREM NeverUsedAfterDestroy == Spec => []NoUseAfterDestroy
<1>1. IInv => NoUseAfterDestroy
  BY DEF IInv
<1> QED BY <1>1, InductiveInvariant, PTL

(***************************************************************************)
(* No writer waits for a pipe with space: every read wakes all of them.    *)
(***************************************************************************)
THEOREM WritersOnlyWaitForSpace == Spec => []WritersWaitForSpace
<1>1. IInv => WritersWaitForSpace
  BY DEF IInv
<1> QED BY <1>1, InductiveInvariant, PTL

(***************************************************************************)
(* A reader that waits for a pipe with bytes waits for a writer that is    *)
(* not done with it.                                                       *)
(***************************************************************************)
THEOREM ReadersOnlyWaitForWriters == Spec => []ReadersWaitForWriters
<1>1. IInv => ReadersWaitForWriters
  BY DEF IInv
<1> QED BY <1>1, InductiveInvariant, PTL

=============================================================================
