----------------------------- MODULE TtyProofs ------------------------------
(***************************************************************************)
(* Proofs about terminals: no process is lost or sits on two lists, no     *)
(* wake-up of a writer is lost, and readers wait only while there is       *)
(* nothing to read -- for every number of processes and of terminals,      *)
(* every size of the line buffer and every length.                         *)
(***************************************************************************)
EXTENDS Tty, SchedulingProofs

(***************************************************************************)
(* Who is on a list of a terminal is inside the call of that terminal that *)
(* uses the list.                                                          *)
(***************************************************************************)
WaitsWhereItSays ==
  \A k \in {"read", "write"}, t \in Terminal :
    \A p \in Range(WaitingLists[<<k, t>>]) : pc[p] = k /\ call[p].tty = t

(***************************************************************************)
(* The driver and the device agree on whether a transmission is under way, *)
(* and a reader wants something.                                           *)
(***************************************************************************)
DriverKnowsDevice == \A t \in Terminal : transmitting[t] <=> device[t] # NoOne

ReadersWantSomething == \A p \in Proc : pc[p] = "read" => 0 < call[p].len

(***************************************************************************)
(* The inductive invariant.                                                *)
(***************************************************************************)
IInv ==
  /\ OnePlace
  /\ WaitsWhereItSays
  /\ DriverKnowsDevice
  /\ ReadersWantSomething
  /\ WritersAreServed
  /\ ReadersWaitForInput

-----------------------------------------------------------------------------
(***************************************************************************)
(* WaitingLists is another view of the two variables.                      *)
(***************************************************************************)
LEMMA ListsAre ==
  /\ DOMAIN WaitingLists = {"read", "write"} \X Terminal
  /\ \A t \in Terminal : /\ WaitingLists[<<"read", t>>] = readers[t]
                         /\ WaitingLists[<<"write", t>>] = writers[t]
  /\ DOMAIN WaitingLists' = {"read", "write"} \X Terminal
  /\ \A t \in Terminal : /\ WaitingLists'[<<"read", t>>] = readers'[t]
                         /\ WaitingLists'[<<"write", t>>] = writers'[t]
BY DEF WaitingLists

(***************************************************************************)
(* A step of read_tty or write_tty that changes one list of one terminal.  *)
(***************************************************************************)
LEMMA OneListChanges ==
  ASSUME NEW t \in Terminal
  PROVE  /\ /\ UNCHANGED writers
            /\ \A u \in Terminal : u # t => readers'[u] = readers[u]
            => ChangedAt(WaitingLists, WaitingLists', <<"read", t>>)
         /\ /\ UNCHANGED readers
            /\ \A u \in Terminal : u # t => writers'[u] = writers[u]
            => ChangedAt(WaitingLists, WaitingLists', <<"write", t>>)
<1>1. ASSUME UNCHANGED writers, \A u \in Terminal : u # t => readers'[u] = readers[u]
      PROVE  ChangedAt(WaitingLists, WaitingLists', <<"read", t>>)
  BY <1>1 DEF ChangedAt, WaitingLists
<1>2. ASSUME UNCHANGED readers, \A u \in Terminal : u # t => writers'[u] = writers[u]
      PROVE  ChangedAt(WaitingLists, WaitingLists', <<"write", t>>)
  BY <1>2 DEF ChangedAt, WaitingLists
<1> QED BY <1>1, <1>2

(***************************************************************************)
(* Where everybody is.                                                     *)
(***************************************************************************)
LEMMA Places ==
  ASSUME IInv
  PROVE  /\ TypeOK /\ running \in Proc \cup {Idle} /\ ready \in Seq(Proc)
         /\ RunnableOnce /\ Separate(WaitingLists, Runnable)
         /\ Proc = Runnable \cup Queued(WaitingLists)
         /\ \A t \in Terminal : /\ readers[t] \in Seq(Proc) /\ IsInjective(readers[t])
                                /\ writers[t] \in Seq(Proc) /\ IsInjective(writers[t])
<1>1. TypeOK /\ QueuedOnce(WaitingLists) /\ Proc = Runnable \cup Queued(WaitingLists)
  BY DEF IInv, OnePlace
<1>2. RunnableOnce /\ Separate(WaitingLists, Runnable)
  BY <1>1, QueuedOnceIsSeparate
<1>3. \A t \in Terminal : IsInjective(readers[t]) /\ IsInjective(writers[t])
  BY <1>2, ListsAre DEF Separate
<1> QED BY <1>1, <1>2, <1>3 DEF TypeOK, SchedTypeOK

(***************************************************************************)
(* OnePlace of the next state, from what the lemmas of SchedulingProofs    *)
(* say of a step.                                                          *)
(***************************************************************************)
LEMMA OnePlaceAgain ==
  ASSUME TypeOK', RunnableOnce', Separate(WaitingLists', Runnable'),
         Proc = Runnable' \cup Queued(WaitingLists')
  PROVE  OnePlace'
BY DEF OnePlace, QueuedOnce, Separate, Queued

(***************************************************************************)
(* The process that runs is on no list.                                    *)
(***************************************************************************)
LEMMA RunnerIsUnlisted ==
  ASSUME IInv, NEW p \in Proc, running = p
  PROVE  /\ \A t \in Terminal : p \notin Range(readers[t]) /\ p \notin Range(writers[t])
         /\ \A l \in DOMAIN WaitingLists : p \notin Range(WaitingLists[l])
<1>1. p \in Runnable
  BY IdleAssumption DEF Runnable
<1>2. \A l \in DOMAIN WaitingLists : p \notin Range(WaitingLists[l])
  BY <1>1, Places DEF Separate
<1> QED BY <1>2, ListsAre

-----------------------------------------------------------------------------
LEMMA InitIInv == Init => IInv
<1> SUFFICES ASSUME Init PROVE IInv
  OBVIOUS
<1>1. /\ running \in Proc /\ ready \in Seq(Proc) /\ pc = [p \in Proc |-> "user"]
      /\ RunnableOnce /\ Runnable = Proc
  BY SchedInitOnce DEF Init
<1>2. TypeOK
  <2>1. call \in [Proc -> Call]
    BY DEF Init, Call
  <2> QED BY <1>1, <2>1, EmptySeq, TtyAssumption DEF Init, TypeOK, SchedTypeOK
<1>3. \A l \in DOMAIN WaitingLists : WaitingLists[l] = <<>>
  BY DEF WaitingLists, Init
<1>4. Separate(WaitingLists, Runnable) /\ Queued(WaitingLists) = {}
  <2>1. Range(<<>>) = {} /\ IsInjective(<<>>)
    BY ShortOnce
  <2>2. Separate(WaitingLists, Runnable)
    BY <1>3, <2>1 DEF Separate
  <2>3. Queued(WaitingLists) = {}
    BY <1>3, <2>1 DEF Queued
  <2> QED BY <2>2, <2>3
<1>5. OnePlace
  <2>1. QueuedOnce(WaitingLists)
    BY <1>1, <1>4, QueuedOnceIsSeparate
  <2> QED BY <1>1, <1>2, <1>4, <2>1 DEF OnePlace
<1>6. WaitsWhereItSays
  BY <1>3, ShortOnce, ListsAre DEF WaitsWhereItSays
<1>7. DriverKnowsDevice /\ ReadersWantSomething /\ WritersAreServed /\ ReadersWaitForInput
  BY <1>1 DEF Init, DriverKnowsDevice, ReadersWantSomething, WritersAreServed,
     ReadersWaitForInput
<1> QED BY <1>5, <1>6, <1>7 DEF IInv

(***************************************************************************)
(* What depends on nothing but the terminals and the calls in progress.    *)
(***************************************************************************)
LEMMA SameTerminals ==
  ASSUME IInv, running' \in Proc \cup {Idle}, ready' \in Seq(Proc), RunnableOnce',
         Runnable' = Runnable, UNCHANGED <<ttyVars, pc, call>>
  PROVE  IInv'
<1>1. WaitingLists' = WaitingLists
  BY DEF WaitingLists, ttyVars
<1>2. TypeOK'
  BY Places DEF TypeOK, SchedTypeOK, ttyVars
<1>3. OnePlace'
  BY <1>1, <1>2, Places, OnePlaceAgain
<1>4. WaitsWhereItSays' /\ ReadersWantSomething' /\ DriverKnowsDevice'
  BY <1>1 DEF IInv, WaitsWhereItSays, ReadersWantSomething, DriverKnowsDevice, ttyVars
<1>5. WritersAreServed' /\ ReadersWaitForInput'
  BY DEF IInv, WritersAreServed, ReadersWaitForInput, ttyVars
<1> QED BY <1>3, <1>4, <1>5 DEF IInv

LEMMA ClockStep == IInv /\ TrapClock => IInv'
<1> SUFFICES ASSUME IInv, TrapClock PROVE IInv'
  OBVIOUS
<1>1. RRPreempt(ready) /\ UNCHANGED <<pc, ttyVars, call>>
  BY DEF TrapClock, ClockTick
<1>2. /\ running' \in Proc \cup {Idle} /\ ready' \in Seq(Proc)
      /\ RunnableOnce' /\ Runnable' = Runnable
  BY <1>1, Places, TickKeepsPlaces
<1> QED BY <1>1, <1>2, SameTerminals

-----------------------------------------------------------------------------
(***************************************************************************)
(* The part of the invariant that is about processes and lists.            *)
(***************************************************************************)
InPlace ==
  /\ SchedTypeOK({"user", "read", "write"}) /\ call \in [Proc -> Call]
  /\ RunnableOnce /\ Separate(WaitingLists, Runnable)
  /\ Proc = Runnable \cup Queued(WaitingLists)
  /\ WaitsWhereItSays /\ ReadersWantSomething

(***************************************************************************)
(* p blocks in a call of terminal t, at one end of the list the call uses. *)
(***************************************************************************)
LEMMA BlockInCall ==
  ASSUME IInv, NEW p \in Proc, running = p, NEW t \in Terminal,
         NEW k \in {"read", "write"}, BlockAt(p, k, ready),
         Joined(WaitingLists, WaitingLists', <<k, t>>, p),
         NEW d \in Call, d.tty = t, call' = [call EXCEPT ![p] = d],
         k = "read" => 0 < d.len
  PROVE  /\ InPlace' /\ pc'[p] = k /\ call'[p] = d
         /\ \A q \in Proc : q # p => pc'[q] = pc[q] /\ call'[q] = call[q]
<1>1. pc' = [pc EXCEPT ![p] = k] /\ RunNextReady(ready)
  BY DEF BlockAt
<1>2. /\ pc'[p] = k /\ call'[p] = d
      /\ \A q \in Proc : q # p => pc'[q] = pc[q] /\ call'[q] = call[q]
  BY <1>1, Places DEF TypeOK, SchedTypeOK
<1>3. /\ running' \in Proc \cup {Idle} /\ ready' \in Seq(Proc)
      /\ RunnableOnce' /\ Separate(WaitingLists', Runnable')
      /\ Proc = Runnable' \cup Queued(WaitingLists')
  BY <1>1, Places, BlockKeepsPlaces
<1>4. /\ \A l \in DOMAIN WaitingLists : l # <<k, t>> => WaitingLists'[l] = WaitingLists[l]
      /\ Range(WaitingLists'[<<k, t>>]) = Range(WaitingLists[<<k, t>>]) \cup {p}
  BY DEF Joined, ChangedAt
<1>5. \A l \in DOMAIN WaitingLists : p \notin Range(WaitingLists[l])
  BY RunnerIsUnlisted
<1>6. WaitsWhereItSays'
  <2> SUFFICES ASSUME NEW m \in {"read", "write"}, NEW u \in Terminal,
                      NEW q \in Range(WaitingLists'[<<m, u>>])
               PROVE  pc'[q] = m /\ call'[q].tty = u
    BY DEF WaitsWhereItSays
  <2>1. <<m, u>> \in DOMAIN WaitingLists
    BY ListsAre
  <2>2. CASE q = p
    BY <1>2, <1>4, <1>5, <2>1, <2>2
  <2>3. CASE q # p
    <3>1. q \in Range(WaitingLists[<<m, u>>])
      BY <1>4, <2>1, <2>3
    <3>2. q \in Proc
      BY <2>1, <3>1, Places DEF Queued
    <3>3. pc[q] = m /\ call[q].tty = u
      BY <3>1 DEF IInv, WaitsWhereItSays
    <3> QED BY <1>2, <2>3, <3>2, <3>3
  <2> QED BY <2>2, <2>3
<1>7. SchedTypeOK({"user", "read", "write"})' /\ call' \in [Proc -> Call]
  BY <1>1, <1>3, Places DEF TypeOK, SchedTypeOK
<1>8. ReadersWantSomething'
  BY <1>2 DEF IInv, ReadersWantSomething
<1> QED BY <1>2, <1>3, <1>6, <1>7, <1>8 DEF InPlace, Separate, Queued

(***************************************************************************)
(* Those of w are taken off a list of terminal t, while nobody but the     *)
(* process that runs moves, if it does.                                    *)
(***************************************************************************)
LEMMA WakeInCall ==
  ASSUME IInv, NEW t \in Terminal, NEW k \in {"read", "write"},
         NEW w \in Seq(Proc), IsInjective(w),
         Taken(WaitingLists, WaitingLists', <<k, t>>, Range(w)),
         ready' = ready \o w, running' = running,
         pc' \in [Proc -> {"user", "read", "write"}], call' \in [Proc -> Call],
         \A q \in Proc : q # running => pc'[q] = pc[q] /\ call'[q] = call[q],
         \A q \in Proc : pc'[q] = "read" => pc[q] = "read" /\ call'[q] = call[q]
  PROVE  InPlace'
<1>1. /\ ready' \in Seq(Proc) /\ RunnableOnce' /\ Separate(WaitingLists', Runnable')
      /\ Proc = Runnable' \cup Queued(WaitingLists')
  BY Places, WakeKeepsPlaces
<1>2. WaitsWhereItSays'
  <2> SUFFICES ASSUME NEW m \in {"read", "write"}, NEW u \in Terminal,
                      NEW q \in Range(WaitingLists'[<<m, u>>])
               PROVE  pc'[q] = m /\ call'[q].tty = u
    BY DEF WaitsWhereItSays
  <2>1. <<m, u>> \in DOMAIN WaitingLists
    BY ListsAre
  <2>2. q \in Range(WaitingLists[<<m, u>>])
    BY <2>1 DEF Taken, ChangedAt
  <2>3. q \in Proc /\ q # running
    <3>1. q \in Proc
      BY <2>1, <2>2, Places DEF Queued
    <3> QED BY <2>1, <2>2, <3>1, RunnerIsUnlisted
  <2>4. pc[q] = m /\ call[q].tty = u
    BY <2>2 DEF IInv, WaitsWhereItSays
  <2> QED BY <2>3, <2>4
<1>3. SchedTypeOK({"user", "read", "write"})'
  BY <1>1, Places DEF SchedTypeOK
<1>4. ReadersWantSomething'
  BY DEF IInv, ReadersWantSomething
<1> QED BY <1>1, <1>2, <1>3, <1>4 DEF InPlace, Separate, Queued

(***************************************************************************)
(* IInv of the next state, from its parts.                                 *)
(***************************************************************************)
LEMMA InPlaceAgain ==
  ASSUME InPlace', writers' \in [Terminal -> Seq(Proc)], readers' \in [Terminal -> Seq(Proc)],
         transmitting' \in [Terminal -> BOOLEAN], filled' \in [Terminal -> 0..Line],
         device' \in [Terminal -> Proc \cup {NoOne}],
         DriverKnowsDevice', WritersAreServed', ReadersWaitForInput'
  PROVE  IInv'
<1>1. TypeOK'
  BY DEF TypeOK, InPlace
<1>2. OnePlace'
  BY <1>1, OnePlaceAgain DEF InPlace, Separate, Queued
<1> QED BY <1>2 DEF InPlace, IInv

-----------------------------------------------------------------------------
(***************************************************************************)
(* write_tty up to its next block or its return, by a caller or by a woken *)
(* writer.                                                                 *)
(***************************************************************************)
Writes(p, c) ==
  /\ running = p /\ pc[p] \in {"user", "write"}
  /\ pc[p] = "write" => call[p].tty = c.tty
  /\ c \in Call /\ WriteLoop(p, c) /\ UNCHANGED <<filled, readers>>

(***************************************************************************)
(* The list of the writers of t when p joins it, at either end.            *)
(***************************************************************************)
LEMMA WriterJoins ==
  ASSUME IInv, NEW p \in Proc, running = p, NEW t \in Terminal,
         NEW s, s = Append(writers[t], p) \/ s = <<p>> \o writers[t],
         writers' = [writers EXCEPT ![t] = s], UNCHANGED readers
  PROVE  /\ Joined(WaitingLists, WaitingLists', <<"write", t>>, p)
         /\ writers' \in [Terminal -> Seq(Proc)]
         /\ \A u \in Terminal : u # t => writers'[u] = writers[u]
<1>1. p \notin Range(writers[t]) /\ writers[t] \in Seq(Proc) /\ IsInjective(writers[t])
  BY Places, RunnerIsUnlisted
<1>2. s \in Seq(Proc) /\ IsInjective(s) /\ Range(s) = Range(writers[t]) \cup {p}
  <2>1. CASE s = Append(writers[t], p)
    BY <1>1, <2>1, AppendOnce
  <2>2. CASE s = <<p>> \o writers[t]
    BY <1>1, <2>2, PushOnce
  <2> QED BY <2>1, <2>2
<1>3. /\ writers' \in [Terminal -> Seq(Proc)] /\ writers'[t] = s
      /\ \A u \in Terminal : u # t => writers'[u] = writers[u]
  BY <1>2, Places DEF TypeOK
<1>4. Joined(WaitingLists, WaitingLists', <<"write", t>>, p)
  <2>1. ChangedAt(WaitingLists, WaitingLists', <<"write", t>>)
    BY <1>3, OneListChanges
  <2> QED BY <1>2, <1>3, <2>1, ListsAre DEF Joined
<1> QED BY <1>3, <1>4

(***************************************************************************)
(* write_tty that has more to transmit, and blocks.                        *)
(***************************************************************************)
LEMMA WriterBlocks ==
  ASSUME IInv, NEW p \in Proc, NEW c, Writes(p, c), c.total < c.len
  PROVE  IInv'
<1> DEFINE t == c.tty
           written == AtMost(Line, c.len)
           d == IF transmitting[t] THEN c ELSE [c EXCEPT !.total = @ + written]
           s == IF transmitting[t] THEN Append(writers[t], p) ELSE <<p>> \o writers[t]
<1>1. running = p /\ c \in Call /\ t \in Terminal
      /\ (pc[p] = "write" => call[p].tty = t) /\ UNCHANGED <<filled, readers>>
  BY DEF Writes, Call
<1>2. c.total \in Nat /\ c.len \in Nat /\ ~(c.total >= c.len)
  BY <1>1 DEF Call
<1>3. BlockAt(p, "write", ready) /\ WriteLoop(p, c)
  BY <1>2 DEF Writes, WriteLoop
<1>4. call' = [call EXCEPT ![p] = d] /\ writers' = [writers EXCEPT ![t] = s]
  BY <1>2, <1>3 DEF WriteLoop
<1>5. /\ device'[t] # NoOne /\ transmitting'[t] = TRUE
      /\ device' \in [Terminal -> Proc \cup {NoOne}]
      /\ transmitting' \in [Terminal -> BOOLEAN]
      /\ \A u \in Terminal : u # t => device'[u] = device[u] /\ transmitting'[u] = transmitting[u]
  <2>1. CASE transmitting[t]
    <3>1. UNCHANGED <<transmitting, device>>
      BY <1>2, <1>3, <2>1 DEF WriteLoop
    <3> QED BY <1>1, <2>1, <3>1, Places DEF IInv, DriverKnowsDevice, TypeOK
  <2>2. CASE ~transmitting[t]
    <3>1. /\ transmitting' = [transmitting EXCEPT ![t] = TRUE]
          /\ device' = [device EXCEPT ![t] = p]
      BY <1>2, <1>3, <2>2 DEF WriteLoop
    <3>2. p # NoOne
      BY TtyAssumption
    <3> QED BY <1>1, <3>1, <3>2, Places DEF TypeOK
  <2> QED BY <2>1, <2>2
<1>6. d \in Call /\ d.tty = t
  <2>1. written \in Nat
    BY <1>2, TtyAssumption DEF AtMost
  <2> HIDE DEF written
  <2>2. CASE transmitting[t]
    BY <1>1, <2>2
  <2>3. CASE ~transmitting[t]
    <3>1. c.total + written \in Nat
      BY <1>2, <2>1
    <3> QED BY <1>1, <2>3, <3>1 DEF Call
  <2> QED BY <2>2, <2>3
<1>7. s = Append(writers[t], p) \/ s = <<p>> \o writers[t]
  OBVIOUS
<1> HIDE DEF d, s
<1>8. /\ Joined(WaitingLists, WaitingLists', <<"write", t>>, p)
      /\ writers' \in [Terminal -> Seq(Proc)]
      /\ \A u \in Terminal : u # t => writers'[u] = writers[u]
  BY <1>1, <1>4, <1>7, WriterJoins
<1>9. /\ InPlace' /\ pc'[p] = "write" /\ call'[p] = d
      /\ \A q \in Proc : q # p => pc'[q] = pc[q] /\ call'[q] = call[q]
  <2>1. call' = [call EXCEPT ![p] = d]
    BY <1>4
  <2> QED BY <1>1, <1>3, <1>6, <1>8, <2>1, BlockInCall
<1>10. DriverKnowsDevice'
  BY <1>5 DEF IInv, DriverKnowsDevice
<1>11. ReadersWaitForInput'
  BY <1>1 DEF IInv, ReadersWaitForInput
<1>12. WritersAreServed'
  <2> SUFFICES ASSUME NEW u \in Terminal, u # t, writers[u] # <<>>, device[u] = NoOne
               PROVE  \E q \in Proc : /\ pc'[q] = "write" /\ call'[q].tty = u
                                      /\ q \notin Range(writers[u])
    BY <1>5, <1>8 DEF WritersAreServed
  <2>1. PICK q \in Proc : pc[q] = "write" /\ call[q].tty = u /\ q \notin Range(writers[u])
    BY DEF IInv, WritersAreServed
  <2>2. q # p
    BY <1>1, <2>1
  <2> QED BY <1>9, <2>1, <2>2
<1>13. filled' \in [Terminal -> 0..Line] /\ readers' \in [Terminal -> Seq(Proc)]
  BY <1>1, Places DEF TypeOK
<1> QED BY <1>5, <1>8, <1>9, <1>10, <1>11, <1>12, <1>13, InPlaceAgain

(***************************************************************************)
(* The first writer of terminal t is woken: by a writer that is done, or   *)
(* by the trap.                                                            *)
(***************************************************************************)
LEMMA FirstWriterLeaves ==
  ASSUME IInv, NEW t \in Terminal, writers' = [writers EXCEPT ![t] = RestOf(@)],
         UNCHANGED readers
  PROVE  /\ HeadOf(writers[t]) \in Seq(Proc) /\ IsInjective(HeadOf(writers[t]))
         /\ Taken(WaitingLists, WaitingLists', <<"write", t>>, Range(HeadOf(writers[t])))
         /\ writers' \in [Terminal -> Seq(Proc)]
         /\ \A u \in Terminal : u # t => writers'[u] = writers[u]
         /\ writers'[t] # <<>> =>
              \E q \in Proc : /\ pc[q] = "write" /\ call[q].tty = t /\ q # running
                              /\ q \notin Range(writers'[t])
<1> DEFINE w == HeadOf(writers[t])
           r == RestOf(writers[t])
<1>1. writers[t] \in Seq(Proc) /\ IsInjective(writers[t])
  BY Places
<1>2. /\ w \in Seq(Proc) /\ r \in Seq(Proc) /\ IsInjective(w) /\ IsInjective(r)
      /\ Range(w) \subseteq Range(writers[t]) /\ Range(r) = Range(writers[t]) \ Range(w)
      /\ writers[t] # <<>> => Range(w) # {}
  BY <1>1, HeadAndRest, HeadAndRestOnce
<1>3. writers[t] = <<>> => r = <<>>
  BY DEF RestOf
<1>4. writers' = [writers EXCEPT ![t] = r]
  OBVIOUS
<1> HIDE DEF w, r
<1>5. /\ writers' \in [Terminal -> Seq(Proc)] /\ writers'[t] = r
      /\ \A u \in Terminal : u # t => writers'[u] = writers[u]
  BY <1>2, <1>4, Places DEF TypeOK
<1>6. Taken(WaitingLists, WaitingLists', <<"write", t>>, Range(w))
  <2>1. ChangedAt(WaitingLists, WaitingLists', <<"write", t>>)
    BY <1>5, OneListChanges
  <2> QED BY <1>2, <1>5, <2>1, ListsAre DEF Taken
<1>7. ASSUME r # <<>>
      PROVE  \E q \in Proc : /\ pc[q] = "write" /\ call[q].tty = t /\ q # running
                             /\ q \notin Range(r)
  <2>1. PICK q : q \in Range(w)
    BY <1>2, <1>3, <1>7
  <2>2. q \in Range(writers[t]) /\ q \notin Range(r) /\ q \in Proc
    BY <1>2, <2>1, RangeOfSeq
  <2>3. pc[q] = "write" /\ call[q].tty = t
    BY <2>2, ListsAre DEF IInv, WaitsWhereItSays
  <2>4. q # running
    BY <2>2, RunnerIsUnlisted
  <2> QED BY <2>2, <2>3, <2>4
<1> QED BY <1>2, <1>5, <1>6, <1>7 DEF w

(***************************************************************************)
(* write_tty that is done, wakes the next writer and returns.              *)
(***************************************************************************)
LEMMA WriterReturns ==
  ASSUME IInv, NEW p \in Proc, NEW c, Writes(p, c), c.total >= c.len
  PROVE  IInv'
<1> DEFINE t == c.tty
           w == HeadOf(writers[t])
<1>1. running = p /\ c \in Call /\ t \in Terminal
      /\ (pc[p] = "write" => call[p].tty = t) /\ UNCHANGED <<filled, readers>>
  BY DEF Writes, Call
<1>2. ~(c.total < c.len)
  BY <1>1 DEF Call
<1>3. /\ writers' = [writers EXCEPT ![t] = SubSeq(@, 1 + Len(w), Len(@))]
      /\ call' = [call EXCEPT ![p] = c]
      /\ ReturnWith(p, ready \o w)
      /\ UNCHANGED <<transmitting, device>>
  BY <1>2 DEF Writes, WriteLoop, PassedOn
<1>4. writers' = [writers EXCEPT ![t] = RestOf(@)]
  <2>1. SubSeq(writers[t], 1 + Len(w), Len(writers[t])) = RestOf(writers[t])
    BY <1>1, Places, HeadAndRest
  <2> QED BY <1>3, <2>1
<1>5. /\ w \in Seq(Proc) /\ IsInjective(w)
      /\ Taken(WaitingLists, WaitingLists', <<"write", t>>, Range(w))
      /\ writers' \in [Terminal -> Seq(Proc)]
      /\ \A u \in Terminal : u # t => writers'[u] = writers[u]
      /\ writers'[t] # <<>> =>
           \E q \in Proc : /\ pc[q] = "write" /\ call[q].tty = t /\ q # running
                           /\ q \notin Range(writers'[t])
  BY <1>1, <1>4, FirstWriterLeaves
<1> HIDE DEF w
<1>6. /\ pc' \in [Proc -> {"user", "read", "write"}] /\ call' \in [Proc -> Call]
      /\ pc'[p] = "user" /\ ready' = ready \o w /\ running' = running
      /\ \A q \in Proc : q # p => pc'[q] = pc[q] /\ call'[q] = call[q]
  BY <1>1, <1>3, Places DEF ReturnWith, TypeOK, SchedTypeOK
<1>7. InPlace'
  <2>1. \A q \in Proc : q # running => pc'[q] = pc[q] /\ call'[q] = call[q]
    BY <1>1, <1>6
  <2>2. \A q \in Proc : pc'[q] = "read" => pc[q] = "read" /\ call'[q] = call[q]
    BY <1>6
  <2>3. /\ ready' = ready \o w /\ running' = running
        /\ pc' \in [Proc -> {"user", "read", "write"}] /\ call' \in [Proc -> Call]
    BY <1>6
  <2> QED BY <1>1, <1>5, <2>1, <2>2, <2>3, WakeInCall
<1>8. DriverKnowsDevice' /\ ReadersWaitForInput'
  BY <1>1, <1>3 DEF IInv, DriverKnowsDevice, ReadersWaitForInput
<1>9. WritersAreServed'
  <2> SUFFICES ASSUME NEW u \in Terminal, writers'[u] # <<>>, device[u] = NoOne
               PROVE  \E q \in Proc : /\ pc'[q] = "write" /\ call'[q].tty = u
                                      /\ q \notin Range(writers'[u])
    BY <1>3 DEF WritersAreServed
  <2>1. CASE u = t
    BY <1>1, <1>5, <1>6, <2>1
  <2>2. CASE u # t
    <3>1. PICK q \in Proc : pc[q] = "write" /\ call[q].tty = u /\ q \notin Range(writers[u])
      BY <1>5, <2>2 DEF IInv, WritersAreServed
    <3>2. q # p
      BY <1>1, <2>2, <3>1
    <3> QED BY <1>5, <1>6, <2>2, <3>1, <3>2
  <2> QED BY <2>1, <2>2
<1>10. /\ filled' \in [Terminal -> 0..Line] /\ readers' \in [Terminal -> Seq(Proc)]
       /\ device' \in [Terminal -> Proc \cup {NoOne}]
       /\ transmitting' \in [Terminal -> BOOLEAN]
  BY <1>1, <1>3, Places DEF TypeOK
<1> QED BY <1>5, <1>7, <1>8, <1>9, <1>10, InPlaceAgain

(***************************************************************************)
(* write_alert: the next writer is on its way when the device falls idle.  *)
(***************************************************************************)
LEMMA TransmitStep ==
  ASSUME IInv, NEW t \in Terminal, TrapTtyTransmit(t)
  PROVE  IInv'
<1> DEFINE w == HeadOf(writers[t])
<1>1. /\ device' = [device EXCEPT ![t] = NoOne]
      /\ transmitting' = [transmitting EXCEPT ![t] = FALSE]
      /\ writers' = [writers EXCEPT ![t] = RestOf(@)]
      /\ ready' = ready \o w
      /\ UNCHANGED <<running, pc, filled, readers, call>>
  BY DEF TrapTtyTransmit
<1>2. /\ w \in Seq(Proc) /\ IsInjective(w)
      /\ Taken(WaitingLists, WaitingLists', <<"write", t>>, Range(w))
      /\ writers' \in [Terminal -> Seq(Proc)]
      /\ \A u \in Terminal : u # t => writers'[u] = writers[u]
      /\ writers'[t] # <<>> =>
           \E q \in Proc : /\ pc[q] = "write" /\ call[q].tty = t /\ q # running
                           /\ q \notin Range(writers'[t])
  BY <1>1, FirstWriterLeaves
<1> HIDE DEF w
<1>3. InPlace'
  <2>1. pc' \in [Proc -> {"user", "read", "write"}] /\ call' \in [Proc -> Call]
    BY <1>1, Places DEF TypeOK, SchedTypeOK
  <2>2. ready' = ready \o w /\ running' = running /\ pc' = pc /\ call' = call
    BY <1>1
  <2> QED BY <1>2, <2>1, <2>2, WakeInCall
<1>4. DriverKnowsDevice' /\ ReadersWaitForInput'
  BY <1>1, Places DEF IInv, DriverKnowsDevice, ReadersWaitForInput, TypeOK
<1>5. WritersAreServed'
  <2>1. \A u \in Terminal : u # t => device'[u] = device[u]
    BY <1>1, Places DEF TypeOK
  <2> QED BY <1>1, <1>2, <2>1 DEF IInv, WritersAreServed
<1>6. /\ filled' \in [Terminal -> 0..Line] /\ readers' \in [Terminal -> Seq(Proc)]
      /\ device' \in [Terminal -> Proc \cup {NoOne}]
      /\ transmitting' \in [Terminal -> BOOLEAN]
  BY <1>1, Places DEF TypeOK
<1> QED BY <1>2, <1>3, <1>4, <1>5, <1>6, InPlaceAgain

-----------------------------------------------------------------------------
(***************************************************************************)
(* read_tty up to its next block or its return, by a caller or by a woken  *)
(* reader.                                                                 *)
(***************************************************************************)
Reads(p, c) ==
  /\ running = p /\ pc[p] \in {"user", "read"} /\ c \in Call /\ 0 < c.len
  /\ ReadLoop(p, c)

(***************************************************************************)
(* What a reader does is nothing to the writers.                           *)
(***************************************************************************)
LEMMA ReadersLeaveWriters ==
  ASSUME IInv, NEW p \in Proc, pc[p] # "write", UNCHANGED <<writers, device>>,
         \A q \in Proc : q # p => pc'[q] = pc[q] /\ call'[q] = call[q]
  PROVE  WritersAreServed'
<1> SUFFICES ASSUME NEW t \in Terminal, writers[t] # <<>>, device[t] = NoOne
             PROVE  \E q \in Proc : /\ pc'[q] = "write" /\ call'[q].tty = t
                                    /\ q \notin Range(writers[t])
  BY DEF WritersAreServed
<1>1. PICK q \in Proc : pc[q] = "write" /\ call[q].tty = t /\ q \notin Range(writers[t])
  BY DEF IInv, WritersAreServed
<1>2. q # p
  BY <1>1
<1> QED BY <1>1, <1>2

(***************************************************************************)
(* read_tty that finds the buffer empty, and blocks.                       *)
(***************************************************************************)
LEMMA ReaderBlocks ==
  ASSUME IInv, NEW p \in Proc, NEW c, Reads(p, c), AtMost(filled[c.tty], c.len) = 0
  PROVE  IInv'
<1> DEFINE t == c.tty
           s == Append(readers[t], p)
<1>1. /\ running = p /\ pc[p] # "write" /\ c \in Call /\ 0 < c.len /\ t \in Terminal
      /\ call' = [call EXCEPT ![p] = c]
      /\ filled' = [filled EXCEPT ![t] = @ - 0]
      /\ readers' = [readers EXCEPT ![t] = Append(@, p)]
      /\ BlockAt(p, "read", ready)
      /\ UNCHANGED <<transmitting, writers, device>>
  BY DEF Reads, ReadLoop, Call
<1>2. filled[t] = 0 /\ filled' = filled
  <2>1. filled[t] \in Nat /\ c.len \in Nat /\ filled \in [Terminal -> 0..Line]
    BY <1>1, Places, TtyAssumption DEF TypeOK, Call
  <2> QED BY <1>1, <2>1 DEF AtMost
<1>3. s \in Seq(Proc) /\ IsInjective(s) /\ Range(s) = Range(readers[t]) \cup {p}
  BY <1>1, Places, RunnerIsUnlisted, AppendOnce
<1>4. readers' = [readers EXCEPT ![t] = s]
  BY <1>1
<1> HIDE DEF s
<1>5. /\ readers' \in [Terminal -> Seq(Proc)] /\ readers'[t] = s
      /\ \A u \in Terminal : u # t => readers'[u] = readers[u]
  BY <1>1, <1>3, <1>4, Places DEF TypeOK
<1>6. Joined(WaitingLists, WaitingLists', <<"read", t>>, p)
  <2>1. ChangedAt(WaitingLists, WaitingLists', <<"read", t>>)
    BY <1>1, <1>5, OneListChanges
  <2> QED BY <1>1, <1>3, <1>5, <2>1, ListsAre DEF Joined
<1>7. /\ InPlace' /\ pc'[p] = "read" /\ call'[p] = c
      /\ \A q \in Proc : q # p => pc'[q] = pc[q] /\ call'[q] = call[q]
  <2>1. /\ running = p /\ t \in Terminal /\ BlockAt(p, "read", ready) /\ c \in Call
        /\ call' = [call EXCEPT ![p] = c] /\ 0 < c.len
    BY <1>1
  <2> QED BY <1>6, <2>1, BlockInCall
<1>8. WritersAreServed'
  BY <1>1, <1>7, ReadersLeaveWriters
<1>9. DriverKnowsDevice' /\ ReadersWaitForInput'
  BY <1>1, <1>2, <1>5 DEF IInv, DriverKnowsDevice, ReadersWaitForInput
<1>10. /\ filled' \in [Terminal -> 0..Line] /\ writers' \in [Terminal -> Seq(Proc)]
       /\ device' \in [Terminal -> Proc \cup {NoOne}]
       /\ transmitting' \in [Terminal -> BOOLEAN]
  BY <1>1, <1>2, Places DEF TypeOK
<1> QED BY <1>5, <1>7, <1>8, <1>9, <1>10, InPlaceAgain

(***************************************************************************)
(* read_tty that gets characters and returns.                              *)
(***************************************************************************)
LEMMA ReaderReturns ==
  ASSUME IInv, NEW p \in Proc, NEW c, Reads(p, c), AtMost(filled[c.tty], c.len) # 0
  PROVE  IInv'
<1> DEFINE t == c.tty
           read == AtMost(filled[t], c.len)
<1>1. /\ running = p /\ pc[p] # "write" /\ c \in Call /\ 0 < c.len /\ t \in Terminal
      /\ call' = [call EXCEPT ![p] = c]
      /\ filled' = [filled EXCEPT ![t] = @ - read]
      /\ ReturnWith(p, ready)
      /\ UNCHANGED <<readers, transmitting, writers, device>>
  BY DEF Reads, ReadLoop, Call
<1>2. /\ filled[t] # 0 /\ filled' \in [Terminal -> 0..Line]
      /\ \A u \in Terminal : u # t => filled'[u] = filled[u]
  <2>1. filled \in [Terminal -> 0..Line] /\ c.len \in Nat /\ Line \in Nat
    BY <1>1, Places, TtyAssumption DEF TypeOK, Call
  <2>2. read \in 0..filled[t] /\ filled[t] # 0
    BY <1>1, <2>1 DEF AtMost
  <2> HIDE DEF read
  <2> QED BY <1>1, <2>1, <2>2
<1> HIDE DEF read
<1>3. /\ pc' \in [Proc -> {"user", "read", "write"}] /\ call' \in [Proc -> Call]
      /\ pc'[p] = "user" /\ ready' = ready /\ running' = running
      /\ \A q \in Proc : q # p => pc'[q] = pc[q] /\ call'[q] = call[q]
  BY <1>1, Places DEF ReturnWith, TypeOK, SchedTypeOK
<1>4. WaitingLists' = WaitingLists
  BY <1>1 DEF WaitingLists
<1>5. InPlace'
  <2>1. /\ RunnableOnce' /\ Runnable' = Runnable
        /\ SchedTypeOK({"user", "read", "write"})'
    BY <1>3, Places DEF RunnableOnce, Runnable, SchedTypeOK
  <2>2. ReadersWantSomething'
    BY <1>1, <1>3 DEF IInv, ReadersWantSomething
  <2>3. WaitsWhereItSays'
    <3> SUFFICES ASSUME NEW m \in {"read", "write"}, NEW u \in Terminal,
                        NEW q \in Range(WaitingLists[<<m, u>>])
                 PROVE  pc'[q] = m /\ call'[q].tty = u
      BY <1>4 DEF WaitsWhereItSays
    <3>1. <<m, u>> \in DOMAIN WaitingLists
      BY ListsAre
    <3>2. q \in Proc /\ q # p
      BY <1>1, <3>1, Places, RunnerIsUnlisted DEF Queued
    <3>3. pc[q] = m /\ call[q].tty = u
      BY DEF IInv, WaitsWhereItSays
    <3> QED BY <1>3, <3>2, <3>3
  <2>4. Separate(WaitingLists', Runnable') /\ Proc = Runnable' \cup Queued(WaitingLists')
    BY <1>4, <2>1, Places
  <2> QED BY <1>3, <2>1, <2>2, <2>3, <2>4 DEF InPlace, Separate, Queued
<1>6. WritersAreServed'
  BY <1>1, <1>3, ReadersLeaveWriters
<1>7. DriverKnowsDevice' /\ ReadersWaitForInput'
  BY <1>1, <1>2 DEF IInv, DriverKnowsDevice, ReadersWaitForInput
<1>8. /\ writers' \in [Terminal -> Seq(Proc)] /\ readers' \in [Terminal -> Seq(Proc)]
      /\ device' \in [Terminal -> Proc \cup {NoOne}]
      /\ transmitting' \in [Terminal -> BOOLEAN]
  BY <1>1, Places DEF TypeOK
<1> QED BY <1>2, <1>5, <1>6, <1>7, <1>8, InPlaceAgain

(***************************************************************************)
(* receive: if any character fits, no reader is left on the list.          *)
(***************************************************************************)
LEMMA ReceiveStep ==
  ASSUME IInv, NEW t \in Terminal, NEW n \in 0..Line, TrapTtyReceive(t, n)
  PROVE  IInv'
<1> DEFINE a == Accepted(t, n)
           w == readers[t]
<1>1. /\ filled' = [filled EXCEPT ![t] = @ + a]
      /\ UNCHANGED <<running, pc, transmitting, writers, device, call>>
  BY DEF TrapTtyReceive
<1>2. filled \in [Terminal -> 0..Line] /\ Line \in Nat /\ a \in 0..(Line - filled[t])
  <2>1. filled \in [Terminal -> 0..Line] /\ Line \in Nat /\ n \in Nat
    BY Places, TtyAssumption DEF TypeOK
  <2> QED BY <2>1 DEF Accepted, AtMost
<1> HIDE DEF a
<1>3. CASE a > 0
  <2>1. /\ readers' = [readers EXCEPT ![t] = SubSeq(@, 1 + Len(w), Len(@))]
        /\ ready' = ready \o w
    <3>1. ~(Accepted(t, n) <= 0)
      BY <1>2, <1>3 DEF a
    <3> QED BY <3>1 DEF TrapTtyReceive, WokenReaders
  <2>2. w \in Seq(Proc) /\ IsInjective(w) /\ SubSeq(w, 1 + Len(w), Len(w)) = <<>>
    BY Places, NoneAndAll
  <2>3. readers' = [readers EXCEPT ![t] = <<>>]
    BY <2>1, <2>2
  <2>4. /\ readers' \in [Terminal -> Seq(Proc)] /\ readers'[t] = <<>>
        /\ \A u \in Terminal : u # t => readers'[u] = readers[u]
    BY <2>3, Places, EmptySeq DEF TypeOK
  <2>5. Taken(WaitingLists, WaitingLists', <<"read", t>>, Range(w))
    <3>1. ChangedAt(WaitingLists, WaitingLists', <<"read", t>>)
      BY <1>1, <2>4, OneListChanges
    <3> QED BY <2>4, <3>1, ListsAre, ShortOnce DEF Taken
  <2> HIDE DEF w
  <2>6. InPlace'
    <3>1. pc' \in [Proc -> {"user", "read", "write"}] /\ call' \in [Proc -> Call]
      BY <1>1, Places DEF TypeOK, SchedTypeOK
    <3>2. ready' = ready \o w /\ running' = running /\ pc' = pc /\ call' = call
      BY <1>1, <2>1
    <3> QED BY <2>2, <2>5, <3>1, <3>2, WakeInCall
  <2>7. /\ filled' \in [Terminal -> 0..Line]
        /\ \A u \in Terminal : u # t => filled'[u] = filled[u]
    BY <1>1, <1>2
  <2>8. DriverKnowsDevice' /\ WritersAreServed' /\ ReadersWaitForInput'
    BY <1>1, <2>4, <2>7 DEF IInv, DriverKnowsDevice, WritersAreServed, ReadersWaitForInput
  <2>9. /\ writers' \in [Terminal -> Seq(Proc)] /\ device' \in [Terminal -> Proc \cup {NoOne}]
        /\ transmitting' \in [Terminal -> BOOLEAN]
    BY <1>1, Places DEF TypeOK
  <2> QED BY <2>4, <2>6, <2>7, <2>8, <2>9, InPlaceAgain
<1>4. CASE a <= 0
  <2>1. UNCHANGED <<readers, ready>>
    BY <1>2, <1>4 DEF TrapTtyReceive, a
  <2>2. filled' = filled
    <3>1. a = 0
      BY <1>2, <1>4
    <3> QED BY <1>1, <1>2, <3>1
  <2>3. RunnableOnce' /\ Runnable' = Runnable
    BY <1>1, <2>1, Places DEF RunnableOnce, Runnable
  <2>4. UNCHANGED <<ttyVars, pc, call>>
    BY <1>1, <2>1, <2>2 DEF ttyVars
  <2> QED BY <1>1, <2>1, <2>3, <2>4, Places, SameTerminals
<1> QED BY <1>2, <1>3, <1>4

-----------------------------------------------------------------------------
(***************************************************************************)
(* The four ways into the two loops.                                       *)
(***************************************************************************)
LEMMA WritesStep ==
  ASSUME IInv, NEW p \in Proc,
         ResumeWrite(p) \/ \E t \in Terminal, n \in 0..MaxLen : KernelTtyWrite(p, t, n)
  PROVE  \E c \in Call : Writes(p, c)
<1>1. CASE ResumeWrite(p)
  <2>1. call[p] \in Call
    BY Places DEF TypeOK
  <2>2. Writes(p, call[p])
    BY <1>1, <2>1 DEF ResumeWrite, Writes
  <2> QED BY <2>1, <2>2
<1>2. CASE \E t \in Terminal, n \in 0..MaxLen : KernelTtyWrite(p, t, n)
  <2>1. PICK t \in Terminal, n \in 0..MaxLen : KernelTtyWrite(p, t, n)
    BY <1>2
  <2> DEFINE c == [tty |-> t, len |-> n, total |-> 0]
  <2>2. c \in Call
    BY TtyAssumption DEF Call
  <2>3. /\ running = p /\ pc[p] = "user" /\ WriteLoop(p, c)
        /\ UNCHANGED <<filled, readers>>
    BY <2>1 DEF KernelTtyWrite, InUser
  <2> HIDE DEF c
  <2>4. Writes(p, c)
    BY <2>2, <2>3 DEF Writes
  <2> QED BY <2>2, <2>4
<1> QED BY <1>1, <1>2

LEMMA ReadsStep ==
  ASSUME IInv, NEW p \in Proc,
         ResumeRead(p) \/ \E t \in Terminal, n \in 1..MaxLen : KernelTtyRead(p, t, n)
  PROVE  \E c \in Call : Reads(p, c)
<1>1. CASE ResumeRead(p)
  <2>1. call[p] \in Call
    BY Places DEF TypeOK
  <2>2. Reads(p, call[p])
    BY <1>1, <2>1 DEF ResumeRead, Reads, IInv, ReadersWantSomething
  <2> QED BY <2>1, <2>2
<1>2. CASE \E t \in Terminal, n \in 1..MaxLen : KernelTtyRead(p, t, n)
  <2>1. PICK t \in Terminal, n \in 1..MaxLen : KernelTtyRead(p, t, n)
    BY <1>2
  <2> DEFINE c == [tty |-> t, len |-> n, total |-> 0]
  <2>2. c \in Call /\ 0 < c.len
    BY TtyAssumption DEF Call
  <2>3. running = p /\ pc[p] = "user" /\ ReadLoop(p, c)
    BY <2>1 DEF KernelTtyRead, InUser
  <2> HIDE DEF c
  <2>4. Reads(p, c)
    BY <2>2, <2>3 DEF Reads
  <2> QED BY <2>2, <2>4
<1> QED BY <1>1, <1>2

(***************************************************************************)
(* Every step keeps the inductive invariant.                               *)
(***************************************************************************)
LEMMA NextIInv == IInv /\ [Next]_vars => IInv'
<1> SUFFICES ASSUME IInv, [Next]_vars PROVE IInv'
  OBVIOUS
<1>1. CASE UNCHANGED vars
  <2>1. UNCHANGED <<running, ready, pc, ttyVars, call>>
    BY <1>1 DEF vars, schedVars
  <2>2. RunnableOnce' /\ Runnable' = Runnable
    BY <2>1, Places DEF RunnableOnce, Runnable
  <2> QED BY <2>1, <2>2, Places, SameTerminals
<1>2. CASE TrapClock
  BY <1>2, ClockStep
<1>3. CASE \E t \in Terminal : TrapTtyTransmit(t) \/ \E n \in 0..Line : TrapTtyReceive(t, n)
  BY <1>3, TransmitStep, ReceiveStep
<1>4. CASE \E p \in Proc : Calls(p) \/ Resume(p)
  <2>1. PICK p \in Proc : Calls(p) \/ Resume(p)
    BY <1>4
  <2>2. CASE ResumeWrite(p) \/ \E t \in Terminal, n \in 0..MaxLen : KernelTtyWrite(p, t, n)
    <3>1. PICK c \in Call : Writes(p, c)
      BY <2>2, WritesStep
    <3>2. c.total \in Nat /\ c.len \in Nat
      BY DEF Call
    <3> QED BY <3>1, <3>2, WriterBlocks, WriterReturns
  <2>3. CASE ResumeRead(p) \/ \E t \in Terminal, n \in 1..MaxLen : KernelTtyRead(p, t, n)
    <3>1. PICK c \in Call : Reads(p, c)
      BY <2>3, ReadsStep
    <3> QED BY <3>1, ReaderBlocks, ReaderReturns
  <2> QED BY <2>1, <2>2, <2>3 DEF Calls, Resume
<1> QED BY <1>1, <1>2, <1>3, <1>4 DEF Next

(***************************************************************************)
(* IInv holds from the boot on, after every system call, every trap and    *)
(* every resumed handler.                                                  *)
(***************************************************************************)
THEOREM InductiveInvariant == Spec => []IInv
<1> QED BY InitIInv, NextIInv, PTL DEF Spec

(***************************************************************************)
(* Whatever the processes and the terminals do, nobody sits on two lists   *)
(* or on none, although write_tty queues at both ends of its list.         *)
(***************************************************************************)
THEOREM AlwaysOnePlace == Spec => []OnePlace
<1>1. IInv => OnePlace
  BY DEF IInv
<1> QED BY <1>1, InductiveInvariant, PTL

(***************************************************************************)
(* While anybody waits to write, the device is busy or a woken writer is   *)
(* on its way, however writers overtake each other.                        *)
(***************************************************************************)
THEOREM WritersAlwaysServed == Spec => []WritersAreServed
<1>1. IInv => WritersAreServed
  BY DEF IInv
<1> QED BY <1>1, InductiveInvariant, PTL

(***************************************************************************)
(* No reader waits on a terminal that holds characters.                    *)
(***************************************************************************)
THEOREM ReadersOnlyWaitForInput == Spec => []ReadersWaitForInput
<1>1. IInv => ReadersWaitForInput
  BY DEF IInv
<1> QED BY <1>1, InductiveInvariant, PTL

=============================================================================
