------------------------------ MODULE LockCvar ------------------------------
(***************************************************************************)
(* Locks and condition variables: the lock and cvar functions of           *)
(* ksrc/pilocvario.c and the system calls of ksrc/syscalls.c that reach    *)
(* them.  Locks are Mesa style: release wakes the first waiter, which runs *)
(* later, checks again and may block again; meanwhile anybody may acquire. *)
(*                                                                         *)
(* A member of Id is an identifier that new_id hands out; find_lock and    *)
(* find_cvar look identifiers up by kind.  A call with an identifier of    *)
(* the wrong kind returns ERROR and changes nothing.                       *)
(*                                                                         *)
(* A process may end and its node be used again by Fork: the locks know    *)
(* processes by the addresses of their nodes and are not told.             *)
(***************************************************************************)
EXTENDS Scheduling

CONSTANTS
  MaxId,  \* bound: how many locks and condition variables are ever created
  NoOne,  \* the NULL owner
  Mortal  \* bound: the processes that may exit

ASSUME LockCvarAssumption ==
  MaxId \in Nat \ {0} /\ NoOne \notin Proc /\ Mortal \subseteq Proc

Id == 0..(MaxId - 1)

VARIABLES
  count,        \* pilocvar->count: the next identifier
  kind,         \* kind[i]: not created, in a list of pilocvar, or destroyed
  owner,        \* lock->owner
  blocked,      \* lock->blocked, cvar->blocked
  unfulfilled,  \* lock->unfulfilled: woken by release, not running yet
  cvar,         \* lock->cvar: processes inside CvarWait with this lock
  want,         \* want[p]: the lock that p, inside a call, is to acquire
  gone          \* the nodes of processes that have exited, until used again

objVars == <<count, kind, owner, blocked, unfulfilled, cvar>>
vars == <<schedVars, objVars, want, gone>>

TypeOK ==
  /\ SchedTypeOK({"user", "acquire", "cvwait", "reacquire"})
  /\ count \in 0..MaxId
  /\ kind \in [Id -> {"none", "lock", "cvar", "gone"}]
  /\ owner \in [Id -> Proc \cup {NoOne}]
  /\ blocked \in [Id -> Seq(Proc)]
  /\ unfulfilled \in [Id -> Nat]
  /\ cvar \in [Id -> Nat]
  /\ want \in [Proc -> Id]
  /\ gone \subseteq Mortal

-----------------------------------------------------------------------------
Init ==
  /\ SchedInit
  /\ count = 0
  /\ kind = [i \in Id |-> "none"]
  /\ owner = [i \in Id |-> NoOne]
  /\ blocked = [i \in Id |-> <<>>]
  /\ unfulfilled = [i \in Id |-> 0]
  /\ cvar = [i \in Id |-> 0]
  /\ want = [p \in Proc |-> 0]
  /\ gone = {}

(***************************************************************************)
(* The nodes of pilocvar->lock and pilocvar->cvar, found by identifier.    *)
(***************************************************************************)
find_lock(i) == kind[i] = "lock"
find_cvar(i) == kind[i] = "cvar"

new_lock(i) ==
  /\ kind' = [kind EXCEPT ![i] = "lock"]
  /\ owner' = [owner EXCEPT ![i] = NoOne]
  /\ blocked' = [blocked EXCEPT ![i] = <<>>]
  /\ unfulfilled' = [unfulfilled EXCEPT ![i] = 0]
  /\ cvar' = [cvar EXCEPT ![i] = 0]

new_cvar(i) ==
  /\ kind' = [kind EXCEPT ![i] = "cvar"]
  /\ blocked' = [blocked EXCEPT ![i] = <<>>]
  /\ UNCHANGED <<owner, unfulfilled, cvar>>

(***************************************************************************)
(* KernelLockInit and KernelCvarInit.  When memory is short or the result  *)
(* address is bad they change nothing.                                     *)
(***************************************************************************)
new_id == count < MaxId /\ count' = count + 1

KernelLockInit(p) ==
  InUser(p) /\ new_id /\ new_lock(count) /\ UNCHANGED <<schedVars, want, gone>>

KernelCvarInit(p) ==
  InUser(p) /\ new_id /\ new_cvar(count) /\ UNCHANGED <<schedVars, want, gone>>

(***************************************************************************)
(* Fault: acquire tests the owner once, before it blocks; a woken process  *)
(* takes the lock without looking.                                         *)
(***************************************************************************)
MayTakeOnce(p, l) == pc[p] = "acquire" \/ owner[l] \in {NoOne, p}

(***************************************************************************)
(* The test of the loop of acquire.                                        *)
(***************************************************************************)
MayTake(p, l) == owner[l] \in {NoOne, p}

(***************************************************************************)
(* Fault: a process woken by Signal counts as one woken by release.        *)
(***************************************************************************)
FulfilledAlways(p) == [unfulfilled EXCEPT ![want[p]] = @ - 1]

(***************************************************************************)
(* The counter of the lock wanted by p after p has been woken in the loop  *)
(* of acquire.  A process woken by Signal has not been promised the lock.  *)
(***************************************************************************)
Fulfilled(p) ==
  IF pc[p] \in {"acquire", "reacquire"}
  THEN [unfulfilled EXCEPT ![want[p]] = @ - 1] ELSE unfulfilled

(***************************************************************************)
(* One round of the loop of acquire: p takes the lock, or blocks at point. *)
(***************************************************************************)
AcquireLoop(p, l, point) ==
  \/ /\ MayTake(p, l)
     /\ owner' = [owner EXCEPT ![l] = p]
     /\ ReturnWith(p, ready)
     /\ UNCHANGED blocked
  \/ /\ ~MayTake(p, l)
     /\ blocked' = [blocked EXCEPT ![l] = Append(@, p)]
     /\ BlockAt(p, point, ready)
     /\ UNCHANGED owner

KernelAcquire(p, l) ==
  /\ InUser(p) /\ find_lock(l)
  /\ AcquireLoop(p, l, "acquire")
  /\ want' = [want EXCEPT ![p] = l]
  /\ UNCHANGED <<count, kind, unfulfilled, cvar, gone>>

ResumeAcquire(p) ==
  /\ running = p /\ pc[p] = "acquire"
  /\ AcquireLoop(p, want[p], "acquire")
  /\ unfulfilled' = Fulfilled(p)
  /\ UNCHANGED <<count, kind, cvar, want, gone>>

(***************************************************************************)
(* wait_cvar after the wake-up: acquire, and cvar-- once that returns.     *)
(***************************************************************************)
ResumeCvarWait(p) ==
  /\ running = p /\ pc[p] \in {"cvwait", "reacquire"}
  /\ AcquireLoop(p, want[p], "reacquire")
  /\ unfulfilled' = Fulfilled(p)
  /\ cvar' = IF MayTake(p, want[p]) THEN [cvar EXCEPT ![want[p]] = @ - 1] ELSE cvar
  /\ UNCHANGED <<count, kind, want, gone>>

(***************************************************************************)
(* Fault: release wakes nobody.                                            *)
(***************************************************************************)
WokenByReleaseNone(p, l) == <<>>

(***************************************************************************)
(* release of lock l by p.  It returns ERROR and does nothing unless p     *)
(* owns the lock; otherwise the first waiter is woken and promised the     *)
(* lock, and the lock has no owner.                                        *)
(***************************************************************************)
WokenByRelease(p, l) == IF owner[l] = p THEN HeadOf(blocked[l]) ELSE <<>>
BlockedAfterRelease(p, l) ==
  SubSeq(blocked[l], 1 + Len(WokenByRelease(p, l)), Len(blocked[l]))

Release(p, l) ==
  /\ owner' = [owner EXCEPT ![l] = IF @ = p THEN NoOne ELSE @]
  /\ unfulfilled' =
       [unfulfilled EXCEPT ![l] = IF WokenByRelease(p, l) = <<>> THEN @ ELSE @ + 1]

KernelRelease(p, l) ==
  /\ InUser(p) /\ find_lock(l) /\ owner[l] = p
  /\ Release(p, l)
  /\ blocked' = [blocked EXCEPT ![l] = BlockedAfterRelease(p, l)]
  /\ ReturnWith(p, ready \o WokenByRelease(p, l))
  /\ UNCHANGED <<count, kind, cvar, want, gone>>

(***************************************************************************)
(* KernelCvarWait: release, whose ERROR for a caller that does not own the *)
(* lock is ignored, then cvar++ and block.                                 *)
(***************************************************************************)
KernelCvarWait(p, c, l) ==
  /\ InUser(p) /\ find_cvar(c) /\ find_lock(l)
  /\ Release(p, l)
  /\ blocked' = [blocked EXCEPT ![l] = BlockedAfterRelease(p, l), ![c] = Append(@, p)]
  /\ cvar' = [cvar EXCEPT ![l] = @ + 1]
  /\ BlockAt(p, "cvwait", ready \o WokenByRelease(p, l))
  /\ want' = [want EXCEPT ![p] = l]
  /\ UNCHANGED <<count, kind, gone>>

(***************************************************************************)
(* signal_cvar wakes the first waiter, broadcast all of them.              *)
(***************************************************************************)
KernelCvarSignal(p, c) ==
  /\ InUser(p) /\ find_cvar(c)
  /\ blocked' = [blocked EXCEPT ![c] = RestOf(@)]
  /\ ReturnWith(p, ready \o HeadOf(blocked[c]))
  /\ UNCHANGED <<count, kind, owner, unfulfilled, cvar, want, gone>>

KernelCvarBroadcast(p, c) ==
  /\ InUser(p) /\ find_cvar(c)
  /\ blocked' = [blocked EXCEPT ![c] = <<>>]
  /\ ReturnWith(p, ready \o blocked[c])
  /\ UNCHANGED <<count, kind, owner, unfulfilled, cvar, want, gone>>

(***************************************************************************)
(* Fault: destroy_lock does not look at lock->cvar.                        *)
(***************************************************************************)
DestructibleDespiteCvar(l) ==
  owner[l] = NoOne /\ blocked[l] = <<>> /\ unfulfilled[l] <= 0

(***************************************************************************)
(* The test of destroy_lock.                                               *)
(***************************************************************************)
Destructible(l) ==
  owner[l] = NoOne /\ blocked[l] = <<>> /\ unfulfilled[l] <= 0 /\ cvar[l] <= 0

destroy_lock(l) == Destructible(l) /\ kind' = [kind EXCEPT ![l] = "gone"]

(***************************************************************************)
(* destroy_cvar reads the condition variable through a lock_t pointer: the *)
(* word it takes for the waiting list lies behind the cvar_t, in memory    *)
(* that new_cvar allocated and never wrote.  A NULL, or the address of a   *)
(* zero word, passes the test (is_empty of NULL is -1) whatever the real   *)
(* list holds; any other value gives ERROR, which changes nothing.         *)
(***************************************************************************)
destroy_cvar(c) == kind' = [kind EXCEPT ![c] = "gone"]

KernelReclaim(p, i) ==
  /\ InUser(p)
  /\ \/ find_cvar(i) /\ destroy_cvar(i)
     \/ find_lock(i) /\ destroy_lock(i)
  /\ UNCHANGED <<schedVars, count, owner, blocked, unfulfilled, cvar, want, gone>>

(***************************************************************************)
(* KernelExit, or a trap that aborts the process, and a later Fork that    *)
(* gets the memory of its node.  A process inside a call cannot end.       *)
(***************************************************************************)
KernelExit(p) ==
  /\ InUser(p) /\ p \in Mortal
  /\ gone' = gone \cup {p}
  /\ RunNextReady(ready)
  /\ UNCHANGED <<pc, objVars, want>>

KernelFork(p) ==
  /\ InUser(p)
  /\ \E c \in gone : gone' = gone \ {c} /\ ReturnWith(p, Append(ready, c))
  /\ UNCHANGED <<objVars, want>>

TrapClock == ClockTick /\ UNCHANGED <<objVars, want, gone>>

Calls(p) ==
  \/ KernelLockInit(p)
  \/ KernelCvarInit(p)
  \/ KernelExit(p) \/ KernelFork(p)
  \/ \E i \in Id :
       \/ KernelAcquire(p, i)
       \/ KernelRelease(p, i)
       \/ \E l \in Id : KernelCvarWait(p, i, l)
       \/ KernelCvarSignal(p, i)
       \/ KernelCvarBroadcast(p, i)
       \/ KernelReclaim(p, i)

Resume(p) == ResumeAcquire(p) \/ ResumeCvarWait(p)

Next == TrapClock \/ \E p \in Proc : Calls(p) \/ Resume(p)

(***************************************************************************)
(* The clock interrupts for ever, and what is taken late is taken on the   *)
(* return to user mode; a dispatched handler runs on.  User code owes the  *)
(* kernel nothing.                                                         *)
(***************************************************************************)
Fairness == SF_vars(TrapClock) /\ \A p \in Proc : WF_vars(Resume(p))

Spec == Init /\ [][Next]_vars
FairSpec == Spec /\ Fairness

-----------------------------------------------------------------------------
(***************************************************************************)
(* A process sits in exactly one place: on the processor, at one position  *)
(* of the ready queue, or at one position of one waiting list.  The        *)
(* release, block, acquire chain of wait_cvar moves two nodes at once.  No *)
(* list keeps the node of a process that has ended.                        *)
(***************************************************************************)
OnePlace ==
  /\ TypeOK
  /\ QueuedOnce(blocked)
  /\ Runnable \cup Queued(blocked) = Proc \ gone

(***************************************************************************)
(* The counters that keep destroy_lock from freeing a lock are exact:      *)
(* unfulfilled is the number of processes that release has woken and that  *)
(* have not run yet, cvar that of the processes between the start of       *)
(* CvarWait and its return, wherever those wait or run in between.         *)
(***************************************************************************)
Listed(p, i) == p \in Range(blocked[i])
Limbo(l) == {p \in Proc : /\ pc[p] \in {"acquire", "reacquire"}
                          /\ want[p] = l /\ ~Listed(p, l)}
CvarWaiters(l) == {p \in Proc : pc[p] \in {"cvwait", "reacquire"} /\ want[p] = l}

CountersAreExact ==
  \A l \in Id : /\ unfulfilled[l] = Cardinality(Limbo(l))
               /\ cvar[l] = Cardinality(CvarWaiters(l))

(***************************************************************************)
(* KernelReclaim never frees a lock that some process, blocked or woken,   *)
(* still touches when it runs again ("hopefully still there", wait_cvar).  *)
(***************************************************************************)
NoUseAfterDestroy == \A p \in Proc : pc[p] # "user" => kind[want[p]] = "lock"

(***************************************************************************)
(* No wake-up is lost although release wakes one process only and anybody  *)
(* may take the lock before it runs: a lock with waiters is owned, or one  *)
(* of the processes that were woken for it has yet to look at it.          *)
(***************************************************************************)
NoLostWakeup ==
  \A l \in Id : blocked[l] # <<>> /\ kind[l] = "lock" => owner[l] # NoOne \/ Limbo(l) # {}

(***************************************************************************)
(* A free lock that somebody waits for is taken.                           *)
(***************************************************************************)
FreeLockIsTaken ==
  \A l \in Id : (kind[l] = "lock" /\ owner[l] = NoOne /\ blocked[l] # <<>>)
               ~> (owner[l] # NoOne)

(***************************************************************************)
(* The kernel's locks and condition variables implement Monitor: mutual    *)
(* exclusion from Acquire's return to Release, CvarWait returns with the   *)
(* lock, and gives it up and sleeps in one step.                           *)
(***************************************************************************)
SleepsOn(p) == {c \in Id : Listed(p, c)}

modeBar ==
  [p \in Proc |->
     IF pc[p] = "user" THEN <<"user">>
     ELSE IF pc[p] = "cvwait" /\ SleepsOn(p) # {}
          THEN <<"asleep", CHOOSE c \in SleepsOn(p) : TRUE, want[p]>>
          ELSE <<"enter", want[p]>>]

Abstract == INSTANCE Monitor WITH holder <- owner, mode <- modeBar
ImplementsMonitor == Abstract!Spec

-----------------------------------------------------------------------------
(***************************************************************************)
(* Statements of comments that the code does not keep.                     *)
(*                                                                         *)
(* destroy_cvar: "cant destroy easily!" -- a condition variable somebody   *)
(* waits on is not destroyed (pilocvario.c).                               *)
(***************************************************************************)
WaitedCvarSurvives ==
  \A p \in Proc, c \in Id : pc[p] = "cvwait" /\ Listed(p, c) => kind[c] = "cvar"

(***************************************************************************)
(* wait_cvar: "must have the lock!!! error checking done at a higher       *)
(* level" (pilocvario.c): who starts to wait owns the lock.                *)
(***************************************************************************)
WaitNeedsTheLock ==
  \A p \in Proc : pc[p] = "user" /\ pc'[p] = "cvwait" => owner[want'[p]] = p

CvarWaitNeedsTheLock == [][WaitNeedsTheLock]_vars

(***************************************************************************)
(* lock_t: "owner of the lock, the calling process blocks" (pilocvario.h)  *)
(* -- the owner is a process.  KernelExit leaves the locks alone: owner    *)
(* then points at freed memory, and is the next process that gets it.      *)
(***************************************************************************)
OwnerIsAlive == \A l \in Id : owner[l] \notin gone

=============================================================================
