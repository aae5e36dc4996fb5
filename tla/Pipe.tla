-------------------------------- MODULE Pipe --------------------------------
(***************************************************************************)
(* Pipes: the pipe functions of ksrc/pilocvario.c and the system calls of  *)
(* ksrc/syscalls.c that reach them.  What a pipe holds is a number of      *)
(* bytes here; that they come out in the order they went in is the concern *)
(* of RingBuffer.  Lengths are not negative, and those of reads positive   *)
(* ("assume len > 0", read_pipe).                                          *)
(***************************************************************************)
EXTENDS Scheduling

CONSTANTS
  Size,     \* PIPE_BUFFER_LEN
  MaxId,    \* bound: how many pipes are ever created
  MaxLen,   \* bound: the longest buffer of one call
  Unset     \* values an uninitialised int may hold

ASSUME PipeAssumption ==
  /\ Size \in Nat \ {0}
  /\ MaxId \in Nat \ {0}
  /\ MaxLen \in Nat
  /\ Unset \subseteq Int

Id == 0..(MaxId - 1)

VARIABLES
  count,         \* pilocvar->count: the next identifier
  exists,        \* the pipes in pilocvar->pipe
  filled,        \* pipe->buffer->filled
  readblocked,   \* pipe->readblocked
  writeblocked,  \* pipe->writeblocked
  unfulfilled,   \* pipe->unfulfilled: woken, not running yet
  call           \* call[p]: the locals of the call p is in or has made last

pipeVars == <<count, exists, filled, readblocked, writeblocked, unfulfilled>>
vars == <<schedVars, pipeVars, call>>

(***************************************************************************)
(* The locals of read_pipe and write_pipe that outlive a block: the pipe,  *)
(* len, len_left and total.                                                *)
(***************************************************************************)
Call == [pipe : Id, len : Int, left : Int, total : Int]

TypeOK ==
  /\ SchedTypeOK({"user", "read", "write"})
  /\ count \in 0..MaxId
  /\ exists \subseteq 0..(count - 1)
  /\ filled \in [Id -> 0..Size]
  /\ readblocked \in [Id -> Seq(Proc)]
  /\ writeblocked \in [Id -> Seq(Proc)]
  /\ unfulfilled \in [Id -> Nat]
  /\ call \in [Proc -> Call]

-----------------------------------------------------------------------------
Init ==
  /\ SchedInit
  /\ count = 0
  /\ exists = {}
  /\ filled = [i \in Id |-> 0]
  /\ readblocked = [i \in Id |-> <<>>]
  /\ writeblocked = [i \in Id |-> <<>>]
  /\ unfulfilled = [i \in Id |-> 0]
  /\ call = [p \in Proc |-> [pipe |-> 0, len |-> 0, left |-> 0, total |-> 0]]

(***************************************************************************)
(* The nodes of pilocvar->pipe, found by identifier.                       *)
(***************************************************************************)
find_pipe(i) == i \in exists

new_pipe(i) ==
  /\ exists' = exists \cup {i}
  /\ filled' = [filled EXCEPT ![i] = 0]
  /\ readblocked' = [readblocked EXCEPT ![i] = <<>>]
  /\ writeblocked' = [writeblocked EXCEPT ![i] = <<>>]
  /\ unfulfilled' = [unfulfilled EXCEPT ![i] = 0]

(***************************************************************************)
(* KernelPipeInit.  Without memory, or with a bad address for the result,  *)
(* it changes nothing.                                                     *)
(***************************************************************************)
new_id == count < MaxId /\ count' = count + 1

KernelPipeInit(p) ==
  InUser(p) /\ new_id /\ new_pipe(count) /\ UNCHANGED <<schedVars, call>>

AtMost(a, b) == IF a < b THEN a ELSE b

(***************************************************************************)
(* What write_buffer takes of the buffer that write_pipe hands it in every *)
(* round: the whole len, also when only len_left bytes are left.           *)
(***************************************************************************)
Accepted(i, c) == AtMost(Size - filled[i], c.len)

(***************************************************************************)
(* Fault: one promise is counted, however many processes are woken.        *)
(***************************************************************************)
PromisedOnce(woken) == Len(HeadOf(woken))

(***************************************************************************)
(* What unfulfilled grows by when the processes in woken are woken.        *)
(***************************************************************************)
Promised(woken) == Len(woken)

(***************************************************************************)
(* Fault: only the first blocked reader is woken.                          *)
(***************************************************************************)
WokenReadersFirst(i) == HeadOf(readblocked[i])

(***************************************************************************)
(* Whom write_pipe wakes when it has written its last byte.                *)
(***************************************************************************)
WokenReaders(i) == readblocked[i]

(***************************************************************************)
(* One round of the loop of write_pipe, on entry (promise = 0) and after   *)
(* each wake-up, which fulfils a promise (promise = 1).  When all has been *)
(* written the blocked readers are woken.                                  *)
(***************************************************************************)
WriteLoop(p, c, promise) ==
  LET i == c.pipe
      written == Accepted(i, c)
  IN  /\ filled' = [filled EXCEPT ![i] = @ + written]
      /\ \/ /\ written < c.left
            /\ call' = [call EXCEPT ![p] = [c EXCEPT !.left = @ - written,
                                                     !.total = @ + written]]
            /\ writeblocked' = [writeblocked EXCEPT ![i] = Append(@, p)]
            /\ unfulfilled' = [unfulfilled EXCEPT ![i] = @ - promise]
            /\ BlockAt(p, "write", ready)
            /\ UNCHANGED readblocked
         \/ /\ written >= c.left
            /\ call' = [call EXCEPT ![p] = c]
            /\ readblocked' = [readblocked EXCEPT ![i] =
                                 SubSeq(@, 1 + Len(WokenReaders(i)), Len(@))]
            /\ unfulfilled' = [unfulfilled EXCEPT ![i] =
                                 @ - promise + Promised(WokenReaders(i))]
            /\ ReturnWith(p, ready \o WokenReaders(i))
            /\ UNCHANGED writeblocked
      /\ UNCHANGED <<count, exists>>

(***************************************************************************)
(* KernelPipeWrite.  total is returned without having been initialised.    *)
(***************************************************************************)
KernelPipeWrite(p, i, n) ==
  /\ InUser(p) /\ find_pipe(i)
  /\ \E t \in Unset :
       WriteLoop(p, [pipe |-> i, len |-> n, left |-> n, total |-> t], 0)

ResumeWrite(p) ==
  /\ running = p /\ pc[p] = "write"
  /\ WriteLoop(p, call[p], 1)

(***************************************************************************)
(* Fault: only the first blocked writer is woken.                          *)
(***************************************************************************)
WokenWritersFirst(i) == HeadOf(writeblocked[i])

(***************************************************************************)
(* Whom read_pipe wakes when it has read something.                        *)
(***************************************************************************)
WokenWriters(i) == writeblocked[i]

(***************************************************************************)
(* One round of the loop of read_pipe: block if the pipe is empty, else    *)
(* take up to len bytes and wake the blocked writers.                      *)
(***************************************************************************)
ReadLoop(p, c, promise) ==
  LET i == c.pipe
      read == AtMost(filled[i], c.len)
  IN  /\ call' = [call EXCEPT ![p] = c]
      /\ \/ /\ read = 0
            /\ readblocked' = [readblocked EXCEPT ![i] = Append(@, p)]
            /\ unfulfilled' = [unfulfilled EXCEPT ![i] = @ - promise]
            /\ BlockAt(p, "read", ready)
            /\ UNCHANGED <<filled, writeblocked>>
         \/ /\ read # 0
            /\ filled' = [filled EXCEPT ![i] = @ - read]
            /\ writeblocked' = [writeblocked EXCEPT ![i] =
                                  SubSeq(@, 1 + Len(WokenWriters(i)), Len(@))]
            /\ unfulfilled' = [unfulfilled EXCEPT ![i] =
                                  @ - promise + Promised(WokenWriters(i))]
            /\ ReturnWith(p, ready \o WokenWriters(i))
            /\ UNCHANGED readblocked
      /\ UNCHANGED <<count, exists>>

KernelPipeRead(p, i, n) ==
  /\ InUser(p) /\ find_pipe(i)
  /\ ReadLoop(p, [pipe |-> i, len |-> n, left |-> 0, total |-> 0], 0)

ResumeRead(p) ==
  /\ running = p /\ pc[p] = "read"
  /\ ReadLoop(p, call[p], 1)

(***************************************************************************)
(* Fault: destroy_pipe does not look at the promises.                      *)
(***************************************************************************)
DestructibleDespitePromises(i) == readblocked[i] = <<>> /\ writeblocked[i] = <<>>

(***************************************************************************)
(* The test of destroy_pipe.                                               *)
(***************************************************************************)
Destructible(i) ==
  readblocked[i] = <<>> /\ writeblocked[i] = <<>> /\ unfulfilled[i] <= 0

(***************************************************************************)
(* KernelReclaim of a pipe.  destroy_pipe returns ERROR, and changes       *)
(* nothing, while the pipe is in use.                                      *)
(***************************************************************************)
destroy_pipe(i) == Destructible(i) /\ exists' = exists \ {i}

KernelReclaim(p, i) ==
  /\ InUser(p) /\ find_pipe(i)
  /\ destroy_pipe(i)
  /\ UNCHANGED <<schedVars, count, filled, readblocked, writeblocked, unfulfilled, call>>

TrapClock == ClockTick /\ UNCHANGED <<pipeVars, call>>

Calls(p) ==
  \/ KernelPipeInit(p)
  \/ \E i \in Id :
       \/ \E n \in 0..MaxLen : KernelPipeWrite(p, i, n)
       \/ \E n \in 1..MaxLen : KernelPipeRead(p, i, n)
       \/ KernelReclaim(p, i)

Resume(p) == ResumeWrite(p) \/ ResumeRead(p)

Next == TrapClock \/ \E p \in Proc : Calls(p) \/ Resume(p)

(***************************************************************************)
(* As in LockCvar: the clock never stops, dispatched handlers run on, and  *)
(* user code owes nothing.                                                 *)
(***************************************************************************)
Fairness == SF_vars(TrapClock) /\ \A p \in Proc : WF_vars(Resume(p))

Spec == Init /\ [][Next]_vars
FairSpec == Spec /\ Fairness

-----------------------------------------------------------------------------
Listed(p, i) == p \in Range(readblocked[i]) \cup Range(writeblocked[i])

(***************************************************************************)
(* A process sits in one place: on the processor, in the ready queue, or   *)
(* on one of the two waiting lists of one pipe, once.                      *)
(***************************************************************************)
WaitingLists ==
  [l \in {"read", "write"} \X Id |->
     IF l[1] = "read" THEN readblocked[l[2]] ELSE writeblocked[l[2]]]

OnePlace ==
  /\ TypeOK
  /\ QueuedOnce(WaitingLists)
  /\ Proc = Runnable \cup Queued(WaitingLists)

(***************************************************************************)
(* unfulfilled, which readers and writers of a pipe share, is the number   *)
(* of processes that have been woken and have not looked at the pipe yet.  *)
(***************************************************************************)
Limbo(i) == {p \in Proc : pc[p] # "user" /\ call[p].pipe = i /\ ~Listed(p, i)}

PromisesAreExact == \A i \in Id : unfulfilled[i] = Cardinality(Limbo(i))

(***************************************************************************)
(* KernelReclaim never frees a pipe that a blocked or woken process uses   *)
(* when it runs again.                                                     *)
(***************************************************************************)
NoUseAfterDestroy == \A p \in Proc : pc[p] # "user" => call[p].pipe \in exists

(***************************************************************************)
(* Writers wait only for a full pipe: each read wakes all of them, and one *)
(* that another writer overtakes finds the pipe full again.                *)
(***************************************************************************)
WritersWaitForSpace == \A i \in Id : writeblocked[i] # <<>> => filled[i] = Size

(***************************************************************************)
(* A reader that waits although the pipe holds bytes has a writer inside   *)
(* write_pipe to thank for it: one that filled the pipe and blocked before *)
(* its last byte, and will wake the readers when it has written that.      *)
(***************************************************************************)
Writing(i) == {p \in Proc : pc[p] = "write" /\ call[p].pipe = i}

ReadersWaitForWriters ==
  \A i \in Id : readblocked[i] # <<>> => filled[i] = 0 \/ Writing(i) # {}

(***************************************************************************)
(* A reader of a pipe that holds bytes returns, unless other readers empty *)
(* the pipe or a writer blocks; a writer of a pipe with space returns,     *)
(* unless other writers fill it.                                           *)
(***************************************************************************)
ReaderProceeds ==
  \A p \in Proc, i \in Id :
    (pc[p] = "read" /\ call[p].pipe = i /\ filled[i] > 0)
      ~> (InUser(p) \/ filled[i] = 0 \/ writeblocked[i] # <<>>)

WriteReturns ==
  \A p \in Proc, i \in Id :
    (pc[p] = "write" /\ call[p].pipe = i /\ filled[i] < Size)
      ~> (InUser(p) \/ filled[i] = Size)

-----------------------------------------------------------------------------
(***************************************************************************)
(* Statements of the headers that the code does not keep.                  *)
(*                                                                         *)
(* KernelPipeRead: "If the pipe has plen <= len unread bytes, give all of  *)
(* them to the caller and return" (syscalls.h).  A reader that waits while *)
(* a long write fills the pipe is not woken, and the writer waits for it.  *)
(***************************************************************************)
ReadReturns ==
  \A p \in Proc, i \in Id :
    (pc[p] = "read" /\ call[p].pipe = i /\ filled[i] > 0) ~> (InUser(p) \/ filled[i] = 0)

(***************************************************************************)
(* write_pipe: "Writes len bytes starting at src to the specified pipe,    *)
(* returning as soon as all len bytes have been written" (pilocvario.h).   *)
(* The last round of a call puts into the pipe what is left, no more.      *)
(***************************************************************************)
LastRoundWritesTheRest ==
  \A p \in Proc :
    pc[p] = "write" /\ pc'[p] = "user" =>
      filled'[call[p].pipe] - filled[call[p].pipe] = call[p].left

WritesLenBytes == [][LastRoundWritesTheRest]_vars

(***************************************************************************)
(* write_pipe: "@return the total # of bytes written to the pipe"          *)
(* (pilocvario.h).                                                         *)
(***************************************************************************)
TotalIsLen ==
  \A p \in Proc : pc[p] = "write" /\ pc'[p] = "user" => call'[p].total = call[p].len

ReturnsBytesWritten == [][TotalIsLen]_vars

=============================================================================
