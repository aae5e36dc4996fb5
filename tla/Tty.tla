--------------------------------- MODULE Tty ---------------------------------
(***************************************************************************)
(* Terminals: the tty functions of ksrc/pilocvario.c, the system calls     *)
(* TtyRead and TtyWrite of ksrc/syscalls.c, and the two terminal traps of  *)
(* ksrc/traps.c.  Characters are counted, not identified; their order is   *)
(* the concern of RingBuffer.  Lengths are not negative, and those of      *)
(* reads positive ("Assumes len > 0", read_tty).                           *)
(*                                                                         *)
(* The terminal device is external: it transmits what TtyTransmit gave it, *)
(* raises TRAP_TTY_TRANSMIT when it is done, and raises TRAP_TTY_RECEIVE   *)
(* when a line has been typed.                                             *)
(***************************************************************************)
EXTENDS Scheduling

CONSTANTS
  Terminal,  \* 0..NUM_TERMINALS - 1
  Line,      \* TERMINAL_MAX_LINE
  MaxLen,    \* bound: the longest buffer of one call
  NoOne      \* the device is idle

ASSUME TtyAssumption ==
  /\ Line \in Nat \ {0}
  /\ MaxLen \in Nat
  /\ NoOne \notin Proc

VARIABLES
  transmitting,  \* io->out[t]->transmitting
  writers,       \* io->out[t]->blocked
  filled,        \* io->in[t]->buffer->filled
  readers,       \* io->in[t]->blocked
  device,        \* external: whose characters the device is transmitting
  call           \* call[p]: the locals of the call p is in or has made last

ttyVars == <<transmitting, writers, filled, readers, device>>
vars == <<schedVars, ttyVars, call>>

(***************************************************************************)
(* The arguments of read_tty and write_tty, and total.                     *)
(***************************************************************************)
Call == [tty : Terminal, len : Nat, total : Nat]

TypeOK ==
  /\ SchedTypeOK({"user", "read", "write"})
  /\ transmitting \in [Terminal -> BOOLEAN]
  /\ writers \in [Terminal -> Seq(Proc)]
  /\ filled \in [Terminal -> 0..Line]
  /\ readers \in [Terminal -> Seq(Proc)]
  /\ device \in [Terminal -> Proc \cup {NoOne}]
  /\ call \in [Proc -> Call]

-----------------------------------------------------------------------------
Init ==
  /\ SchedInit
  /\ transmitting = [t \in Terminal |-> FALSE]
  /\ writers = [t \in Terminal |-> <<>>]
  /\ filled = [t \in Terminal |-> 0]
  /\ readers = [t \in Terminal |-> <<>>]
  /\ device = [t \in Terminal |-> NoOne]
  /\ \E t \in Terminal : call = [p \in Proc |-> [tty |-> t, len |-> 0, total |-> 0]]

AtMost(a, b) == IF a < b THEN a ELSE b

(***************************************************************************)
(* Fault: a writer that is done does not pass the wake-up on to the next.  *)
(***************************************************************************)
PassedOnNever(t) == <<>>

(***************************************************************************)
(* What write_tty unblocks when it ends.                                   *)
(***************************************************************************)
PassedOn(t) == HeadOf(writers[t])

(***************************************************************************)
(* write_tty up to its next block or its return.  A writer that finds the  *)
(* terminal busy blocks at the end of the list; otherwise it starts to     *)
(* transmit a chunk and blocks at the head of the list.  Every chunk is    *)
(* measured by the whole len, also when only len - total characters are    *)
(* left.  A writer that is done wakes the next one.                        *)
(***************************************************************************)
WriteLoop(p, c) ==
  LET t == c.tty
      written == AtMost(Line, c.len)
  IN  \/ /\ c.total < c.len /\ transmitting[t]
         /\ writers' = [writers EXCEPT ![t] = Append(@, p)]
         /\ call' = [call EXCEPT ![p] = c]
         /\ BlockAt(p, "write", ready)
         /\ UNCHANGED <<transmitting, device>>
      \/ /\ c.total < c.len /\ ~transmitting[t]
         /\ transmitting' = [transmitting EXCEPT ![t] = TRUE]
         /\ device' = [device EXCEPT ![t] = p]
         /\ writers' = [writers EXCEPT ![t] = <<p>> \o @]
         /\ call' = [call EXCEPT ![p] = [c EXCEPT !.total = @ + written]]
         /\ BlockAt(p, "write", ready)
      \/ /\ c.total >= c.len
         /\ writers' = [writers EXCEPT ![t] = SubSeq(@, 1 + Len(PassedOn(t)), Len(@))]
         /\ call' = [call EXCEPT ![p] = c]
         /\ ReturnWith(p, ready \o PassedOn(t))
         /\ UNCHANGED <<transmitting, device>>

KernelTtyWrite(p, t, n) ==
  /\ InUser(p)
  /\ WriteLoop(p, [tty |-> t, len |-> n, total |-> 0])
  /\ UNCHANGED <<filled, readers>>

ResumeWrite(p) ==
  /\ running = p /\ pc[p] = "write"
  /\ WriteLoop(p, call[p])
  /\ UNCHANGED <<filled, readers>>

(***************************************************************************)
(* TrapTtyTransmit, write_alert: the device is done; the first of the      *)
(* writers is woken.                                                       *)
(***************************************************************************)
TrapTtyTransmit(t) ==
  /\ Interruptible
  /\ device[t] # NoOne
  /\ device' = [device EXCEPT ![t] = NoOne]
  /\ transmitting' = [transmitting EXCEPT ![t] = FALSE]
  /\ writers' = [writers EXCEPT ![t] = RestOf(@)]
  /\ ready' = ready \o HeadOf(writers[t])
  /\ UNCHANGED <<running, pc, filled, readers, call>>

(***************************************************************************)
(* read_tty up to its next block or its return: block while no character   *)
(* has been received, else take up to len of them.                         *)
(***************************************************************************)
ReadLoop(p, c) ==
  LET t == c.tty
      read == AtMost(filled[t], c.len)
  IN  /\ call' = [call EXCEPT ![p] = c]
      /\ filled' = [filled EXCEPT ![t] = @ - read]
      /\ \/ /\ read = 0
            /\ readers' = [readers EXCEPT ![t] = Append(@, p)]
            /\ BlockAt(p, "read", ready)
         \/ /\ read # 0
            /\ ReturnWith(p, ready)
            /\ UNCHANGED readers
      /\ UNCHANGED <<transmitting, writers, device>>

KernelTtyRead(p, t, n) ==
  /\ InUser(p)
  /\ ReadLoop(p, [tty |-> t, len |-> n, total |-> 0])

ResumeRead(p) ==
  /\ running = p /\ pc[p] = "read"
  /\ ReadLoop(p, call[p])

(***************************************************************************)
(* A fault: receive wakes only the first reader.                           *)
(***************************************************************************)
WokenReadersFirst(t) == HeadOf(readers[t])

(***************************************************************************)
(* TrapTtyReceive, receive, of a line of n characters: those that do not   *)
(* fit into the buffer are lost; if any fits, every reader is woken.       *)
(***************************************************************************)
Accepted(t, n) == AtMost(Line - filled[t], n)
WokenReaders(t) == readers[t]

TrapTtyReceive(t, n) ==
  /\ Interruptible
  /\ filled' = [filled EXCEPT ![t] = @ + Accepted(t, n)]
  /\ \/ /\ Accepted(t, n) > 0
        /\ readers' = [readers EXCEPT ![t] = SubSeq(@, 1 + Len(WokenReaders(t)), Len(@))]
        /\ ready' = ready \o WokenReaders(t)
     \/ Accepted(t, n) <= 0 /\ UNCHANGED <<readers, ready>>
  /\ UNCHANGED <<running, pc, transmitting, writers, device, call>>

TrapClock == ClockTick /\ UNCHANGED <<ttyVars, call>>

Calls(p) ==
  \E t \in Terminal :
    \/ \E n \in 0..MaxLen : KernelTtyWrite(p, t, n)
    \/ \E n \in 1..MaxLen : KernelTtyRead(p, t, n)

Resume(p) == ResumeWrite(p) \/ ResumeRead(p)

Next ==
  \/ TrapClock
  \/ \E t \in Terminal : \/ TrapTtyTransmit(t)
                         \/ \E n \in 0..Line : TrapTtyReceive(t, n)
  \/ \E p \in Proc : Calls(p) \/ Resume(p)

(***************************************************************************)
(* The clock never stops, the device finishes every transmission, and      *)
(* interrupts held back in kernel mode are taken on the return to user     *)
(* mode; dispatched handlers run on.  Nobody needs to type or call.        *)
(***************************************************************************)
Fairness ==
  /\ SF_vars(TrapClock)
  /\ \A t \in Terminal : SF_vars(TrapTtyTransmit(t))
  /\ \A p \in Proc : WF_vars(Resume(p))

Spec == Init /\ [][Next]_vars
FairSpec == Spec /\ Fairness

-----------------------------------------------------------------------------
(***************************************************************************)
(* A process sits in one place: on the processor, in the ready queue, or   *)
(* on one list of one terminal, once.                                      *)
(***************************************************************************)
WaitingLists ==
  [l \in {"read", "write"} \X Terminal |->
     IF l[1] = "read" THEN readers[l[2]] ELSE writers[l[2]]]

OnePlace ==
  /\ TypeOK
  /\ QueuedOnce(WaitingLists)
  /\ Proc = Runnable \cup Queued(WaitingLists)

(***************************************************************************)
(* No wake-up of a writer is lost, however writers overtake each other:    *)
(* while anybody waits to write, the device is transmitting, and its end   *)
(* will wake one, or a woken writer has yet to look, and will start the    *)
(* next transmission or wake the next writer.                              *)
(***************************************************************************)
WritersAreServed ==
  \A t \in Terminal :
    writers[t] # <<>> =>
      \/ device[t] # NoOne
      \/ \E p \in Proc : /\ pc[p] = "write" /\ call[p].tty = t
                         /\ p \notin Range(writers[t])

(***************************************************************************)
(* Readers wait only while the terminal has nothing to read.               *)
(***************************************************************************)
ReadersWaitForInput == \A t \in Terminal : readers[t] # <<>> => filled[t] = 0

(***************************************************************************)
(* A terminal whose writers have work gets a transmission; a reader of a   *)
(* terminal with input returns, unless other readers take it all.          *)
(***************************************************************************)
WritersProceed ==
  \A t \in Terminal : (writers[t] # <<>>) ~> (writers[t] = <<>> \/ device[t] # NoOne)

ReadReturns ==
  \A p \in Proc, t \in Terminal :
    (pc[p] = "read" /\ call[p].tty = t /\ filled[t] > 0) ~> (InUser(p) \/ filled[t] = 0)

-----------------------------------------------------------------------------
(***************************************************************************)
(* Statements of the headers that the code does not keep.                  *)
(*                                                                         *)
(* KernelTtyWrite: "The calling process is blocked until all chars from    *)
(* the buffer have been written on the terminal" (syscalls.h).             *)
(***************************************************************************)
ReturnsAfterTransmission ==
  \A p \in Proc : pc[p] = "write" /\ pc'[p] = "user" => device[call[p].tty] # p

TtyWriteWaits == [][ReturnsAfterTransmission]_vars

(***************************************************************************)
(* KernelTtyWrite: "@return # of bytes written (len) on success"           *)
(* (syscalls.h).                                                           *)
(***************************************************************************)
TotalIsLen ==
  \A p \in Proc : pc[p] = "write" /\ pc'[p] = "user" => call[p].total = call[p].len

TtyWriteReturnsLen == [][TotalIsLen]_vars

=============================================================================
