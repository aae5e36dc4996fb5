----------------------------- MODULE UserMachines -----------------------------
(***************************************************************************)
(* What user code sees of processes: each has a machine of its own, that   *)
(* is one register here, and makes system calls that return exactly once,  *)
(* to the process that called.  Fork returns twice: the pid of the child   *)
(* to the parent, 0 to the child, whose machine begins as a copy.          *)
(* Preemption is invisible.                                                *)
(***************************************************************************)
CONSTANTS Proc, InitProc, Word, Value, Syscall, ERROR

VARIABLES
  status,  \* status[p]: free, alive, or defunct
  reg,     \* reg[p]: regs[0]
  owed     \* owed[p]: nothing, the call being served, or the result of one

vars == <<status, reg, owed>>

Nothing == <<"nothing">>
Call(h) == <<"call", h>>
Result(r) == <<"result", r>>

Alive(p) == status[p] = "alive"

Init ==
  /\ status = [p \in Proc |-> IF p = InitProc THEN "alive" ELSE "free"]
  /\ reg \in [Proc -> Word]
  /\ owed = [p \in Proc |-> Nothing]

Compute(p) ==
  /\ owed[p] = Nothing
  /\ \E v \in Value : reg' = [reg EXCEPT ![p] = v]
  /\ UNCHANGED <<status, owed>>

Request(p, h) ==
  /\ owed[p] = Nothing
  /\ owed' = [owed EXCEPT ![p] = Call(h)]
  /\ UNCHANGED <<status, reg>>

(***************************************************************************)
(* The results that a call may have.  An unknown call has any.             *)
(***************************************************************************)
Answers(p, h) ==
  CASE h = "GetPid" -> {p}
    [] h = "Delay" -> {0, ERROR}
    [] h \in {"Fork", "Exec", "Wait"} -> {ERROR}
    [] h = "Exit" -> {}
    [] OTHER -> Word

Serve(p, h) ==
  /\ owed[p] = Call(h)
  /\ \E r \in Answers(p, h) : owed' = [owed EXCEPT ![p] = Result(r)]
  /\ UNCHANGED <<status, reg>>

Fork(p, c) ==
  /\ owed[p] = Call("Fork") /\ status[c] = "free"
  /\ status' = [status EXCEPT ![c] = "alive"]
  /\ reg' = [reg EXCEPT ![c] = reg[p]]
  /\ owed' = [owed EXCEPT ![p] = Result(c), ![c] = Result(0)]

Exec(p) ==
  /\ owed[p] = Call("Exec")
  /\ owed' = [owed EXCEPT ![p] = Nothing]
  /\ UNCHANGED <<status, reg>>

(***************************************************************************)
(* A process may also be aborted: by a trap, or by an Exec that failed.    *)
(***************************************************************************)
Exit(p) ==
  /\ owed[p] \in {Call("Exit"), Call("Exec")}
  /\ status' = [status EXCEPT ![p] = "defunct"]
  /\ owed' = [owed EXCEPT ![p] = Nothing]
  /\ UNCHANGED reg

Wait(p, c) ==
  /\ owed[p] = Call("Wait") /\ status[c] = "defunct"
  /\ status' = [status EXCEPT ![c] = "free"]
  /\ owed' = [owed EXCEPT ![p] = Result(c)]
  /\ \E w \in Word : reg' = [reg EXCEPT ![c] = w]

Return(p) ==
  /\ \E r \in Word : owed[p] = Result(r) /\ reg' = [reg EXCEPT ![p] = r]
  /\ owed' = [owed EXCEPT ![p] = Nothing]
  /\ UNCHANGED status

Next ==
  \E p \in Proc :
    /\ Alive(p)
    /\ \/ Compute(p)
       \/ \E h \in Syscall : Request(p, h) \/ Serve(p, h)
       \/ \E c \in Proc : Fork(p, c) \/ Wait(p, c)
       \/ Exec(p) \/ Exit(p) \/ Return(p)

Spec == Init /\ [][Next]_vars

=============================================================================
