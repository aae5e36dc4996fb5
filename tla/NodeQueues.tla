------------------------------ MODULE NodeQueues ------------------------------
(***************************************************************************)
(* What the other modules take the lists of the kernel for: FIFO queues of *)
(* nodes, a node being in one queue at most.                               *)
(***************************************************************************)
EXTENDS Sequences, Integers, SequencesExt

CONSTANTS Node, List, Codes

VARIABLES
  queue,  \* queue[l]: the nodes of list l, head first
  code    \* node->code: ticks of a process that delays, identifier of an object

vars == <<queue, code>>

Queued == UNION {Range(queue[l]) : l \in List}

Init ==
  /\ queue = [l \in List |-> <<>>]
  /\ code = [n \in Node |-> -1]

(***************************************************************************)
(* A node that is in no queue joins one at its end, or at its head.        *)
(***************************************************************************)
Join(l, n, c) ==
  /\ n \notin Queued
  /\ queue' = [queue EXCEPT ![l] = Append(@, n)]
  /\ code' = [code EXCEPT ![n] = c]

JoinFirst(l, n) ==
  /\ n \notin Queued
  /\ queue' = [queue EXCEPT ![l] = <<n>> \o @]
  /\ UNCHANGED code

Leave(l, i, c) ==
  /\ code' = [code EXCEPT ![queue[l][i]] = c]
  /\ queue' = [queue EXCEPT ![l] = RemoveAt(@, i)]

(***************************************************************************)
(* The node in position i moves to the ready queue, or all nodes do.       *)
(***************************************************************************)
Move(l, i) ==
  /\ queue' = [queue EXCEPT ![l] = RemoveAt(@, i), !["ready"] = Append(@, queue[l][i])]
  /\ UNCHANGED code

MoveAll(l) ==
  /\ queue' = [queue EXCEPT ![l] = <<>>, !["ready"] = @ \o queue[l]]
  /\ UNCHANGED code

(***************************************************************************)
(* A clock tick: the counts go down by one up to the first sleeper that is *)
(* due, which becomes ready (ProcTable: TrapClock).                        *)
(***************************************************************************)
Due == {i \in DOMAIN queue["delayed"] : code[queue["delayed"][i]] = 1}
Ticked(k) ==
  [n \in Node |-> IF \E i \in 1..k : queue["delayed"][i] = n THEN code[n] - 1 ELSE code[n]]

Tick ==
  \/ Due = {} /\ code' = Ticked(Len(queue["delayed"])) /\ UNCHANGED queue
  \/ \E i \in Due :
       /\ \A j \in Due : i <= j
       /\ code' = Ticked(i)
       /\ queue' = [queue EXCEPT !["delayed"] = RemoveAt(@, i),
                                 !["ready"] = Append(@, queue["delayed"][i])]

Next ==
  \/ Tick
  \/ \E l \in List :
       \/ MoveAll(l)
       \/ \E n \in Node : JoinFirst(l, n) \/ \E c \in Codes \cup {code[n]} : Join(l, n, c)
       \/ \E i \in DOMAIN queue[l] :
            Move(l, i) \/ \E c \in {-1, code[queue[l][i]]} : Leave(l, i, c)

Spec == Init /\ [][Next]_vars

=============================================================================
