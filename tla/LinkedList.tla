------------------------------ MODULE LinkedList ------------------------------
(***************************************************************************)
(* The doubly linked lists of the kernel (ksrc/linked_list.c) and the way  *)
(* the scheduler and the bookkeeper of locks and pipes use them.  Every    *)
(* other module takes these lists for sequences; here they are nodes with  *)
(* a next and a prev, and a process node, which has one of each, wanders   *)
(* through all the lists.                                                  *)
(*                                                                         *)
(* An operation of linked_list.c is an operator from the old to the new    *)
(* value of links, under the name of the C function.                       *)
(***************************************************************************)
EXTENDS Sequences, Integers, FiniteSets, Functions

CONSTANTS
  Node,   \* node_t's
  Null,   \* NULL
  Codes   \* bound: the ticks and identifiers that node->code may hold

ASSUME LinkedListAssumption ==
  Null \notin Node /\ IsFiniteSet(Node) /\ Codes \subseteq Nat \ {0}

(***************************************************************************)
(* procs->ready, procs->delayed, a blocked list of an object, and a list   *)
(* of pilocvar.                                                            *)
(***************************************************************************)
List == {"ready", "delayed", "blocked", "objects"}

VARIABLES
  links,  \* head, tail and size of each list, next and prev of each node
  code    \* node->code

listsVars == <<links, code>>

Pointer == Node \cup {Null}

ListsInit ==
  /\ links = [head |-> [l \in List |-> Null], tail |-> [l \in List |-> Null],
              size |-> [l \in List |-> 0],
              next |-> [n \in Node |-> Null], prev |-> [n \in Node |-> Null]]
  /\ code = [n \in Node |-> -1]

-----------------------------------------------------------------------------
First(h, l, n) ==
  [h EXCEPT !.head[l] = n, !.tail[l] = n, !.size[l] = @ + 1,
            !.next[n] = Null, !.prev[n] = Null]

enqueue(h, l, n) ==
  IF h.head[l] = Null THEN First(h, l, n)
  ELSE [h EXCEPT !.next = [@ EXCEPT ![n] = Null, ![h.tail[l]] = n],
                 !.prev[n] = h.tail[l],
                 !.tail[l] = n, !.size[l] = @ + 1]

push(h, l, n) ==
  IF h.head[l] = Null THEN First(h, l, n)
  ELSE [h EXCEPT !.prev = [@ EXCEPT ![n] = Null, ![h.head[l]] = n],
                 !.next[n] = h.head[l],
                 !.head[l] = n, !.size[l] = @ + 1]

(***************************************************************************)
(* dequeue and pop: the only node, or the head, or the tail.               *)
(***************************************************************************)
Last(h, l) ==
  LET n == h.head[l]
  IN  [h EXCEPT !.head[l] = Null, !.tail[l] = Null, !.size[l] = @ - 1,
                !.next[n] = Null, !.prev[n] = Null]

(***************************************************************************)
(* Fault: the new head keeps its prev.                                     *)
(***************************************************************************)
dequeueKeepsPrev(h, l) ==
  IF h.head[l] = h.tail[l] THEN Last(h, l)
  ELSE [h EXCEPT !.head[l] = h.next[h.head[l]], !.size[l] = @ - 1,
                 !.next[h.head[l]] = Null]

dequeue(h, l) ==
  IF h.head[l] = h.tail[l] THEN Last(h, l)
  ELSE LET n == h.head[l]
       IN  [h EXCEPT !.head[l] = h.next[n], !.size[l] = @ - 1,
                     !.prev = [@ EXCEPT ![h.next[n]] = Null, ![n] = Null],
                     !.next[n] = Null]

pop(h, l) ==
  IF h.head[l] = h.tail[l] THEN Last(h, l)
  ELSE LET n == h.tail[l]
       IN  [h EXCEPT !.tail[l] = h.prev[n], !.size[l] = @ - 1,
                     !.next = [@ EXCEPT ![h.prev[n]] = Null, ![n] = Null],
                     !.prev[n] = Null]

remove(h, l, n) ==
  IF h.head[l] = n THEN dequeue(h, l)
  ELSE IF h.tail[l] = n THEN pop(h, l)
  ELSE [h EXCEPT !.prev = [@ EXCEPT ![h.next[n]] = h.prev[n], ![n] = Null],
                 !.next = [@ EXCEPT ![h.prev[n]] = h.next[n], ![n] = Null],
                 !.size[l] = @ - 1]

(***************************************************************************)
(* A walk from the head along next, until NULL: of has_member, find, and   *)
(* the loops of the scheduler.  (Reached is cut after as many nodes as     *)
(* there are; WellLinked says that no walk is longer.)                     *)
(***************************************************************************)
Reached(h, l) ==
  LET at[i \in 1..(Cardinality(Node) + 1)] ==
        IF i = 1 THEN h.head[l] ELSE IF at[i - 1] = Null THEN Null ELSE h.next[at[i - 1]]
  IN  [i \in 1..Cardinality({j \in DOMAIN at : at[j] # Null}) |-> at[i]]

has_member(h, l, n) == n \in Range(Reached(h, l))

find(h, l, c) ==
  LET s == Reached(h, l)
      hits == {i \in DOMAIN s : code[s[i]] = c}
  IN  IF hits = {} THEN Null ELSE s[CHOOSE i \in hits : \A j \in hits : i <= j]

-----------------------------------------------------------------------------
(***************************************************************************)
(* A node in no list: the running process, or one just allocated.          *)
(***************************************************************************)
Detached(n) == \A l \in List : ~has_member(links, l, n)

(***************************************************************************)
(* ready and block (of the running process), h_block, run_next_ready.      *)
(***************************************************************************)
Block(l, n) ==
  /\ Detached(n) /\ l \in {"ready", "blocked"}
  /\ links' = enqueue(links, l, n)
  /\ UNCHANGED code

HBlock(n) ==
  /\ Detached(n)
  /\ links' = push(links, "blocked", n)
  /\ UNCHANGED code

RunNextReady ==
  /\ links.size["ready"] # 0
  /\ links' = dequeue(links, "ready")
  /\ UNCHANGED code

(***************************************************************************)
(* unblock of a member (check_wait asks has_member first, unblock_head     *)
(* passes the head), and unblock_all.                                      *)
(***************************************************************************)
unblock(h, l, n) == enqueue(remove(h, l, n), "ready", n)

Unblock(n) ==
  /\ has_member(links, "blocked", n)
  /\ links' = unblock(links, "blocked", n)
  /\ UNCHANGED code

UnblockAll ==
  LET after[k \in 0..Cardinality(Node)] ==
        IF k = 0 THEN links
        ELSE IF after[k - 1].size["blocked"] = 0 THEN after[k - 1]
        ELSE enqueue(dequeue(after[k - 1], "blocked"), "ready", after[k - 1].head["blocked"])
  IN  /\ links' = after[Cardinality(Node)]
      /\ UNCHANGED code

(***************************************************************************)
(* block_delay, and check_delay: one round of its loop after another.  The *)
(* loop takes curr->next when unblock has relinked curr.                   *)
(***************************************************************************)
BlockDelay(n, ticks) ==
  /\ Detached(n)
  /\ code' = [code EXCEPT ![n] = ticks]
  /\ links' = enqueue(links, "delayed", n)

(***************************************************************************)
(* Fault: the loop fetches curr->next before it relinks curr.              *)
(***************************************************************************)
CheckDelayRoundPrefetch(w) ==
  LET cd == [w.code EXCEPT ![w.curr] = @ - 1]
      h == IF cd[w.curr] = 0 THEN unblock(w.links, "delayed", w.curr) ELSE w.links
  IN  [links |-> h, code |-> cd, curr |-> w.links.next[w.curr]]

CheckDelayRound(w) ==
  LET cd == [w.code EXCEPT ![w.curr] = @ - 1]
      h == IF cd[w.curr] = 0 THEN unblock(w.links, "delayed", w.curr) ELSE w.links
  IN  [links |-> h, code |-> cd, curr |-> h.next[w.curr]]

CheckDelay ==
  LET walk[k \in 0..Cardinality(Node)] ==
        IF k = 0 THEN [links |-> links, code |-> code, curr |-> links.head["delayed"]]
        ELSE IF walk[k - 1].curr = Null THEN walk[k - 1] ELSE CheckDelayRound(walk[k - 1])
      end == walk[Cardinality(Node)]
  IN  links' = end.links /\ code' = end.code

(***************************************************************************)
(* new_lock, new_cvar and new_pipe with a new identifier; KernelReclaim    *)
(* finds the node by its identifier, unlinks it and destroys it.           *)
(***************************************************************************)
NewObject(n, id) ==
  /\ Detached(n)
  /\ find(links, "objects", id) = Null
  /\ code' = [code EXCEPT ![n] = id]
  /\ links' = enqueue(links, "objects", n)

Reclaim(id) ==
  LET n == find(links, "objects", id)
  IN  /\ n # Null
      /\ links' = remove(links, "objects", n)
      /\ code' = [code EXCEPT ![n] = -1]

ListsNext ==
  \/ RunNextReady \/ UnblockAll \/ CheckDelay
  \/ \E n \in Node :
       \/ \E l \in List : Block(l, n)
       \/ HBlock(n)
       \/ Unblock(n)
       \/ \E c \in Codes : BlockDelay(n, c) \/ NewObject(n, c)
  \/ \E c \in Codes : Reclaim(c)

ListsSpec == ListsInit /\ [][ListsNext]_listsVars

-----------------------------------------------------------------------------
(***************************************************************************)
(* The pointers of every list fit together whichever way its nodes came    *)
(* from other lists: next leads from head to tail and ends, prev leads     *)
(* back, size counts, and a node in no list points nowhere, so that a node *)
(* taken off one list carries no pointer into the next (the loop of        *)
(* check_delay follows the pointer of a node that has just been moved).    *)
(***************************************************************************)
Linked(l, s) ==
  /\ links.size[l] = Len(s) /\ IsInjective(s)
  /\ links.head[l] = IF s = <<>> THEN Null ELSE Head(s)
  /\ links.tail[l] = IF s = <<>> THEN Null ELSE s[Len(s)]
  /\ \A i \in DOMAIN s : links.prev[s[i]] = IF i = 1 THEN Null ELSE s[i - 1]

WellLinked ==
  /\ \A l \in List : Linked(l, Reached(links, l))
  /\ \A n \in Node : /\ Cardinality({l \in List : has_member(links, l, n)}) <= 1
                     /\ Detached(n) => links.next[n] = Null /\ links.prev[n] = Null

(***************************************************************************)
(* The linked lists are the sequences that the other modules take them     *)
(* for, and the loop of check_delay, walking a list that it changes, does  *)
(* to them what TrapClock of ProcTable does to the sequence of sleepers.   *)
(***************************************************************************)
Queues == INSTANCE NodeQueues WITH queue <- [l \in List |-> Reached(links, l)]
ImplementsNodeQueues == Queues!Spec

=============================================================================
