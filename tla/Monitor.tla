------------------------------- MODULE Monitor -------------------------------
(***************************************************************************)
(* What the locks and condition variables of the kernel promise to user    *)
(* code (syscalls.h, pilocvario.h), without queues, counters or scheduler: *)
(* a lock has at most one holder; Acquire and CvarWait return to a process *)
(* only when it holds the lock; CvarWait gives the lock up and falls       *)
(* asleep in one step; a sleeper runs again only after it was woken.       *)
(***************************************************************************)
CONSTANTS Proc, Id, NoOne

VARIABLES
  holder,  \* holder[l]: the process that holds lock l, or NoOne
  mode     \* mode[p]: <<"user">>, or <<"enter", l>> while p is to get l,
           \* or <<"asleep", c, l>> while p sleeps on c and is to get l then

vars == <<holder, mode>>

User == <<"user">>

Init ==
  /\ holder = [l \in Id |-> NoOne]
  /\ mode = [p \in Proc |-> User]

MayEnter(p, l) == holder[l] \in {NoOne, p}

(***************************************************************************)
(* p gets the lock, at once or after a time spent contending for it.       *)
(***************************************************************************)
Enter(p, l) ==
  /\ mode[p] \in {User, <<"enter", l>>}
  /\ MayEnter(p, l)
  /\ holder' = [holder EXCEPT ![l] = p]
  /\ mode' = [mode EXCEPT ![p] = User]

Contend(p, l) ==
  /\ mode[p] = User /\ ~MayEnter(p, l)
  /\ mode' = [mode EXCEPT ![p] = <<"enter", l>>]
  /\ UNCHANGED holder

Leave(p, l) ==
  /\ mode[p] = User /\ holder[l] = p
  /\ holder' = [holder EXCEPT ![l] = NoOne]
  /\ UNCHANGED mode

(***************************************************************************)
(* The caller gives the lock up if it holds it, and sleeps.                *)
(***************************************************************************)
Sleep(p, c, l) ==
  /\ mode[p] = User
  /\ holder' = [holder EXCEPT ![l] = IF @ = p THEN NoOne ELSE @]
  /\ mode' = [mode EXCEPT ![p] = <<"asleep", c, l>>]

Sleepers(c) == {p \in Proc : \E l \in Id : mode[p] = <<"asleep", c, l>>}

(***************************************************************************)
(* Signal wakes one sleeper of c, Broadcast all of them.                   *)
(***************************************************************************)
Wake(S, c) ==
  /\ S \subseteq Sleepers(c) /\ S # {}
  /\ mode' = [p \in Proc |-> IF p \in S THEN <<"enter", mode[p][3]>> ELSE mode[p]]
  /\ UNCHANGED holder

Next ==
  \/ \E p \in Proc, l \in Id :
       \/ Enter(p, l) \/ Contend(p, l) \/ Leave(p, l)
       \/ \E c \in Id : Sleep(p, c, l)
  \/ \E c \in Id : \/ \E p \in Proc : Wake({p}, c)
                   \/ Wake(Sleepers(c), c)

Spec == Init /\ [][Next]_vars

=============================================================================
