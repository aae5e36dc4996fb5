------------------------------ MODULE FramePool ------------------------------
(***************************************************************************)
(* What the frame allocator promises: frames that are handed out, to user  *)
(* space or to the kernel, were free, and are nobody else's until who has  *)
(* them gives them back.                                                   *)
(***************************************************************************)
CONSTANT Frame

VARIABLES
  free,  \* the frames that nobody has
  user   \* those of user pages and kernel stacks; the kernel has the others

Kernel == Frame \ (free \cup user)

Init == free = Frame /\ user = {}

UserGets(F) == F \subseteq free /\ free' = free \ F /\ user' = user \cup F
UserReturns(F) == F \subseteq user /\ free' = free \cup F /\ user' = user \ F
KernelGets(F) == F \subseteq free /\ free' = free \ F /\ UNCHANGED user
KernelReturns(F) == F \subseteq Kernel /\ free' = free \cup F /\ UNCHANGED user

Next == \E F \in SUBSET Frame :
  UserGets(F) \/ UserReturns(F) \/ KernelGets(F) \/ KernelReturns(F)

Spec == Init /\ [][Next]_<<free, user>>

=============================================================================
