------------------------------ MODULE SlotPool ------------------------------
(***************************************************************************)
(* What the limit on parallel uploads promises (UploadMaxParallel,         *)
(* conf/conf.go:89, and the semaphore of upload/handler.go:174): a pool of *)
(* Limit slots, from which each client takes some number at once and gives *)
(* all of them back. There is no counter here: a taking is allowed when    *)
(* the slots the clients hold leave room for it.                           *)
(***************************************************************************)
EXTENDS Integers, FiniteSets

CONSTANTS Clients, Limit, Weights

VARIABLE held   \* the number of slots each client holds

Init == held = [c \in Clients |-> 0]

\* One element for every slot that is held.
HeldSlots == UNION {{c} \X (1..held[c]) : c \in Clients}

Take(c, n) ==
  /\ held[c] = 0
  /\ Cardinality(HeldSlots) + n <= Limit
  /\ held' = [held EXCEPT ![c] = n]

GiveBack(c) ==
  /\ held[c] # 0
  /\ held' = [held EXCEPT ![c] = 0]

Next == \E c \in Clients : GiveBack(c) \/ \E n \in Weights : Take(c, n)

Spec == Init /\ [][Next]_held
=============================================================================
