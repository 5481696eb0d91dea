----------------------------- MODULE Admission ------------------------------
(***************************************************************************)
(* What admission control promises, without queues, promises and sockets:  *)
(* a counting semaphore that never keeps a slot idle while somebody waits. *)
(* A slot that is given back goes to a waiter in the same step.            *)
(***************************************************************************)
EXTENDS Naturals, FiniteSets

CONSTANTS Requests, Limit

VARIABLE status     \* where each request stands

Statuses == {"outside", "waiting", "holding", "served"}

In(s) == {r \in Requests : status[r] = s}

AInit == status = [r \in Requests |-> "outside"]

\* A free slot is taken at once.
Acquire(r) == /\ status[r] = "outside"
              /\ Cardinality(In("holding")) < Limit
              /\ status' = [status EXCEPT ![r] = "holding"]

\* Only a saturated upstream makes anybody wait, or turns anybody away.
Defer(r) == /\ status[r] = "outside"
            /\ Cardinality(In("holding")) = Limit
            /\ \E s \in {"waiting", "served"} : status' = [status EXCEPT ![r] = s]

\* A waiter gives up: hung up, or timed out.
GiveUp(r) == /\ status[r] = "waiting"
             /\ status' = [status EXCEPT ![r] = "served"]

\* A slot is given back and nobody waits for it.
Free(r) == /\ status[r] = "holding"
           /\ In("waiting") = {}
           /\ status' = [status EXCEPT ![r] = "served"]

\* A slot is given back and handed to a waiter.
HandOver(r, w) == /\ status[r] = "holding"
                  /\ status[w] = "waiting"
                  /\ status' = [status EXCEPT ![r] = "served", ![w] = "holding"]

\* A served request comes back as the next arrival.
Return(r) == /\ status[r] = "served"
             /\ status' = [status EXCEPT ![r] = "outside"]

ANext == \E r \in Requests : \/ Acquire(r) \/ Defer(r) \/ GiveUp(r) \/ Free(r) \/ Return(r)
                             \/ \E w \in Requests : HandOver(r, w)

ASpec == AInit /\ [][ANext]_status
=============================================================================
