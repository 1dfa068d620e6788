---------------------------- MODULE EventDelivery ----------------------------
(***************************************************************************)
(* What the outbox promises for each lifecycle event: it may reach the     *)
(* SIEM any number of times while it is pending, it is called delivered    *)
(* only after it did, and then it is never sent again; an event that was   *)
(* given up stays given up until an operator requeues it.                  *)
(***************************************************************************)
EXTENDS Naturals

CONSTANT Events

VARIABLES
    status,   \* of each event; "NONE" before it is appended
    received  \* how often the SIEM received it

vars == <<status, received>>

Init == /\ status = [e \in Events |-> "NONE"]
        /\ received = [e \in Events |-> 0]

Becomes(e, from, to) ==
    /\ status[e] = from
    /\ status' = [status EXCEPT ![e] = to]
    /\ UNCHANGED received

Append(e) == Becomes(e, "NONE", "PENDING")

Arrive(e) == /\ status[e] = "PENDING"
             /\ received' = [received EXCEPT ![e] = @ + 1]
             /\ UNCHANGED status

Settle(e) == received[e] > 0 /\ Becomes(e, "PENDING", "DELIVERED")

GiveUp(e) == Becomes(e, "PENDING", "DEAD_LETTER")

Requeue(e) == Becomes(e, "DEAD_LETTER", "PENDING")

Next == \E e \in Events :
            Append(e) \/ Arrive(e) \/ Settle(e) \/ GiveUp(e) \/ Requeue(e)

Spec == Init /\ [][Next]_vars

=============================================================================
