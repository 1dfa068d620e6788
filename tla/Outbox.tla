------------------------------- MODULE Outbox -------------------------------
(***************************************************************************)
(* The transactional outbox: evidence appends put lifecycle events into    *)
(* event_outbox (asv/evidence.py), the asv-siem-outbox thread sends them   *)
(* to the SIEM with retries and dead letters (asv/siem.py), operators      *)
(* requeue dead letters (asv/service.py).                                  *)
(*                                                                         *)
(* An action is one transaction, or one call of the sender between two.    *)
(* Events are numbered in their order of creation. event_delivery_state    *)
(* and event_retry_cycle are fields of the event's row: delivery is "none" *)
(* without a row, "backoff" before next_attempt_at, "due" after it, "dead" *)
(* with dead_lettered_at set; baseline is 0 without a row.                 *)
(***************************************************************************)
EXTENDS Naturals, FiniteSets

CONSTANTS
    MaxEvents,      \* bound on the events appended
    MaxAttempts,    \* max_attempts of the publisher
    BatchLimit,     \* rows a poll selects
    MaxRequeues,    \* bound on the requeues
    MaxStoreFaults, \* bound on the transactions that raise
    MaxCrashes      \* bound on the restarts of the process

ASSUME OutboxAssumption ==
    /\ MaxEvents \in Nat
    /\ MaxAttempts \in Nat \ {0}
    /\ BatchLimit \in Nat \ {0}
    /\ MaxRequeues \in Nat
    /\ MaxStoreFaults \in Nat
    /\ MaxCrashes \in Nat

Events == 1 .. MaxEvents

VARIABLES
    appended,    \* events appended so far
    row,         \* the outbox row of each event
    pc,          \* where the publisher thread is
    batch,       \* the rows it selected and has still to handle, as read
    received,    \* how often the SIEM received each event
    tries,       \* sends of each event since it was appended or requeued
    requeues,    \* requeues committed
    auditing,    \* requeues whose evidence is still to be appended
    storeFaults, \* transactions that raised so far
    crashes      \* restarts so far

vars == <<appended, row, pc, batch, received, tries, requeues, auditing,
          storeFaults, crashes>>
operator == <<requeues, auditing>>
environment == <<storeFaults, crashes>>

NoRow == [status |-> "NONE", attempts |-> 0, baseline |-> 0, delivery |-> "none"]

Fresh == [NoRow EXCEPT !.status = "PENDING"]

Init ==
    /\ appended = 0
    /\ row = [e \in Events |-> NoRow]
    /\ pc = "Ready"
    /\ batch = {}
    /\ received = [e \in Events |-> 0]
    /\ tries = [e \in Events |-> 0]
    /\ requeues = 0
    /\ auditing = 0
    /\ storeFaults = 0
    /\ crashes = 0

-----------------------------------------------------------------------------
(* EvidenceLedger.append: the record and its outbox row, one transaction   *)

HasRoom == appended + auditing < MaxEvents

\* Mutant: the sequence number of the last event is used again.
InsertEventTwice == /\ appended' = appended + 1
                    /\ row' = [row EXCEPT ![appended] = Fresh]

InsertEvent == /\ appended' = appended + 1
               /\ row' = [row EXCEPT ![appended + 1] = Fresh]

AppendEvent ==
    /\ HasRoom
    /\ InsertEvent
    /\ UNCHANGED <<pc, batch, received, tries, operator, environment>>

-----------------------------------------------------------------------------
(* publish_batch                                                           *)

\* Mutants: a delivered event is not excluded; a failed one is never due.
DueUnlessDead ==
    {e \in Events : row[e].status \in {"PENDING", "DELIVERED"}
                    /\ row[e].delivery # "backoff"}

DueOnlyOnce == {e \in Events : row[e].status = "PENDING" /\ row[e].delivery = "none"}

Due == {e \in Events : row[e].status = "PENDING" /\ row[e].delivery # "backoff"}

Snapshot(e) == [event |-> e, attempts |-> row[e].attempts,
                baseline |-> row[e].baseline]

\* ORDER BY created_at LIMIT BatchLimit.
SelectBatch ==
    /\ pc = "Ready"
    /\ batch = {}
    /\ Due # {}
    /\ batch' = {Snapshot(e) : e \in {d \in Due :
                    Cardinality({o \in Due : o < d}) < BatchLimit}}
    /\ UNCHANGED <<appended, row, pc, received, tries, operator, environment>>

\* The loop is at the snapshot s.
Current(s) == \A o \in batch : s.event <= o.event

Send(s) == /\ pc = "Ready"
           /\ Current(s)
           /\ tries' = [tries EXCEPT ![s.event] = @ + 1]

Arrived(s) == received' = [received EXCEPT ![s.event] = @ + 1]

SendAccepted(s) ==
    /\ Send(s)
    /\ Arrived(s)
    /\ pc' = "Delivered"
    /\ UNCHANGED <<appended, row, batch, operator, environment>>

\* The sender raises: the event never arrived, or its answer got lost.
SendRaises(s) ==
    /\ Send(s)
    /\ \/ UNCHANGED received
       \/ Arrived(s)
    /\ pc' = "Failed"
    /\ UNCHANGED <<appended, row, batch, operator, environment>>

MarkDelivered(s) ==
    /\ pc = "Delivered"
    /\ Current(s)
    /\ row' = [row EXCEPT ![s.event] =
                  [status |-> "DELIVERED", attempts |-> @.attempts + 1,
                   baseline |-> 0, delivery |-> "none"]]
    /\ batch' = batch \ {s}
    /\ pc' = "Ready"
    /\ UNCHANGED <<appended, received, tries, operator, environment>>

\* Mutants: the requeue is forgotten; one attempt too many.
ExhaustedSinceCreation(s) == s.attempts + 1 >= MaxAttempts
ExhaustedLate(s) == s.attempts + 1 - s.baseline > MaxAttempts

\* This failure uses up the attempts of the retry cycle.
Exhausted(s) == s.attempts + 1 - s.baseline >= MaxAttempts

AfterFailure(s) ==
    LET r == [row[s.event] EXCEPT !.attempts = s.attempts + 1]
    IN  IF Exhausted(s) THEN [r EXCEPT !.status = "DEAD_LETTER", !.delivery = "dead"]
        ELSE [r EXCEPT !.delivery = "backoff"]

MarkFailed(s) ==
    /\ pc = "Failed"
    /\ Current(s)
    /\ row' = [row EXCEPT ![s.event] = AfterFailure(s)]
    /\ batch' = batch \ {s}
    /\ pc' = "Ready"
    /\ UNCHANGED <<appended, received, tries, operator, environment>>

\* The clock reaches next_attempt_at.
BackoffEnds(e) ==
    /\ row[e].delivery = "backoff"
    /\ row' = [row EXCEPT ![e].delivery = "due"]
    /\ UNCHANGED <<appended, pc, batch, received, tries, operator, environment>>

-----------------------------------------------------------------------------
(* requeue_dead_letter: a transaction, then an append of its own           *)

\* Mutant: the new cycle counts from 0.
RequeuedAfresh(e) == Fresh

Requeued(e) == [row[e] EXCEPT !.status = "PENDING", !.delivery = "none",
                              !.baseline = row[e].attempts]

Requeue(e) ==
    /\ row[e].status = "DEAD_LETTER"
    /\ requeues < MaxRequeues
    /\ HasRoom
    /\ row' = [row EXCEPT ![e] = Requeued(e)]
    /\ tries' = [tries EXCEPT ![e] = 0]
    /\ requeues' = requeues + 1
    /\ auditing' = auditing + 1
    /\ UNCHANGED <<appended, pc, batch, received, environment>>

\* _append_event(siem.dead_letter.requeued): a new event for the outbox.
AuditRequeue ==
    /\ auditing > 0
    /\ InsertEvent
    /\ auditing' = auditing - 1
    /\ UNCHANGED <<pc, batch, received, tries, requeues, environment>>

-----------------------------------------------------------------------------
(* Failing transactions and restarts                                       *)

\* run_forever has no handler: its thread ends with the exception. The
\* operator's request fails after the requeue is committed.
StoreRaises ==
    /\ storeFaults < MaxStoreFaults
    /\ storeFaults' = storeFaults + 1
    /\ \/ /\ pc \in {"Delivered", "Failed"} \/ (pc = "Ready" /\ batch = {})
          /\ pc' = "Stopped"
          /\ batch' = {}
          /\ UNCHANGED auditing
       \/ /\ auditing > 0
          /\ auditing' = auditing - 1
          /\ UNCHANGED <<pc, batch>>
    /\ UNCHANGED <<appended, row, received, tries, requeues, crashes>>

CrashRestart ==
    /\ crashes < MaxCrashes
    /\ crashes' = crashes + 1
    /\ pc' = "Ready"
    /\ batch' = {}
    /\ auditing' = 0
    /\ UNCHANGED <<appended, row, received, tries, requeues, storeFaults>>

-----------------------------------------------------------------------------
(* The specification                                                       *)

PublisherStep ==
    \/ SelectBatch
    \/ \E s \in batch : \/ SendAccepted(s) \/ SendRaises(s)
                        \/ MarkDelivered(s) \/ MarkFailed(s)

Next ==
    \/ AppendEvent
    \/ PublisherStep
    \/ \E e \in Events : BackoffEnds(e) \/ Requeue(e)
    \/ AuditRequeue
    \/ StoreRaises
    \/ CrashRestart

\* The publisher polls for as long as its thread lives, a call of the sender
\* times out, and the clock goes on.
Fairness ==
    /\ WF_vars(PublisherStep)
    /\ \A e \in Events : WF_vars(BackoffEnds(e))

Spec == Init /\ [][Next]_vars
FairSpec == Spec /\ Fairness

-----------------------------------------------------------------------------
(* Properties                                                              *)

Statuses == {"NONE", "PENDING", "DELIVERED", "DEAD_LETTER"}

Row == [status : Statuses, attempts : Nat, baseline : Nat,
        delivery : {"none", "backoff", "due", "dead"}]

\* Every row has its type, exactly the appended events have one, and the
\* publisher handles no others.
TypeOK ==
    /\ appended \in 0 .. MaxEvents
    /\ row \in [Events -> Row]
    /\ \A e \in Events : row[e].status = "NONE" <=> e > appended
    /\ pc \in {"Ready", "Delivered", "Failed", "Stopped"}
    /\ batch \in SUBSET [event : 1 .. appended, attempts : Nat, baseline : Nat]
    /\ received \in [Events -> Nat]
    /\ tries \in [Events -> Nat]
    /\ requeues \in 0 .. MaxRequeues
    /\ auditing \in Nat
    /\ appended + auditing <= MaxEvents
    /\ storeFaults \in 0 .. MaxStoreFaults
    /\ crashes \in 0 .. MaxCrashes

\* An event is given up only after max_attempts sends since it was appended
\* or requeued, although `attempts` is never reset.
FullBudgetBeforeDeadLetter ==
    \A e \in Events : row[e].status = "DEAD_LETTER" => tries[e] >= MaxAttempts

\* "Bounded attempts": a send that a restart or a failing transaction kept
\* out of `attempts` is the only one beyond max_attempts.
BoundedAttempts ==
    \A e \in Events : tries[e] <= MaxAttempts + crashes + storeFaults

\* At least once, and no more after DELIVERED.
status == [e \in Events |-> row[e].status]
Delivery == INSTANCE EventDelivery
                WITH status <- status, received <- received
ImplementsDelivery == Delivery!Spec

\* README "exponential retry, bounded attempts, durable dead-lettering": as
\* long as the publisher's thread lives, every event ends up delivered, or
\* dead-lettered for an operator to see.
EventsSettleWhilePublishing ==
    \A e \in Events :
        row[e].status = "PENDING" ~>
            row[e].status \in {"DELIVERED", "DEAD_LETTER"} \/ pc = "Stopped"

=============================================================================
