---------------------------- MODULE OutboxProofs ----------------------------
(***************************************************************************)
(* What holds of Outbox for any number of events, attempts, requeues,      *)
(* failing transactions and restarts.                                      *)
(***************************************************************************)
EXTENDS OutboxMetrics, FiniteSetTheorems, TLAPS

-----------------------------------------------------------------------------
(* Type correctness                                                        *)

LEMMA RowTypes ==
    /\ NoRow \in Row /\ NoRow.status = "NONE"
    /\ Fresh \in Row /\ Fresh.status = "PENDING"
BY DEF NoRow, Fresh, Row, Statuses

LEMMA SnapshotType ==
    ASSUME TypeOK, NEW e \in Due
    PROVE  Snapshot(e) \in [event : 1 .. appended, attempts : Nat, baseline : Nat]
<1>1. e \in Events /\ row[e].status # "NONE"
  BY DEF Due
<1>2. row[e] \in Row
  BY <1>1 DEF TypeOK
<1>3. e \in 1 .. appended
  BY <1>1 DEF TypeOK, Events
<1>4. QED BY <1>2, <1>3 DEF Snapshot, Row

LEMMA BatchFacts ==
    ASSUME TypeOK, NEW s \in batch
    PROVE  /\ s = [event |-> s.event, attempts |-> s.attempts, baseline |-> s.baseline]
           /\ s.attempts \in Nat /\ s.baseline \in Nat
           /\ s.event \in Events /\ s.event <= appended /\ s.event \in Nat
           /\ row[s.event] \in Row /\ row[s.event].status # "NONE"
BY OutboxAssumption DEF TypeOK, Events

LEMMA AfterFailureType ==
    ASSUME TypeOK, NEW s \in batch
    PROVE  /\ AfterFailure(s) \in Row
           /\ AfterFailure(s).attempts = s.attempts + 1
           /\ AfterFailure(s).baseline = row[s.event].baseline
           /\ AfterFailure(s).status =
                  IF Exhausted(s) THEN "DEAD_LETTER" ELSE row[s.event].status
           /\ AfterFailure(s).status # "NONE"
<1> DEFINE r == [row[s.event] EXCEPT !.attempts = s.attempts + 1]
<1>1. row[s.event] \in Row /\ row[s.event].status # "NONE" /\ s.attempts + 1 \in Nat
  BY BatchFacts
<1>2. /\ r \in Row
      /\ r.attempts = s.attempts + 1
      /\ r.baseline = row[s.event].baseline
      /\ r.status = row[s.event].status
  BY <1>1 DEF Row
<1> HIDE DEF r
<1>3. AfterFailure(s) = IF Exhausted(s)
                        THEN [r EXCEPT !.status = "DEAD_LETTER", !.delivery = "dead"]
                        ELSE [r EXCEPT !.delivery = "backoff"]
  BY DEF AfterFailure, r
<1>4. CASE Exhausted(s)
  BY <1>2, <1>3, <1>4 DEF Row, Statuses
<1>5. CASE ~Exhausted(s)
  BY <1>1, <1>2, <1>3, <1>5 DEF Row
<1>6. QED BY <1>4, <1>5

LEMMA RequeuedType ==
    ASSUME TypeOK, NEW e \in Events
    PROVE  /\ Requeued(e) \in Row
           /\ Requeued(e).status = "PENDING"
           /\ Requeued(e).attempts = row[e].attempts
           /\ Requeued(e).baseline = row[e].attempts
BY DEF TypeOK, Requeued, Row, Statuses

\* An insertion keeps the rows typed when there is room for it.
LEMMA InsertType ==
    ASSUME TypeOK, appended < MaxEvents, InsertEvent
    PROVE  /\ appended' \in 0 .. MaxEvents
           /\ row' \in [Events -> Row]
           /\ \A e \in Events : row'[e].status = "NONE" <=> e > appended'
<1>1. appended + 1 \in Events
  BY OutboxAssumption DEF TypeOK, Events
<1>2. row' \in [Events -> Row]
  BY <1>1, RowTypes DEF TypeOK, InsertEvent
<1>3. ASSUME NEW e \in Events
      PROVE  row'[e].status = "NONE" <=> e > appended'
  <2>1. CASE e = appended + 1
    BY <1>1, <2>1, RowTypes DEF TypeOK, InsertEvent, Events
  <2>2. CASE e # appended + 1
    BY <1>1, <2>2 DEF TypeOK, InsertEvent, Events
  <2>3. QED BY <2>1, <2>2
<1>4. QED BY <1>2, <1>3, OutboxAssumption DEF TypeOK, InsertEvent

LEMMA TypeInit == Init => TypeOK
BY OutboxAssumption, RowTypes DEF Init, TypeOK, Events

LEMMA TypeStep == TypeOK /\ [Next]_vars => TypeOK'
<1> SUFFICES ASSUME TypeOK, [Next]_vars PROVE TypeOK'
  OBVIOUS
<1> USE OutboxAssumption
<1>1. CASE AppendEvent
  <2>1. appended < MaxEvents
    BY <1>1 DEF AppendEvent, HasRoom, TypeOK
  <2>2. QED BY <1>1, <2>1, InsertType
            DEF AppendEvent, HasRoom, InsertEvent, TypeOK, operator, environment
<1>2. CASE SelectBatch
  <2>1. batch' \in SUBSET [event : 1 .. appended, attempts : Nat, baseline : Nat]
    BY <1>2, SnapshotType DEF SelectBatch
  <2>2. QED BY <1>2, <2>1 DEF SelectBatch, TypeOK, operator, environment
<1>3. ASSUME NEW s \in batch, SendAccepted(s) PROVE TypeOK'
  BY <1>3, BatchFacts DEF SendAccepted, Send, Arrived, TypeOK, operator, environment
<1>4. ASSUME NEW s \in batch, SendRaises(s) PROVE TypeOK'
  BY <1>4, BatchFacts DEF SendRaises, Send, Arrived, TypeOK, operator, environment
<1>5. ASSUME NEW s \in batch, MarkDelivered(s) PROVE TypeOK'
  BY <1>5, BatchFacts DEF MarkDelivered, TypeOK, Row, Statuses, operator, environment
<1>6. ASSUME NEW s \in batch, MarkFailed(s) PROVE TypeOK'
  <2>1. AfterFailure(s) \in Row /\ AfterFailure(s).status # "NONE"
    BY BatchFacts, AfterFailureType
  <2>2. QED BY <1>6, <2>1, BatchFacts DEF MarkFailed, TypeOK, operator, environment
<1>7. ASSUME NEW e \in Events, BackoffEnds(e) PROVE TypeOK'
  BY <1>7 DEF BackoffEnds, TypeOK, Row, Statuses, operator, environment
<1>8. ASSUME NEW e \in Events, Requeue(e) PROVE TypeOK'
  <2>1. Requeued(e) \in Row /\ Requeued(e).status # "NONE"
    BY RequeuedType
  <2>2. row[e].status # "NONE"
    BY <1>8 DEF Requeue
  <2>3. QED BY <1>8, <2>1, <2>2 DEF Requeue, HasRoom, TypeOK, environment
<1>9. CASE AuditRequeue
  <2>1. appended < MaxEvents
    BY <1>9 DEF AuditRequeue, TypeOK
  <2>2. QED BY <1>9, <2>1, InsertType
            DEF AuditRequeue, InsertEvent, TypeOK, environment
<1>10. CASE StoreRaises
  BY <1>10 DEF StoreRaises, TypeOK
<1>11. CASE CrashRestart
  BY <1>11 DEF CrashRestart, TypeOK
<1>12. CASE UNCHANGED vars
  BY <1>12 DEF vars, TypeOK
<1>13. QED
  BY <1>1, <1>2, <1>3, <1>4, <1>5, <1>6, <1>7, <1>8, <1>9, <1>10, <1>11, <1>12
  DEF Next, PublisherStep

\* Every reachable state is typed, and exactly the appended events have a row.
THEOREM TypeCorrect == Spec => []TypeOK
<1>1. QED BY TypeInit, TypeStep, PTL DEF Spec

-----------------------------------------------------------------------------
(* The retry budget                                                        *)

\* The event of the send whose outcome is not stored yet.
Pending(e) == row[e].status = "PENDING"
InFlight(e) == /\ pc \in {"Delivered", "Failed"}
               /\ \E s \in batch : s.event = e /\ Current(s)
Unstored(e) == IF InFlight(e) THEN 1 ELSE 0
Faults == crashes + storeFaults

\* What the publisher read is still what the row says: nobody else touches a
\* pending row but the clock.
SnapshotsCurrent ==
    \A s \in batch : /\ Pending(s.event)
                     /\ row[s.event].attempts = s.attempts
                     /\ row[s.event].baseline = s.baseline

\* A cycle's stored attempts are its sends, but for the one in flight and
\* those whose outcome a fault kept from the row.
EventBudget(e) ==
    LET stored == row[e].attempts - row[e].baseline IN
    /\ row[e].status = "NONE" =>
          row[e].attempts = 0 /\ row[e].baseline = 0 /\ tries[e] = 0
    /\ Pending(e) => /\ 0 <= stored /\ stored < MaxAttempts
                     /\ stored + Unstored(e) <= tries[e]
                     /\ tries[e] <= stored + Unstored(e) + Faults
    /\ row[e].status = "DEAD_LETTER" => tries[e] >= MaxAttempts
    /\ tries[e] <= MaxAttempts + Faults

ArrivedBeforeMark ==
    \A s \in batch : pc = "Delivered" /\ Current(s) => received[s.event] > 0

BudgetInv ==
    /\ SnapshotsCurrent
    /\ ArrivedBeforeMark
    /\ \A e \in Events : EventBudget(e)

LEMMA BudgetInit == Init => BudgetInv
BY OutboxAssumption
DEF Init, NoRow, BudgetInv, SnapshotsCurrent, ArrivedBeforeMark, EventBudget,
    Pending, Unstored, InFlight, Faults

\* No two snapshots of a batch are of the same event.
LEMMA OneSnapshot ==
    ASSUME TypeOK, BudgetInv, NEW s \in batch, NEW o \in batch,
           s.event = o.event
    PROVE  s = o
BY BatchFacts DEF BudgetInv, SnapshotsCurrent

\* The loop is at one snapshot.
LEMMA OneCurrent ==
    ASSUME TypeOK, BudgetInv, NEW s \in batch, NEW o \in batch,
           Current(s), Current(o)
    PROVE  s = o
<1>1. s.event <= o.event /\ o.event <= s.event
  BY DEF Current
<1>2. s.event = o.event
  BY <1>1, BatchFacts
<1>3. QED BY <1>2, OneSnapshot

LEMMA UnstoredFacts ==
    ASSUME TypeOK, BudgetInv
    PROVE  /\ \A e \in Events : Unstored(e) \in {0, 1}
           /\ pc \in {"Ready", "Stopped"} => \A e \in Events : Unstored(e) = 0
           /\ \A s \in batch : pc \in {"Delivered", "Failed"} /\ Current(s)
                  => \A e \in Events : Unstored(e) = IF e = s.event THEN 1 ELSE 0
<1>1. ASSUME NEW s \in batch, pc \in {"Delivered", "Failed"}, Current(s),
             NEW e \in Events
      PROVE  InFlight(e) <=> e = s.event
  BY <1>1, OneCurrent DEF InFlight
<1>2. QED BY <1>1 DEF Unstored, InFlight

LEMMA FaultsType == ASSUME TypeOK PROVE Faults \in Nat
BY OutboxAssumption DEF TypeOK, Faults

\* A step that does not touch an event's row and sends keeps its budget; a
\* send in flight may be forgotten at the price of a fault.
LEMMA Undisturbed ==
    ASSUME TypeOK, BudgetInv, NEW e \in Events,
           row'[e] = row[e], tries'[e] = tries[e],
           Faults' \in Nat,
           Unstored(e)' \in {0, 1}, Unstored(e)' <= Unstored(e),
           Unstored(e) + Faults <= Unstored(e)' + Faults'
    PROVE  EventBudget(e)'
<1>1. row[e] \in Row /\ tries[e] \in Nat /\ MaxAttempts \in Nat
  BY OutboxAssumption DEF TypeOK
<1>2. Unstored(e) \in {0, 1} /\ Unstored(e)' \in {0, 1}
  BY DEF Unstored
<1>3. Faults \in Nat /\ Faults' \in Nat
  BY FaultsType
<1>4. EventBudget(e)
  BY DEF BudgetInv
<1>5. Faults <= Faults'
  BY <1>2, <1>3
<1>6. QED BY <1>1, <1>2, <1>3, <1>4, <1>5 DEF EventBudget, Pending, Row

\* A thread that is not between a send and its mark has nothing unstored.
LEMMA NothingInFlight ==
    ASSUME TypeOK, NEW e \in Events, pc' \in {"Ready", "Stopped"}
    PROVE  Unstored(e)' = 0
BY DEF Unstored, InFlight

\* What the operators do leaves the publisher's flight alone.
LEMMA SameFlight ==
    ASSUME NEW e \in Events, UNCHANGED <<pc, batch>>
    PROVE  Unstored(e)' = Unstored(e)
BY DEF Unstored, InFlight, Current

LEMMA BudgetAppend ==
    ASSUME TypeOK, BudgetInv, InsertEvent, appended < MaxEvents,
           UNCHANGED <<pc, batch, received, tries, environment>>
    PROVE  BudgetInv'
<1>1. appended + 1 \in Events /\ row[appended + 1].status = "NONE"
  BY OutboxAssumption DEF TypeOK, Events
<1>2. ASSUME NEW e \in Events PROVE EventBudget(e)'
  <2>1. Unstored(e)' = Unstored(e) /\ Unstored(e) \in {0, 1} /\ Faults' = Faults
    BY SameFlight DEF Unstored, environment, Faults
  <2>2. CASE e # appended + 1
    <3>1. row'[e] = row[e] /\ tries'[e] = tries[e]
      BY <2>2 DEF InsertEvent, TypeOK
    <3>2. Faults \in Nat
      BY FaultsType
    <3>3. QED BY <2>1, <3>1, <3>2, Undisturbed
  <2>3. CASE e = appended + 1
    <3>1. row'[e] = Fresh /\ tries'[e] = 0
      BY <1>1, <2>3 DEF InsertEvent, TypeOK, BudgetInv, EventBudget
    <3>2. ~InFlight(e)
      BY <1>1, <2>3 DEF InFlight, BudgetInv, SnapshotsCurrent, Pending
    <3>3. Unstored(e)' = 0
      BY <2>1, <3>2 DEF Unstored
    <3>4. Faults' \in Nat /\ MaxAttempts \in Nat \ {0}
      BY <2>1, OutboxAssumption DEF TypeOK, Faults
    <3>5. QED BY <3>1, <3>3, <3>4 DEF EventBudget, Pending, Fresh, NoRow
  <2>4. QED BY <2>2, <2>3
<1>3. ASSUME NEW s \in batch PROVE row'[s.event] = row[s.event]
  <2>1. s.event # appended + 1
    BY <1>1 DEF BudgetInv, SnapshotsCurrent, Pending
  <2>2. QED BY <2>1, BatchFacts DEF InsertEvent, TypeOK
<1>4. SnapshotsCurrent' /\ ArrivedBeforeMark'
  BY <1>3 DEF BudgetInv, SnapshotsCurrent, ArrivedBeforeMark, Pending, Current
<1>5. QED BY <1>2, <1>4 DEF BudgetInv

\* The loop picks a snapshot and sends its event, whatever comes of it.
LEMMA BudgetSend ==
    ASSUME TypeOK, TypeOK', BudgetInv, NEW s \in batch, Send(s),
           pc' \in {"Delivered", "Failed"},
           pc' = "Delivered" => Arrived(s),
           UNCHANGED <<row, batch, environment>>
    PROVE  BudgetInv'
<1>1. /\ s.event \in Events /\ Current(s) /\ Current(s)' /\ pc = "Ready"
      /\ tries' = [tries EXCEPT ![s.event] = tries[s.event] + 1]
  BY BatchFacts DEF Send, Current
<1>2. ASSUME NEW e \in Events PROVE EventBudget(e)'
  <2>1. Unstored(e) = 0 /\ Faults' = Faults /\ Faults \in Nat
    BY <1>1, FaultsType DEF Unstored, InFlight, environment, Faults
  <2>2. CASE e # s.event
    <3>1. ~InFlight(e)'
      <4>1. ASSUME NEW o \in batch', o.event = e, Current(o)' PROVE FALSE
        <5>1. o \in batch /\ Current(o)
          BY <4>1 DEF Current
        <5>2. QED BY <1>1, <2>2, <4>1, <5>1, OneCurrent
      <4>2. QED BY <4>1 DEF InFlight
    <3>2. Unstored(e)' = 0
      BY <3>1 DEF Unstored
    <3>3. row'[e] = row[e] /\ tries'[e] = tries[e]
      BY <1>1, <2>2 DEF TypeOK
    <3>4. QED BY <2>1, <3>2, <3>3, Undisturbed
  <2>3. CASE e = s.event
    <3>1. Unstored(e)' = 1
      BY <1>1, <2>3 DEF Unstored, InFlight
    <3>2. /\ row'[e] = row[e] /\ row[e].status = "PENDING" /\ EventBudget(e)
          /\ tries'[e] = tries[e] + 1
      BY <1>1, <2>3 DEF TypeOK, BudgetInv, SnapshotsCurrent, Pending
    <3>3. row[e] \in Row /\ tries[e] \in Nat /\ MaxAttempts \in Nat
      BY OutboxAssumption DEF TypeOK
    <3>4. QED BY <2>1, <3>1, <3>2, <3>3 DEF EventBudget, Pending, Row
  <2>4. QED BY <2>2, <2>3
<1>3. SnapshotsCurrent'
  BY DEF BudgetInv, SnapshotsCurrent, Pending
<1>4. ArrivedBeforeMark'
  <2>1. SUFFICES ASSUME NEW o \in batch', pc' = "Delivered", Current(o)'
                 PROVE  received'[o.event] > 0
    BY DEF ArrivedBeforeMark
  <2>2. o \in batch /\ Current(o)
    BY <2>1 DEF Current
  <2>3. o = s
    BY <1>1, <2>2, OneCurrent
  <2>4. received' = [received EXCEPT ![s.event] = received[s.event] + 1]
    BY <2>1 DEF Arrived
  <2>5. QED BY <1>1, <2>3, <2>4 DEF TypeOK
<1>5. QED BY <1>2, <1>3, <1>4 DEF BudgetInv

\* The outcome of the send in flight is stored and the loop goes on.
LEMMA BudgetMark ==
    ASSUME TypeOK, TypeOK', BudgetInv, NEW s \in batch,
           pc \in {"Delivered", "Failed"}, Current(s), pc' = "Ready",
           batch' = batch \ {s}, NEW r, row' = [row EXCEPT ![s.event] = r],
           UNCHANGED <<tries, environment>>,
           EventBudget(s.event)'
    PROVE  BudgetInv'
<1>1. ASSUME NEW e \in Events, e # s.event PROVE EventBudget(e)'
  <2>1. Unstored(e) = 0
    BY <1>1, UnstoredFacts
  <2>2. Unstored(e)' = 0 /\ Faults' = Faults /\ Faults \in Nat
    BY NothingInFlight, FaultsType DEF Faults, environment
  <2>3. row'[e] = row[e] /\ tries'[e] = tries[e]
    BY <1>1 DEF TypeOK
  <2>4. QED BY <2>1, <2>2, <2>3, Undisturbed
<1>2. ASSUME NEW o \in batch' PROVE row'[o.event] = row[o.event]
  <2>1. o.event # s.event
    BY OneSnapshot
  <2>2. QED BY <2>1, BatchFacts DEF TypeOK
<1>3. SnapshotsCurrent' /\ ArrivedBeforeMark'
  BY <1>2 DEF BudgetInv, SnapshotsCurrent, ArrivedBeforeMark, Pending
<1>4. QED BY <1>1, <1>3 DEF BudgetInv

LEMMA BudgetDelivered ==
    ASSUME TypeOK, TypeOK', BudgetInv, NEW s \in batch, MarkDelivered(s)
    PROVE  BudgetInv'
<1>1. /\ s.event \in Events /\ pc = "Delivered" /\ Current(s) /\ pc' = "Ready"
      /\ batch' = batch \ {s} /\ UNCHANGED <<tries, environment>>
      /\ row' = [row EXCEPT ![s.event] =
                    [status |-> "DELIVERED", attempts |-> row[s.event].attempts + 1,
                     baseline |-> 0, delivery |-> "none"]]
  BY BatchFacts DEF MarkDelivered
<1>2. row'[s.event].status = "DELIVERED"
  BY <1>1 DEF TypeOK
<1>3. tries'[s.event] <= MaxAttempts + Faults'
  BY <1>1 DEF BudgetInv, EventBudget, Faults, environment
<1>4. EventBudget(s.event)'
  BY <1>2, <1>3 DEF EventBudget, Pending
<1>5. QED BY <1>1, <1>4, BudgetMark

LEMMA BudgetFailed ==
    ASSUME TypeOK, TypeOK', BudgetInv, NEW s \in batch, MarkFailed(s)
    PROVE  BudgetInv'
<1>1. /\ s.event \in Events /\ pc = "Failed" /\ Current(s) /\ pc' = "Ready"
      /\ batch' = batch \ {s} /\ UNCHANGED <<tries, environment>>
      /\ row' = [row EXCEPT ![s.event] = AfterFailure(s)]
  BY BatchFacts DEF MarkFailed
<1>2. /\ row'[s.event] = AfterFailure(s) /\ tries'[s.event] = tries[s.event]
      /\ Faults' = Faults /\ Unstored(s.event)' = 0 /\ Unstored(s.event) = 1
  BY <1>1, NothingInFlight, UnstoredFacts DEF TypeOK, Faults, environment
<1>3. /\ row[s.event].status = "PENDING" /\ row[s.event].attempts = s.attempts
      /\ row[s.event].baseline = s.baseline /\ EventBudget(s.event)
  BY <1>1 DEF BudgetInv, SnapshotsCurrent, Pending
<1>4. /\ s.attempts \in Nat /\ s.baseline \in Nat /\ tries[s.event] \in Nat
      /\ Faults \in Nat /\ MaxAttempts \in Nat
  BY <1>1, BatchFacts, FaultsType, OutboxAssumption DEF TypeOK
<1>5. /\ AfterFailure(s).attempts = s.attempts + 1
      /\ AfterFailure(s).baseline = s.baseline
      /\ AfterFailure(s).status = IF Exhausted(s) THEN "DEAD_LETTER" ELSE "PENDING"
  BY <1>3, AfterFailureType
<1>6. EventBudget(s.event)'
  BY <1>2, <1>3, <1>4, <1>5 DEF EventBudget, Pending, Exhausted
<1>7. QED BY <1>1, <1>6, BudgetMark

LEMMA BudgetSelect ==
    ASSUME TypeOK, BudgetInv, SelectBatch
    PROVE  BudgetInv'
<1>1. ASSUME NEW e \in Events PROVE EventBudget(e)'
  <2>1. Unstored(e) = 0 /\ Unstored(e)' = 0
    BY NothingInFlight DEF SelectBatch, Unstored, InFlight
  <2>2. Faults' = Faults /\ Faults \in Nat /\ row'[e] = row[e] /\ tries'[e] = tries[e]
    BY FaultsType DEF SelectBatch, Faults, environment
  <2>3. QED BY <2>1, <2>2, Undisturbed
<1>2. SnapshotsCurrent'
  <2>1. SUFFICES ASSUME NEW e \in Due PROVE
                 /\ Pending(Snapshot(e).event)
                 /\ row[Snapshot(e).event].attempts = Snapshot(e).attempts
                 /\ row[Snapshot(e).event].baseline = Snapshot(e).baseline
    BY DEF SelectBatch, SnapshotsCurrent, Pending
  <2>2. QED BY DEF Snapshot, Due, Pending
<1>3. ArrivedBeforeMark'
  BY DEF SelectBatch, ArrivedBeforeMark
<1>4. QED BY <1>1, <1>2, <1>3 DEF BudgetInv

LEMMA BudgetRequeue ==
    ASSUME TypeOK, TypeOK', BudgetInv, NEW d \in Events, Requeue(d)
    PROVE  BudgetInv'
<1>1. /\ row' = [row EXCEPT ![d] = Requeued(d)] /\ row[d].status = "DEAD_LETTER"
      /\ tries' = [tries EXCEPT ![d] = 0]
      /\ UNCHANGED <<pc, batch, received, environment>>
  BY DEF Requeue
<1>2. ASSUME NEW s \in batch PROVE row'[s.event] = row[s.event]
  <2>1. s.event # d
    BY <1>1 DEF BudgetInv, SnapshotsCurrent, Pending
  <2>2. QED BY <1>1, <2>1, BatchFacts DEF TypeOK
<1>3. ASSUME NEW e \in Events PROVE EventBudget(e)'
  <2>1. Unstored(e)' = Unstored(e) /\ Faults' = Faults /\ Faults \in Nat
    BY <1>1, SameFlight, FaultsType DEF Faults, environment
  <2>2. CASE e # d
    <3>1. row'[e] = row[e] /\ tries'[e] = tries[e] /\ Unstored(e) \in {0, 1}
      BY <1>1, <2>2 DEF TypeOK, Unstored
    <3>2. QED BY <2>1, <3>1, Undisturbed
  <2>3. CASE e = d
    <3>1. ~InFlight(d)
      BY <1>1 DEF InFlight, BudgetInv, SnapshotsCurrent, Pending
    <3>2. Unstored(e)' = 0
      BY <2>1, <2>3, <3>1 DEF Unstored
    <3>3. row'[e] = Requeued(d) /\ tries'[e] = 0
      BY <1>1, <2>3 DEF TypeOK
    <3>4. row[d].attempts \in Nat /\ MaxAttempts \in Nat \ {0}
      BY OutboxAssumption DEF TypeOK, Row
    <3>5. QED BY <2>1, <3>2, <3>3, <3>4, RequeuedType DEF EventBudget, Pending
  <2>4. QED BY <2>2, <2>3
<1>4. SnapshotsCurrent' /\ ArrivedBeforeMark'
  BY <1>1, <1>2 DEF BudgetInv, SnapshotsCurrent, ArrivedBeforeMark, Pending, Current
<1>5. QED BY <1>3, <1>4 DEF BudgetInv

\* The clock changes no field the budget depends on.
LEMMA BudgetBackoff ==
    ASSUME TypeOK, BudgetInv, NEW d \in Events, BackoffEnds(d)
    PROVE  BudgetInv'
<1>1. /\ \A e \in Events : /\ row'[e].status = row[e].status
                            /\ row'[e].attempts = row[e].attempts
                            /\ row'[e].baseline = row[e].baseline
      /\ UNCHANGED <<pc, batch, received, tries, environment>>
  BY DEF BackoffEnds, TypeOK, Row
<1>2. ASSUME NEW e \in Events PROVE EventBudget(e)'
  <2>1. Unstored(e)' = Unstored(e) /\ Faults' = Faults /\ tries'[e] = tries[e]
    BY <1>1, SameFlight DEF Faults, environment
  <2>2. EventBudget(e)
    BY DEF BudgetInv
  <2>3. QED BY <1>1, <2>1, <2>2 DEF EventBudget, Pending
<1>3. SnapshotsCurrent' /\ ArrivedBeforeMark'
  BY <1>1, BatchFacts
  DEF BudgetInv, SnapshotsCurrent, ArrivedBeforeMark, Pending, Current
<1>4. QED BY <1>2, <1>3 DEF BudgetInv

\* The publisher loses its flight to a fault or keeps it.
LEMMA BudgetFault ==
    ASSUME TypeOK, BudgetInv, StoreRaises \/ CrashRestart
    PROVE  BudgetInv'
<1>1. /\ Faults' = Faults + 1 /\ Faults \in Nat
      /\ UNCHANGED <<row, received, tries>>
      /\ \/ UNCHANGED <<pc, batch>>
         \/ pc' \in {"Ready", "Stopped"} /\ batch' = {}
  <2>1. /\ crashes \in Nat /\ storeFaults \in Nat
        /\ \/ storeFaults' = storeFaults + 1 /\ crashes' = crashes
           \/ crashes' = crashes + 1 /\ storeFaults' = storeFaults
    BY OutboxAssumption DEF TypeOK, StoreRaises, CrashRestart
  <2>2. Faults' = Faults + 1
    BY <2>1 DEF Faults
  <2>3. QED BY <2>2, FaultsType DEF StoreRaises, CrashRestart
<1>2. ASSUME NEW e \in Events PROVE EventBudget(e)'
  <2>1. /\ Unstored(e) \in {0, 1} /\ Unstored(e)' \in {0, 1}
        /\ Unstored(e)' <= Unstored(e)
    BY <1>1, SameFlight, NothingInFlight DEF Unstored
  <2>2. QED BY <1>1, <2>1, Undisturbed
<1>3. SnapshotsCurrent' /\ ArrivedBeforeMark'
  BY <1>1 DEF BudgetInv, SnapshotsCurrent, ArrivedBeforeMark, Pending, Current
<1>4. QED BY <1>2, <1>3 DEF BudgetInv

LEMMA BudgetStep == TypeOK /\ TypeOK' /\ BudgetInv /\ [Next]_vars => BudgetInv'
<1> SUFFICES ASSUME TypeOK, TypeOK', BudgetInv, [Next]_vars PROVE BudgetInv'
  OBVIOUS
<1>1. CASE AppendEvent
  <2>1. appended < MaxEvents
    BY <1>1, OutboxAssumption DEF AppendEvent, HasRoom, TypeOK
  <2>2. QED BY <1>1, <2>1, BudgetAppend DEF AppendEvent
<1>2. CASE SelectBatch
  BY <1>2, BudgetSelect
<1>3. ASSUME NEW s \in batch, SendAccepted(s) PROVE BudgetInv'
  BY <1>3, BudgetSend DEF SendAccepted
<1>4. ASSUME NEW s \in batch, SendRaises(s) PROVE BudgetInv'
  BY <1>4, BudgetSend DEF SendRaises
<1>5. ASSUME NEW s \in batch, MarkDelivered(s) PROVE BudgetInv'
  BY <1>5, BudgetDelivered
<1>6. ASSUME NEW s \in batch, MarkFailed(s) PROVE BudgetInv'
  BY <1>6, BudgetFailed
<1>7. ASSUME NEW e \in Events, BackoffEnds(e) PROVE BudgetInv'
  BY <1>7, BudgetBackoff
<1>8. ASSUME NEW e \in Events, Requeue(e) PROVE BudgetInv'
  BY <1>8, BudgetRequeue
<1>9. CASE AuditRequeue
  <2>1. appended < MaxEvents
    BY <1>9, OutboxAssumption DEF AuditRequeue, TypeOK
  <2>2. QED BY <1>9, <2>1, BudgetAppend DEF AuditRequeue
<1>10. CASE StoreRaises \/ CrashRestart
  BY <1>10, BudgetFault
<1>11. CASE UNCHANGED vars
  <2>1. \A e \in Events : EventBudget(e)' = EventBudget(e)
    BY <1>11 DEF vars, EventBudget, Pending, Unstored, InFlight, Current, Faults
  <2>2. QED BY <1>11, <2>1
            DEF vars, BudgetInv, SnapshotsCurrent, ArrivedBeforeMark, Pending, Current
<1>12. QED
  BY <1>1, <1>2, <1>3, <1>4, <1>5, <1>6, <1>7, <1>8, <1>9, <1>10, <1>11
  DEF Next, PublisherStep

LEMMA BudgetInvariant == Spec => []BudgetInv
<1>1. QED BY TypeCorrect, BudgetInit, BudgetStep, PTL DEF Spec

\* No event is given up before max_attempts sends of its retry cycle, across
\* requeues, failing transactions and restarts.
THEOREM FullBudget == Spec => []FullBudgetBeforeDeadLetter
<1>1. BudgetInv => FullBudgetBeforeDeadLetter
  BY DEF BudgetInv, EventBudget, FullBudgetBeforeDeadLetter
<1>2. QED BY <1>1, BudgetInvariant, PTL

\* Nor is it sent more often than max_attempts and once per fault.
THEOREM AttemptsBounded == Spec => []BoundedAttempts
<1>1. TypeOK /\ BudgetInv => BoundedAttempts
  <2> SUFFICES ASSUME TypeOK, BudgetInv, NEW e \in Events
               PROVE  tries[e] <= MaxAttempts + crashes + storeFaults
    BY DEF BoundedAttempts
  <2>1. tries[e] <= MaxAttempts + (crashes + storeFaults)
    BY DEF BudgetInv, EventBudget, Faults
  <2>2. crashes \in Nat /\ storeFaults \in Nat /\ MaxAttempts \in Nat /\ tries[e] \in Nat
    BY OutboxAssumption DEF TypeOK
  <2>3. QED BY <2>1, <2>2
<1>2. QED BY <1>1, TypeCorrect, BudgetInvariant, PTL

-----------------------------------------------------------------------------
(* The scraped counter                                                     *)

\* A finite set of attempts, so that its cardinality is a number.
LEMMA AttemptsFinite == ASSUME TypeOK PROVE IsFiniteSet(Attempts)
<1> DEFINE Of(e) == {e} \X (1 .. row[e].attempts)
           Sets == {Of(e) : e \in Events}
           f == [e \in Events |-> Of(e)]
<1>1. IsFiniteSet(Events)
  BY FS_Interval, OutboxAssumption DEF Events
<1>2. f \in Surjection(Events, Sets)
  BY DEF Surjection
<1>3. IsFiniteSet(Sets)
  BY <1>1, <1>2, FS_Surjection
<1>4. ASSUME NEW e \in Events PROVE IsFiniteSet(Of(e))
  <2>1. row[e].attempts \in Nat
    BY DEF TypeOK, Row
  <2>2. IsFiniteSet(1 .. row[e].attempts)
    BY <2>1, FS_Interval, 1 \in Int, row[e].attempts \in Int
  <2>3. IsFiniteSet({e})
    BY FS_Singleton
  <2>4. QED BY <2>2, <2>3, FS_Product
<1>5. \A T \in Sets : IsFiniteSet(T)
  BY <1>4
<1> HIDE DEF Sets
<1>6. IsFiniteSet(UNION Sets)
  BY <1>3, <1>5, FS_UNION
<1>7. QED BY <1>6 DEF Sets, Attempts

LEMMA SameAttempts ==
    ASSUME TypeOK, \A e \in Events : row'[e].attempts = row[e].attempts
    PROVE  asv_siem_delivery_attempts_total' - asv_siem_delivery_attempts_total \in 0 .. 1
<1>1. Attempts' = Attempts
  BY DEF Attempts
<1>2. Cardinality(Attempts) \in Nat
  BY AttemptsFinite, FS_CardinalityType
<1>3. QED BY <1>1, <1>2 DEF asv_siem_delivery_attempts_total

\* One send more of one event is one element more.
LEMMA OneMoreAttempt ==
    ASSUME TypeOK, NEW d \in Events,
           \A e \in Events :
               row'[e].attempts = row[e].attempts + (IF e = d THEN 1 ELSE 0)
    PROVE  asv_siem_delivery_attempts_total' - asv_siem_delivery_attempts_total \in 0 .. 1
<1> DEFINE n == row[d].attempts + 1
<1>1. \A e \in Events : row[e].attempts \in Nat
  BY DEF TypeOK, Row
<1>2. \A e \in Events : 1 .. row'[e].attempts =
          (1 .. row[e].attempts) \cup (IF e = d THEN {n} ELSE {})
  BY <1>1
<1>3. ASSUME NEW a PROVE a \in Attempts' <=> a \in Attempts \cup {<<d, n>>}
  <2>1. a \in Attempts' <=> \E e \in Events : a \in {e} \X (1 .. row'[e].attempts)
    BY DEF Attempts
  <2>2. a \in Attempts <=> \E e \in Events : a \in {e} \X (1 .. row[e].attempts)
    BY DEF Attempts
  <2>3. QED BY <1>2, <2>1, <2>2
<1>4. Attempts' = Attempts \cup {<<d, n>>}
  BY <1>3
<1>5. IsFiniteSet(Attempts) /\ Cardinality(Attempts) \in Nat
  BY AttemptsFinite, FS_CardinalityType
<1>6. Cardinality(Attempts') \in {Cardinality(Attempts), Cardinality(Attempts) + 1}
  BY <1>4, <1>5, FS_AddElement
<1>7. QED BY <1>5, <1>6 DEF asv_siem_delivery_attempts_total

LEMMA AttemptsInsert ==
    ASSUME TypeOK, BudgetInv, InsertEvent, appended < MaxEvents
    PROVE  \A e \in Events : row'[e].attempts = row[e].attempts
<1>1. appended + 1 \in Events /\ row[appended + 1].status = "NONE"
  BY OutboxAssumption DEF TypeOK, Events
<1>2. row[appended + 1].attempts = 0 /\ Fresh.attempts = 0
  BY <1>1 DEF BudgetInv, EventBudget, Fresh, NoRow
<1>3. QED BY <1>1, <1>2 DEF InsertEvent, TypeOK

\* MarkFailed writes what it computed from the row as SelectBatch saw it.
LEMMA AttemptsFailed ==
    ASSUME TypeOK, BudgetInv, NEW s \in batch, MarkFailed(s)
    PROVE  \A e \in Events :
               row'[e].attempts = row[e].attempts + (IF e = s.event THEN 1 ELSE 0)
<1>1. /\ s.event \in Events /\ row[s.event].attempts = s.attempts
      /\ row' = [row EXCEPT ![s.event] = AfterFailure(s)]
  BY BatchFacts DEF MarkFailed, BudgetInv, SnapshotsCurrent
<1>2. AfterFailure(s).attempts = s.attempts + 1
  BY AfterFailureType
<1>3. \A e \in Events : row[e].attempts \in Nat
  BY DEF TypeOK, Row
<1>4. QED BY <1>1, <1>2, <1>3 DEF TypeOK

LEMMA AttemptsStep ==
    TypeOK /\ BudgetInv /\ [Next]_vars =>
        asv_siem_delivery_attempts_total' - asv_siem_delivery_attempts_total \in 0 .. 1
<1> SUFFICES ASSUME TypeOK, BudgetInv, [Next]_vars
             PROVE  asv_siem_delivery_attempts_total' - asv_siem_delivery_attempts_total
                        \in 0 .. 1
  OBVIOUS
<1>1. CASE UNCHANGED row
  BY <1>1, SameAttempts
<1>2. CASE AppendEvent \/ AuditRequeue
  <2>1. appended < MaxEvents /\ InsertEvent
    BY <1>2, OutboxAssumption DEF AppendEvent, AuditRequeue, HasRoom, TypeOK
  <2>2. QED BY <2>1, AttemptsInsert, SameAttempts
<1>3. ASSUME NEW s \in batch, MarkDelivered(s)
      PROVE  asv_siem_delivery_attempts_total' - asv_siem_delivery_attempts_total \in 0 .. 1
  <2>1. s.event \in Events
    BY BatchFacts
  <2>2. \A e \in Events : row[e].attempts \in Nat
    BY DEF TypeOK, Row
  <2>3. \A e \in Events :
            row'[e].attempts = row[e].attempts + (IF e = s.event THEN 1 ELSE 0)
    BY <1>3, <2>1, <2>2 DEF MarkDelivered, TypeOK
  <2>4. QED BY <2>1, <2>3, OneMoreAttempt
<1>4. ASSUME NEW s \in batch, MarkFailed(s)
      PROVE  asv_siem_delivery_attempts_total' - asv_siem_delivery_attempts_total \in 0 .. 1
  BY <1>4, AttemptsFailed, OneMoreAttempt, BatchFacts
<1>5. ASSUME NEW e \in Events, BackoffEnds(e) \/ Requeue(e)
      PROVE  asv_siem_delivery_attempts_total' - asv_siem_delivery_attempts_total \in 0 .. 1
  <2>1. row[e] \in Row /\ row \in [Events -> Row]
    BY DEF TypeOK
  <2>2. \A d \in Events : row'[d].attempts = row[d].attempts
    <3>1. CASE BackoffEnds(e)
      BY <2>1, <3>1 DEF BackoffEnds, Row
    <3>2. CASE Requeue(e)
      <4>1. Requeued(e).attempts = row[e].attempts
        BY <2>1, RequeuedType
      <4>2. QED BY <2>1, <3>2, <4>1 DEF Requeue
    <3>3. QED BY <1>5, <3>1, <3>2
  <2>3. QED BY <2>2, SameAttempts
<1>6. QED
  BY <1>1, <1>2, <1>3, <1>4, <1>5
  DEF Next, PublisherStep, SelectBatch, SendAccepted, SendRaises, StoreRaises,
      CrashRestart, vars

\* The scraped counter never goes down, nor up by more than one send, whoever
\* requeues what the publisher holds as an older SELECT saw it.
THEOREM CounterMonotonic == Spec => AttemptsMonotonic
<1>1. TypeOK /\ BudgetInv /\ [Next]_vars =>
          [asv_siem_delivery_attempts_total' - asv_siem_delivery_attempts_total
              \in 0 .. 1]_vars
  BY AttemptsStep
<1>2. QED BY <1>1, TypeCorrect, BudgetInvariant, PTL DEF Spec, AttemptsMonotonic

-----------------------------------------------------------------------------
(* The outbox implements at-least-once delivery                            *)

LEMMA DeliveryInit == Init => Delivery!Init
BY DEF Init, Delivery!Init, status, NoRow

\* A step that writes one row as the abstract event moves.
LEMMA StatusWrite ==
    ASSUME TypeOK, NEW e \in Events, NEW r, row' = [row EXCEPT ![e] = r]
    PROVE  status' = [status EXCEPT ![e] = r.status]
BY DEF TypeOK, status

LEMMA DeliveryAppend ==
    ASSUME TypeOK, appended < MaxEvents, InsertEvent, UNCHANGED received
    PROVE  \E e \in Events : Delivery!Append(e)
<1>1. appended + 1 \in Events /\ row[appended + 1].status = "NONE"
  BY OutboxAssumption DEF TypeOK, Events
<1>2. status' = [status EXCEPT ![appended + 1] = "PENDING"]
  <2>1. row' = [row EXCEPT ![appended + 1] = Fresh]
    BY DEF InsertEvent
  <2>2. status' = [status EXCEPT ![appended + 1] = Fresh.status]
    BY <1>1, <2>1, StatusWrite
  <2>3. QED BY <2>2, RowTypes
<1>3. status[appended + 1] = "NONE"
  BY <1>1 DEF status
<1>4. Delivery!Append(appended + 1)
  BY <1>2, <1>3 DEF Delivery!Append, Delivery!Becomes
<1>5. QED BY <1>1, <1>4

LEMMA DeliveryStep ==
    TypeOK /\ BudgetInv /\ [Next]_vars => [Delivery!Next]_<<status, received>>
<1> SUFFICES ASSUME TypeOK, BudgetInv, [Next]_vars
             PROVE  Delivery!Next \/ UNCHANGED <<status, received>>
  OBVIOUS
<1>1. CASE AppendEvent
  <2>1. appended < MaxEvents
    BY <1>1, OutboxAssumption DEF AppendEvent, HasRoom, TypeOK
  <2>2. QED BY <1>1, <2>1, DeliveryAppend DEF AppendEvent, Delivery!Next
<1>2. ASSUME NEW s \in batch, Send(s), Arrived(s), row' = row PROVE Delivery!Next
  <2>1. s.event \in Events /\ status[s.event] = "PENDING"
    BY BatchFacts DEF BudgetInv, SnapshotsCurrent, Pending, status
  <2>2. Delivery!Arrive(s.event)
    BY <1>2, <2>1 DEF Delivery!Arrive, Arrived, status
  <2>3. QED BY <2>1, <2>2 DEF Delivery!Next
<1>3. ASSUME NEW s \in batch, SendRaises(s), received' = received
      PROVE  UNCHANGED <<status, received>>
  BY <1>3 DEF SendRaises, status
<1>4. ASSUME NEW s \in batch, MarkDelivered(s) PROVE Delivery!Next
  <2>1. /\ s.event \in Events /\ status[s.event] = "PENDING" /\ received[s.event] > 0
    BY <1>4, BatchFacts
    DEF BudgetInv, SnapshotsCurrent, ArrivedBeforeMark, Pending, status, MarkDelivered
  <2>2. status' = [status EXCEPT ![s.event] = "DELIVERED"]
    <3> DEFINE r == [status |-> "DELIVERED", attempts |-> row[s.event].attempts + 1,
                     baseline |-> 0, delivery |-> "none"]
    <3>1. row' = [row EXCEPT ![s.event] = r] /\ r.status = "DELIVERED"
      BY <1>4 DEF MarkDelivered
    <3> HIDE DEF r
    <3>2. status' = [status EXCEPT ![s.event] = r.status]
      BY <2>1, <3>1, StatusWrite
    <3>3. QED BY <3>1, <3>2
  <2>3. Delivery!Settle(s.event)
    BY <1>4, <2>1, <2>2 DEF Delivery!Settle, Delivery!Becomes, MarkDelivered
  <2>4. QED BY <2>1, <2>3 DEF Delivery!Next
<1>5. ASSUME NEW s \in batch, MarkFailed(s)
      PROVE  Delivery!Next \/ UNCHANGED <<status, received>>
  <2>1. s.event \in Events /\ row[s.event].status = "PENDING" /\ received' = received
    BY <1>5, BatchFacts DEF BudgetInv, SnapshotsCurrent, Pending, MarkFailed
  <2>2. status' = [status EXCEPT ![s.event] = AfterFailure(s).status]
    BY <1>5, <2>1, StatusWrite DEF MarkFailed
  <2>3. CASE Exhausted(s)
    <3>1. AfterFailure(s).status = "DEAD_LETTER"
      BY <2>3, AfterFailureType
    <3>2. Delivery!GiveUp(s.event)
      BY <2>1, <2>2, <3>1 DEF Delivery!GiveUp, Delivery!Becomes, status
    <3>3. QED BY <2>1, <3>2 DEF Delivery!Next
  <2>4. CASE ~Exhausted(s)
    <3>1. AfterFailure(s).status = row[s.event].status
      BY <2>4, AfterFailureType
    <3>2. status' = status
      BY <2>1, <2>2, <3>1 DEF status
    <3>3. QED BY <2>1, <3>2
  <2>5. QED BY <2>3, <2>4
<1>6. ASSUME NEW e \in Events, BackoffEnds(e) PROVE UNCHANGED <<status, received>>
  BY <1>6 DEF BackoffEnds, TypeOK, Row, status
<1>7. ASSUME NEW e \in Events, Requeue(e) PROVE Delivery!Next
  <2>1. status' = [status EXCEPT ![e] = Requeued(e).status]
    BY <1>7, StatusWrite DEF Requeue
  <2>2. status' = [status EXCEPT ![e] = "PENDING"]
    BY <2>1, RequeuedType
  <2>3. Delivery!Requeue(e)
    BY <1>7, <2>2 DEF Delivery!Requeue, Delivery!Becomes, Requeue, status
  <2>4. QED BY <2>3 DEF Delivery!Next
<1>8. CASE AuditRequeue
  <2>1. appended < MaxEvents
    BY <1>8, OutboxAssumption DEF AuditRequeue, TypeOK
  <2>2. QED BY <1>8, <2>1, DeliveryAppend DEF AuditRequeue, Delivery!Next
<1>9. CASE SelectBatch \/ StoreRaises \/ CrashRestart \/ UNCHANGED vars
  BY <1>9 DEF SelectBatch, StoreRaises, CrashRestart, vars, status
<1>10. QED
  BY <1>1, <1>2, <1>3, <1>4, <1>5, <1>6, <1>7, <1>8, <1>9
  DEF Next, PublisherStep, SendAccepted, SendRaises

\* Every event is delivered at least once before it counts as delivered, and
\* never sent again after, whatever fails.
THEOREM DeliversAtLeastOnce == Spec => ImplementsDelivery
<1>1. Spec => Delivery!Init /\ [][Delivery!Next]_<<status, received>>
  BY DeliveryInit, DeliveryStep, TypeCorrect, BudgetInvariant, PTL DEF Spec
<1>2. QED BY <1>1 DEF ImplementsDelivery, Delivery!Spec, Delivery!vars

================================================================================
