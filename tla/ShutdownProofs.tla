--------------------------- MODULE ShutdownProofs ---------------------------
(***************************************************************************)
(* What holds of ShutdownOrchestrator for every set of runs, threads and   *)
(* kinds, and every bound on lapses, faults and crashes.                   *)
(***************************************************************************)
EXTENDS ShutdownOrchestrator, SequenceTheorems, TLAPS

-----------------------------------------------------------------------------
(* The helpers return threads.                                             *)

LEMMA KindsFromOrder == \A i \in DOMAIN PROBE_KINDS : PROBE_KINDS[i] \in Kinds
BY DEF Kinds

LEMMA IdleThreadType == IdleThread \in ThreadType
BY DEF IdleThread, ThreadType, ThreadRecord, PCs

\* Updates of a thread's locals keep its record.
LEMMA SetFound ==
    ASSUME NEW th \in ThreadRecord, NEW pc \in PCs,
           NEW s \in ShutdownStates \cup {None},
           NEW found \in [Kinds -> ProbeResults \cup {None}]
    PROVE  [th EXCEPT !.pc = pc, !.state = s, !.found = found] \in ThreadRecord
BY DEF ThreadRecord

LEMMA SetState ==
    ASSUME NEW th \in ThreadRecord, NEW pc \in PCs,
           NEW s \in ShutdownStates \cup {None}
    PROVE  [th EXCEPT !.pc = pc, !.state = s] \in ThreadRecord
BY DEF ThreadRecord

LEMMA SetReloaded ==
    ASSUME NEW th \in ThreadRecord, NEW pc \in PCs,
           NEW found \in [Kinds -> ProbeResults \cup {None}]
    PROVE  [th EXCEPT !.pc = pc, !.found = found] \in ThreadRecord
BY DEF ThreadRecord

LEMMA SetKind ==
    ASSUME NEW th \in ThreadRecord, NEW pc \in PCs, NEW k \in Kinds \cup {None}
    PROVE  [th EXCEPT !.pc = pc, !.kind = k] \in ThreadRecord
BY DEF ThreadRecord

LEMMA SetResult ==
    ASSUME NEW th \in ThreadRecord, NEW k \in Kinds,
           NEW result \in ProbeResults \cup {None}
    PROVE  /\ [th.found EXCEPT ![k] = result] \in [Kinds -> ProbeResults \cup {None}]
           /\ [th.found EXCEPT ![k] = result][k] = result
BY DEF ThreadRecord

LEMMA SetStatus ==
    ASSUME NEW w \in WorkRow, NEW s \in {"NONE", "PENDING", "RUNNING", "COMPLETE"}
    PROVE  [w EXCEPT !.status = s] \in WorkRow
BY DEF WorkRow

LEMMA SetLapsed ==
    ASSUME NEW w \in WorkRow, NEW b \in BOOLEAN
    PROVE  [w EXCEPT !.lapsed = b] \in WorkRow
BY DEF WorkRow

LEMMA NewThreadType ==
    ASSUME NEW r \in Runs, NEW pc \in PCs
    PROVE  /\ NewThread(r, pc) \in ThreadRecord
           /\ NewThread(r, pc).run = r
           /\ pc \in {"Announce", "Load"} => NewThread(r, pc) \in ThreadType
BY NamesAssumption DEF NewThread, IdleThread, ThreadType, ThreadRecord, PCs

LEMMA CommittingType ==
    ASSUME NEW th \in ThreadRecord, th.run # None,
           NEW target \in ShutdownStates, NEW event \in EventTypes
    PROVE  Committing(th, target, event) \in ThreadType
<1>1. target # None BY NamesAssumption
<1>2. event # None BY NamesAssumption
<1> DEFINE to == Committing(th, target, event)
<1>3. /\ "Commit" \in PCs
      /\ to = [th EXCEPT !.pc = "Commit", !.target = target, !.event = event]
  BY DEF PCs, Committing
<1> HIDE DEF to
<1>4. /\ to \in ThreadRecord
      /\ to.run = th.run /\ to.pc = "Commit"
      /\ to.target = target /\ to.event = event
  BY <1>3 DEF ThreadRecord
<1>5. to \in ThreadType
  BY <1>1, <1>2, <1>4 DEF ThreadType
<1>6. QED BY <1>5 DEF to

LEMMA ExpiringType ==
    ASSUME NEW th \in ThreadRecord, th.run # None
    PROVE  Expiring(th) \in ThreadType
<1>1. /\ "UNKNOWN" \in ShutdownStates
      /\ "shutdown.recovery.deadline.exceeded" \in EventTypes
  BY DEF ShutdownStates, TerminalStates, EventTypes
<1>2. QED BY <1>1, CommittingType DEF Expiring

LEMMA PhaseTables ==
    /\ DOMAIN PhaseOperation = {"REQUESTED", "FENCING", "PROCESS_STOP_SENT"}
    /\ DOMAIN NextPhase = {"REQUESTED", "FENCING", "PROCESS_STOP_SENT",
                           "CHILD_DISCOVERY"}
    /\ \A s \in DOMAIN PhaseOperation : PhaseOperation[s] \in Operations
    /\ \A s \in DOMAIN NextPhase : /\ NextPhase[s] \in ShutdownStates
                                   /\ PhaseEvent[NextPhase[s]] \in EventTypes
BY DEF PhaseOperation, NextPhase, PhaseEvent, Operations, ShutdownStates,
       Phases, EventTypes

LEMMA AdvancingType ==
    ASSUME NEW th \in ThreadRecord, th.run # None, NEW s \in DOMAIN NextPhase
    PROVE  Advancing(th, s) \in ThreadType
BY PhaseTables, CommittingType DEF Advancing

LEMMA DispatchType ==
    ASSUME NEW th \in ThreadRecord, th.run # None, NEW s \in ShutdownStates
    PROVE  Dispatch(th, s) \in ThreadType
<1> DEFINE at == [th EXCEPT !.state = s]
<1>1. at \in ThreadRecord /\ at.run # None
  BY DEF ThreadRecord
<1>2. \A pc \in {"Renew", "NextProbe", "Finish", "Fail"} :
          [at EXCEPT !.pc = pc] \in ThreadType
  BY <1>1 DEF ThreadRecord, ThreadType, PCs
<1>3. CASE s = "CHILD_DISCOVERY"
  <2>1. Dispatch(th, s) = Advancing(at, s)
    BY <1>3, PhaseTables DEF Dispatch, TerminalStates
  <2> HIDE DEF at
  <2>2. QED BY <1>1, <1>3, <2>1, AdvancingType, PhaseTables
<1>4. CASE s # "CHILD_DISCOVERY"
  BY <1>2, <1>4 DEF Dispatch
<1>5. QED BY <1>3, <1>4

LEMMA SavedResultsType ==
    ASSUME TypeOK, NEW r \in Runs
    PROVE  SavedResults(r) \in [Kinds -> ProbeResults \cup {None}]
<1> SUFFICES ASSUME NEW k \in Kinds
             PROVE  SavedResults(r)[k] \in ProbeResults \cup {None}
  BY DEF SavedResults
<1>1. rows[r][k] \in Seq(ProbeResults)
  BY DEF TypeOK
<1>2. rows[r][k] # << >> => Len(rows[r][k]) \in 1 .. Len(rows[r][k])
  BY <1>1, EmptySeq
<1>3. QED BY <1>1, <1>2, ElementOfSeq DEF SavedResults

LEMMA VerdictType ==
    ASSUME NEW results
    PROVE  AggregateProbeResults(results) \in TerminalStates
BY DEF AggregateProbeResults, TerminalStates

-----------------------------------------------------------------------------
(* Type correctness                                                        *)

\* The thread a step works with is typed and has a run.
LEMMA ThreadFacts ==
    ASSUME TypeOK, NEW t \in Threads, thread[t].pc # "Idle"
    PROVE  /\ thread[t] \in ThreadType
           /\ thread[t] \in ThreadRecord
           /\ thread[t].run # None
           /\ RunOf(t) \in Runs
BY DEF TypeOK, RunOf, ThreadType, ThreadRecord

LEMMA BecomeType ==
    ASSUME TypeOK, NEW t \in Threads, NEW th \in ThreadType, Become(t, th)
    PROVE  thread' \in [Threads -> ThreadType]
BY DEF TypeOK, Become

\* The program counters a thread may reach without assigning a local.
LEMMA GoToType ==
    ASSUME TypeOK, NEW t \in Threads, thread[t].pc # "Idle", NEW pc \in PCs,
           pc \notin {"Commit", "Record", "Resume", "Check", "SaveProbe"}
               \/ (pc = "Check" /\ thread[t].pc = "Resume")
               \/ (pc = "Record" /\ thread[t].pc = "Commit"),
           GoTo(t, pc)
    PROVE  thread' \in [Threads -> ThreadType]
<1>1. [thread[t] EXCEPT !.pc = pc] \in ThreadType
  BY ThreadFacts DEF ThreadType, ThreadRecord
<1>2. Become(t, [thread[t] EXCEPT !.pc = pc])
  BY DEF GoTo, Become
<1>3. QED BY <1>1, <1>2, BecomeType

LEMMA ReturnType ==
    ASSUME TypeOK, NEW t \in Threads, Return(t)
    PROVE  thread' \in [Threads -> ThreadType]
BY BecomeType, IdleThreadType DEF Return

\* Appending an event or giving up a lease keeps the rows typed.
LEMMA LedgerType ==
    ASSUME TypeOK, NEW r \in Runs, NEW event \in EventTypes,
           Append_event(r, event)
    PROVE  ledger' \in [Runs -> Seq(EventTypes)]
<1>1. Append(ledger[r], event) \in Seq(EventTypes)
  BY AppendProperties DEF TypeOK
<1>2. QED BY <1>1 DEF TypeOK, Append_event

LEMMA CompletedType ==
    ASSUME TypeOK, NEW t \in Threads
    PROVE  Completed(t) \in [Runs -> WorkRow]
<1> DEFINE done == [status |-> "COMPLETE", owner |-> None, lapsed |-> FALSE]
<1>1. done \in WorkRow BY DEF WorkRow
<1> HIDE DEF done
<1>2. Completed(t) = IF work[RunOf(t)].owner = t
                     THEN [work EXCEPT ![RunOf(t)] = done] ELSE work
  BY DEF Completed, done
<1>3. QED BY <1>1, <1>2 DEF TypeOK

LEMMA ClaimedType ==
    ASSUME NEW owner \in Threads
    PROVE  Claimed(owner) \in WorkRow
BY DEF Claimed, WorkRow

LEMMA OrphanedType ==
    ASSUME TypeOK, NEW ts
    PROVE  Orphaned(ts) \in [Runs -> WorkRow]
<1> SUFFICES ASSUME NEW r \in Runs
             PROVE  Orphaned(ts)[r] \in WorkRow
  BY DEF Orphaned
<1>1. work[r] \in WorkRow BY DEF TypeOK
<1>2. [work[r] EXCEPT !.owner = Dead] \in WorkRow BY <1>1 DEF WorkRow
<1>3. QED BY <1>1, <1>2 DEF Orphaned

LEMMA TypeInit == Init => TypeOK
<1> SUFFICES ASSUME Init PROVE TypeOK OBVIOUS
<1>1. [status |-> "NONE", owner |-> None, lapsed |-> FALSE] \in WorkRow
  BY DEF WorkRow
<1>2. <<"agent.run.started">> \in Seq(EventTypes)
  BY DEF EventTypes
<1>3. overruns = 0 /\ storeFaults = 0 /\ crashes = 0
  BY DEF Init
<1>4. QED BY <1>1, <1>2, <1>3, ConfigAssumption, IdleThreadType
          DEF Init, TypeOK, ShutdownStates

LEMMA TypeThreadStep ==
    ASSUME TypeOK, NEW t \in Threads, ThreadStep(t)
    PROVE  TypeOK'
<1> USE DEF At, environment
<1>1. CASE AnnounceRequest(t)
  <2>1. "shutdown.requested" \in EventTypes BY DEF EventTypes
  <2>2. thread[t].pc = "Announce" /\ "Claim" \in PCs BY <1>1 DEF AnnounceRequest, PCs
  <2>3. QED BY <1>1, <2>1, <2>2, GoToType, LedgerType, ThreadFacts
            DEF AnnounceRequest, TypeOK
<1>2. CASE RecordResume(t)
  <2>1. "shutdown.recovery.resumed" \in EventTypes BY DEF EventTypes
  <2>2. thread[t].pc = "Resume" /\ "Check" \in PCs BY <1>2 DEF RecordResume, PCs
  <2>3. QED BY <1>2, <2>1, <2>2, GoToType, LedgerType, ThreadFacts
            DEF RecordResume, TypeOK
<1>3. CASE RecordProbe(t)
  <2>1. "shutdown.probe.result" \in EventTypes BY DEF EventTypes
  <2>2. thread[t].pc = "RecordProbe" /\ "NextProbe" \in PCs BY <1>3 DEF RecordProbe, PCs
  <2>3. QED BY <1>3, <2>1, <2>2, GoToType, LedgerType, ThreadFacts
            DEF RecordProbe, TypeOK
<1>4. CASE RecordFailed(t)
  <2>1. "shutdown.completed" \in EventTypes BY DEF EventTypes
  <2>2. thread[t].pc # "Idle" BY <1>4 DEF RecordFailed
  <2>3. QED BY <1>4, <2>1, <2>2, ReturnType, LedgerType, ThreadFacts
            DEF RecordFailed, TypeOK
<1>5. CASE ClaimWork(t)
  <2>1. thread[t].pc # "Idle" /\ "Load" \in PCs BY <1>5 DEF ClaimWork, PCs
  <2>2. work' \in [Runs -> WorkRow]
    BY <1>5, <2>1, ClaimedType DEF ClaimWork, TypeOK
  <2>3. QED BY <1>5, <2>1, <2>2, GoToType, ReturnType
            DEF ClaimWork, TypeOK
<1>6. CASE RenewLease(t)
  <2>1. thread[t].pc # "Idle" /\ "Call" \in PCs BY <1>6 DEF RenewLease, PCs
  <2> DEFINE r == RunOf(t)
             row == [work[r] EXCEPT !.lapsed = @ /\ work[r].owner # t]
  <2>2. row \in WorkRow
    <3>1. work[r] \in WorkRow
      BY <2>1, ThreadFacts DEF TypeOK
    <3>2. PICK b \in BOOLEAN : b = (work[r].lapsed /\ work[r].owner # t)
      OBVIOUS
    <3>3. row = [work[r] EXCEPT !.lapsed = b]
      BY <3>2
    <3>4. QED BY <3>1, <3>3, SetLapsed
  <2> HIDE DEF row
  <2>3. work' = [work EXCEPT ![r] = row] BY <1>6 DEF RenewLease, row
  <2>4. work' \in [Runs -> WorkRow] BY <2>2, <2>3 DEF TypeOK
  <2>5. QED BY <1>6, <2>1, <2>4, GoToType DEF RenewLease, TypeOK
<1>7. CASE FinishWork(t)
  BY <1>7, CompletedType, ReturnType DEF FinishWork, TypeOK
<1>8. CASE FailWork(t)
  <2>1. thread[t].pc # "Idle" /\ "CommitFailed" \in PCs BY <1>8 DEF FailWork, PCs
  <2>2. QED BY <1>8, <2>1, CompletedType, GoToType DEF FailWork, TypeOK
<1>9. CASE LoadRun(t)
  <2> DEFINE th == [thread[t] EXCEPT
            !.pc = IF thread[t].recovering THEN "Resume" ELSE "Check",
            !.state = state[RunOf(t)],
            !.found = SavedResults(RunOf(t))]
  <2>1. thread[t].pc # "Idle" BY <1>9 DEF LoadRun
  <2>2. RunOf(t) \in Runs /\ state[RunOf(t)] \in ShutdownStates
        /\ state[RunOf(t)] # None
    BY <2>1, ThreadFacts, NamesAssumption DEF TypeOK
  <2>3. SavedResults(RunOf(t)) \in [Kinds -> ProbeResults \cup {None}]
    BY <2>2, SavedResultsType
  <2>4. th \in ThreadRecord
    <3>1. (IF thread[t].recovering THEN "Resume" ELSE "Check") \in PCs
      BY DEF PCs
    <3>2. QED BY <2>1, <2>2, <2>3, <3>1, ThreadFacts, SetFound
  <2>5. th \in ThreadType
    <3>1. th.run # None /\ th.state # None /\ th.pc \in {"Resume", "Check"}
      BY <2>1, <2>2, ThreadFacts DEF ThreadRecord
    <3>2. QED BY <2>4, <3>1 DEF ThreadType
  <2>6. Become(t, th) BY <1>9 DEF LoadRun
  <2>7. QED BY <1>9, <2>5, <2>6, BecomeType DEF LoadRun, TypeOK, database
<1>10. CASE CheckDeadline(t)
  <2>1. thread[t].pc = "Check" BY <1>10 DEF CheckDeadline
  <2>2. thread[t].state \in ShutdownStates
    BY <2>1, ThreadFacts DEF ThreadType, ThreadRecord
  <2>3. PICK th : Become(t, th) /\ (th = Expiring(thread[t])
                                    \/ th = Dispatch(thread[t], thread[t].state))
    BY <1>10 DEF CheckDeadline
  <2>4. th \in ThreadType
    BY <2>1, <2>2, <2>3, ThreadFacts, ExpiringType, DispatchType
  <2>5. QED BY <1>10, <2>3, <2>4, BecomeType DEF CheckDeadline, TypeOK, database
<1>11. CASE CallAdapter(t)
  <2>1. thread[t].pc # "Idle" /\ thread[t].state \in DOMAIN PhaseOperation
    BY <1>11 DEF CallAdapter, InPhaseCall
  <2>2. Advancing(thread[t], thread[t].state) \in ThreadType
    BY <2>1, PhaseTables, AdvancingType, ThreadFacts
  <2>3. effects' \in [Runs -> SUBSET Operations]
    BY <1>11, <2>1, PhaseTables, ThreadFacts DEF CallAdapter, TypeOK
  <2>4. QED BY <1>11, <2>2, <2>3, BecomeType DEF CallAdapter, TypeOK, database
<1>12. CASE CommitState(t)
  <2>1. thread[t].pc = "Commit" /\ "Record" \in PCs BY <1>12 DEF CommitState, PCs
  <2>2. thread[t].target \in ShutdownStates
    BY <2>1, ThreadFacts DEF ThreadType, ThreadRecord
  <2>3. state' \in [Runs -> ShutdownStates]
    BY <1>12, <2>2 DEF CommitState, TypeOK
  <2>4. QED BY <1>12, <2>1, <2>3, GoToType DEF CommitState, TypeOK
<1>13. CASE RecordState(t)
  <2> DEFINE th == [thread[t] EXCEPT !.target = None, !.event = None]
             reload == [th EXCEPT !.pc = "Reload", !.state = "PROBING"]
  <2>1. thread[t].pc = "Record" BY <1>13 DEF RecordState
  <2>2. /\ thread[t].target \in ShutdownStates
        /\ thread[t].event \in EventTypes
    BY <2>1, ThreadFacts DEF ThreadType, ThreadRecord
  <2>3. th \in ThreadRecord /\ th.run # None
    BY <2>1, ThreadFacts DEF ThreadRecord
  <2>4. reload \in ThreadType
    <3>1. "Reload" \in PCs /\ "PROBING" \in ShutdownStates
      BY DEF PCs, ShutdownStates, Phases
    <3> HIDE DEF th
    <3>2. reload \in ThreadRecord
      BY <2>3, <3>1, SetState
    <3>3. reload.run # None /\ reload.pc = "Reload"
      BY <2>3 DEF ThreadRecord
    <3>4. QED BY <3>2, <3>3 DEF ThreadType
  <2>5. Become(t, IF thread[t].target = "PROBING" THEN reload
                  ELSE Dispatch(th, thread[t].target))
    BY <1>13 DEF RecordState
  <2>6. Append_event(RunOf(t), thread[t].event) BY <1>13 DEF RecordState
  <2> HIDE DEF th, reload
  <2>7. thread' \in [Threads -> ThreadType]
    BY <2>2, <2>3, <2>4, <2>5, DispatchType, BecomeType
  <2>8. ledger' \in [Runs -> Seq(EventTypes)]
    BY <2>1, <2>2, <2>6, LedgerType, ThreadFacts
  <2>9. QED BY <1>13, <2>7, <2>8 DEF RecordState, TypeOK
<1>14. CASE ReloadProbes(t)
  <2> DEFINE th == [thread[t] EXCEPT !.pc = "NextProbe",
                                     !.found = SavedResults(RunOf(t))]
  <2>1. thread[t].pc # "Idle" BY <1>14 DEF ReloadProbes
  <2>2. th \in ThreadType
    <3>1. SavedResults(RunOf(t)) \in [Kinds -> ProbeResults \cup {None}]
      BY <2>1, ThreadFacts, SavedResultsType
    <3>2. th \in ThreadRecord
      BY <2>1, <3>1, ThreadFacts, SetReloaded DEF PCs
    <3>3. th.run # None /\ th.pc = "NextProbe"
      BY <2>1, ThreadFacts DEF ThreadRecord
    <3>4. QED BY <3>2, <3>3 DEF ThreadType
  <2>3. Become(t, th) BY <1>14 DEF ReloadProbes
  <2>4. QED BY <1>14, <2>2, <2>3, BecomeType DEF ReloadProbes, TypeOK, database
<1>15. CASE NextProbe(t)
  <2>1. thread[t].pc # "Idle" BY <1>15 DEF NextProbe
  <2>2. [thread[t] EXCEPT !.pc = "Renew"] \in ThreadType
    BY <2>1, ThreadFacts DEF ThreadType, ThreadRecord, PCs
  <2>3. Committing(thread[t], Verdict(t), "shutdown.completed") \in ThreadType
    BY <2>1, ThreadFacts, CommittingType, VerdictType
       DEF Verdict, ShutdownStates, EventTypes
  <2>4. PICK th \in ThreadType : Become(t, th)
    BY <1>15, <2>1, <2>2, <2>3, ThreadFacts, ExpiringType DEF NextProbe
  <2>5. QED BY <1>15, <2>4, BecomeType DEF NextProbe, TypeOK, database
<1>16. CASE ProbeBoundary(t)
  <2>1. thread[t].pc # "Idle" BY <1>16 DEF ProbeBoundary
  <2>2. PICK k \in Kinds, result \in ProbeResults :
            Become(t, [thread[t] EXCEPT !.pc = "SaveProbe", !.kind = k,
                                        !.found[k] = result])
    BY <1>16 DEF ProbeBoundary
  <2>3. k # None /\ result # None BY NamesAssumption
  <2> DEFINE th == [thread[t] EXCEPT !.pc = "SaveProbe", !.kind = k,
                                     !.found[k] = result]
             at == [thread[t] EXCEPT !.pc = "SaveProbe", !.kind = k]
             found == [thread[t].found EXCEPT ![k] = result]
  <2>4. th \in ThreadRecord /\ th.run # None /\ th.pc = "SaveProbe"
        /\ th.kind = k /\ th.found[k] = result
    <3>1. thread[t] \in ThreadRecord /\ thread[t].run # None /\ "SaveProbe" \in PCs
      BY <2>1, ThreadFacts DEF PCs
    <3>2. at \in ThreadRecord
      BY <3>1, SetKind
    <3>3. /\ found \in [Kinds -> ProbeResults \cup {None}]
          /\ found[k] = result
      BY <3>1, SetResult
    <3>4. at.run # None /\ at.pc = "SaveProbe" /\ at.kind = k
      BY <3>1 DEF ThreadRecord
    <3>5. th = [at EXCEPT !.pc = "SaveProbe", !.found = found]
      BY <3>1 DEF ThreadRecord
    <3> HIDE DEF at, found, th
    <3>6. th \in ThreadRecord
      BY <3>1, <3>2, <3>3, <3>5, SetReloaded
    <3>7. QED BY <3>2, <3>3, <3>4, <3>5, <3>6 DEF ThreadRecord
  <2> HIDE DEF th
  <2>5. th \in ThreadType
    BY <2>3, <2>4 DEF ThreadType
  <2>6. QED BY <1>16, <2>2, <2>5, BecomeType DEF ProbeBoundary, TypeOK, database, th
<1>17. CASE SaveProbe(t)
  <2> DEFINE r == RunOf(t)
             k == thread[t].kind
  <2>1. thread[t].pc = "SaveProbe" BY <1>17 DEF SaveProbe
  <2>2. r \in Runs /\ k \in Kinds /\ thread[t].found[k] \in ProbeResults
    BY <2>1, ThreadFacts DEF ThreadType, ThreadRecord
  <2>3. Append(rows[r][k], thread[t].found[k]) \in Seq(ProbeResults)
    BY <2>2, AppendProperties DEF TypeOK
  <2>4. rows' \in [Runs -> [Kinds -> Seq(ProbeResults)]]
    BY <1>17, <2>2, <2>3 DEF SaveProbe, TypeOK
  <2>5. [thread[t] EXCEPT !.pc = "RecordProbe", !.kind = None] \in ThreadType
    <3> DEFINE th == [thread[t] EXCEPT !.pc = "RecordProbe", !.kind = None]
    <3>1. thread[t] \in ThreadRecord /\ thread[t].run # None /\ "RecordProbe" \in PCs
      BY <2>1, ThreadFacts DEF PCs
    <3>2. th \in ThreadRecord
      BY <3>1, SetKind
    <3>3. th.run # None /\ th.pc = "RecordProbe"
      BY <3>1 DEF ThreadRecord
    <3>4. QED BY <3>2, <3>3 DEF ThreadType
  <2>6. Become(t, [thread[t] EXCEPT !.pc = "RecordProbe", !.kind = None])
    BY <1>17 DEF SaveProbe
  <2>7. QED BY <1>17, <2>4, <2>5, <2>6, BecomeType DEF SaveProbe, TypeOK
<1>18. CASE CommitFailed(t)
  <2>1. thread[t].pc # "Idle" /\ "RecordFailed" \in PCs
    BY <1>18 DEF CommitFailed, PCs
  <2>2. state' \in [Runs -> ShutdownStates]
    BY <1>18 DEF CommitFailed, TypeOK, ShutdownStates, TerminalStates
  <2>3. QED BY <1>18, <2>1, <2>2, GoToType DEF CommitFailed, TypeOK
<1>19. QED
  BY <1>1, <1>2, <1>3, <1>4, <1>5, <1>6, <1>7, <1>8, <1>9, <1>10, <1>11, <1>12, <1>13, <1>14, <1>15, <1>16, <1>17, <1>18 DEF ThreadStep

LEMMA TypeRequest ==
    ASSUME TypeOK, NEW w \in Workers, NEW r \in Runs, NEW k \in Keys,
           RequestShutdown(w, r, k)
    PROVE  TypeOK'
<1>1. w \in Threads BY DEF Threads
<1>2. NewThread(r, "Announce") \in ThreadType BY NewThreadType DEF PCs
<1>3. [work[r] EXCEPT !.status = "PENDING"] \in WorkRow
  <2>1. work[r] \in WorkRow BY DEF TypeOK
  <2>2. QED BY <2>1, SetStatus
<1>4. work' \in [Runs -> WorkRow] BY <1>3 DEF RequestShutdown, TypeOK
<1>5. thread' \in [Threads -> ThreadType]
  BY <1>1, <1>2, BecomeType DEF RequestShutdown
<1>6. QED BY <1>4, <1>5
          DEF RequestShutdown, TypeOK, environment, ShutdownStates, Phases

LEMMA TypeRecovery ==
    ASSUME TypeOK, RecoveryStep
    PROVE  TypeOK'
<1> USE DEF environment, database
<1>1. CASE StartRound
  BY <1>1 DEF StartRound, TypeOK, Incomplete
<1>2. ASSUME NEW r \in Runs, RecoverBusy(r) PROVE TypeOK'
  BY <1>2 DEF RecoverBusy, RecoverRun, TypeOK
<1>3. ASSUME NEW r \in Runs, RecoverExpired(r) PROVE TypeOK'
  <2>1. Recovery \in Threads BY DEF Threads
  <2>2. Expiring(NewThread(r, "Commit")) \in ThreadType
    BY NewThreadType, ExpiringType, NamesAssumption DEF PCs
  <2>3. thread' \in [Threads -> ThreadType]
    BY <1>3, <2>1, <2>2, BecomeType DEF RecoverExpired
  <2>4. work' \in [Runs -> WorkRow]
    BY <1>3, <2>1, ClaimedType DEF RecoverExpired, TypeOK
  <2>5. QED BY <1>3, <2>3, <2>4 DEF RecoverExpired, RecoverRun, TypeOK
<1>4. ASSUME NEW r \in Runs, NEW w \in Workers, RecoverResumable(r, w)
      PROVE  TypeOK'
  <2> DEFINE th == [NewThread(r, "Load") EXCEPT !.recovering = TRUE]
  <2>1. w \in Threads BY DEF Threads
  <2>2. th \in ThreadType
    <3>1. "Load" \in PCs BY DEF PCs
    <3>2. /\ NewThread(r, "Load") \in ThreadType
          /\ NewThread(r, "Load").pc = "Load"
      BY <3>1, NewThreadType DEF NewThread, IdleThread
    <3>3. QED BY <3>2 DEF ThreadType, ThreadRecord
  <2>3. Become(w, th) BY <1>4 DEF RecoverResumable
  <2> HIDE DEF th
  <2>4. thread' \in [Threads -> ThreadType] BY <2>1, <2>2, <2>3, BecomeType
  <2>5. work' \in [Runs -> WorkRow]
    BY <1>4, <2>1, ClaimedType DEF RecoverResumable, TypeOK
  <2>6. QED BY <1>4, <2>4, <2>5 DEF RecoverResumable, RecoverRun, TypeOK
<1>5. QED BY <1>1, <1>2, <1>3, <1>4 DEF RecoveryStep

LEMMA TypeEnvironment ==
    ASSUME TypeOK,
           \/ \E r \in Runs : PassDeadline(r) \/ LapseLease(r)
           \/ \E t \in Threads : AdapterRaises(t) \/ StoreRaises(t)
           \/ CrashRestart
    PROVE  TypeOK'
<1>1. ASSUME NEW r \in Runs, PassDeadline(r) PROVE TypeOK'
  BY <1>1 DEF PassDeadline, TypeOK, environment
<1>2. ASSUME NEW r \in Runs, LapseLease(r) PROVE TypeOK'
  <2>1. [work[r] EXCEPT !.lapsed = TRUE] \in WorkRow BY SetLapsed DEF TypeOK
  <2>2. work' \in [Runs -> WorkRow] BY <1>2, <2>1 DEF LapseLease, TypeOK
  <2>3. overruns' \in 0 .. MaxOverruns
    <3>1. overruns \in 0 .. MaxOverruns /\ MaxOverruns \in Nat
      BY ConfigAssumption DEF TypeOK
    <3>2. \/ overruns' = overruns
          \/ overruns < MaxOverruns /\ overruns' = overruns + 1
      BY <1>2 DEF LapseLease
    <3>3. QED BY <3>1, <3>2
  <2>4. QED BY <1>2, <2>2, <2>3 DEF LapseLease, TypeOK
<1>3. ASSUME NEW t \in Threads, AdapterRaises(t) PROVE TypeOK'
  <2>1. thread[t].pc # "Idle" BY <1>3 DEF AdapterRaises, At
  <2>2. thread' \in [Threads -> ThreadType]
    BY <1>3, <2>1, GoToType DEF AdapterRaises, PCs
  <2>3. effects' \in [Runs -> SUBSET Operations]
    <3>1. \/ effects' = effects
          \/ \E op \in Operations :
                effects' = [effects EXCEPT ![RunOf(t)] = @ \cup {op}]
      BY <1>3, PhaseTables DEF AdapterRaises, InPhaseCall
    <3>2. ASSUME NEW op \in Operations,
                 effects' = [effects EXCEPT ![RunOf(t)] = @ \cup {op}]
          PROVE  effects' \in [Runs -> SUBSET Operations]
      <4>1. RunOf(t) \in Runs BY <2>1, ThreadFacts
      <4>2. effects \in [Runs -> SUBSET Operations] BY DEF TypeOK
      <4>3. effects[RunOf(t)] \cup {op} \in SUBSET Operations
        BY <4>1, <4>2
      <4>4. QED BY <3>2, <4>2, <4>3
    <3>3. effects \in [Runs -> SUBSET Operations] BY DEF TypeOK
    <3>4. QED BY <3>1, <3>2, <3>3
  <2>4. QED BY <1>3, <2>2, <2>3 DEF AdapterRaises, TypeOK, database, environment
<1>4. ASSUME NEW t \in Threads, StoreRaises(t) PROVE TypeOK'
  <2>1. storeFaults' \in 0 .. MaxStoreFaults
    BY <1>4, ConfigAssumption DEF StoreRaises, TypeOK
  <2>2. thread' \in [Threads -> ThreadType]
    <3>1. CASE GoTo(t, "Fail") /\ thread[t].pc \in TryBlock
      BY <3>1, GoToType DEF TryBlock, PCs
    <3>2. CASE Return(t)
      BY <3>2, ReturnType
    <3>3. QED BY <1>4, <3>1, <3>2 DEF StoreRaises
  <2>3. work' \in [Runs -> WorkRow] /\ batch' \subseteq Runs
    BY <1>4, OrphanedType DEF StoreRaises, TypeOK
  <2>4. QED BY <1>4, <2>1, <2>2, <2>3 DEF StoreRaises, TypeOK
<1>5. CASE CrashRestart
  <2>1. crashes' \in 0 .. MaxCrashes
    BY <1>5, ConfigAssumption DEF CrashRestart, TypeOK
  <2>2. QED BY <1>5, <2>1, OrphanedType, IdleThreadType DEF CrashRestart, TypeOK
<1>6. QED BY <1>1, <1>2, <1>3, <1>4, <1>5

\* TypeOK: every row keeps its type and no thread reads a local it has not
\* assigned, for any threads, bounds and faults.
THEOREM TypeCorrect == Spec => []TypeOK
<1>1. TypeOK /\ [Next]_vars => TypeOK'
  <2>1. ASSUME TypeOK, Next PROVE TypeOK'
    BY <2>1, TypeRequest, TypeThreadStep, TypeRecovery, TypeEnvironment DEF Next
  <2>2. ASSUME TypeOK, UNCHANGED vars PROVE TypeOK'
    BY <2>2 DEF TypeOK, vars
  <2>3. QED BY <2>1, <2>2
<1>2. QED BY <1>1, TypeInit, PTL DEF Spec

-----------------------------------------------------------------------------
(* A VERIFIED run has its evidence                                         *)

HasPass(r, k) == \E i \in DOMAIN rows[r][k] : rows[r][k][i] = "PASS"

\* The PASS results a thread still counts on are stored, but for the one it
\* is about to store, and so are those behind a verdict it is committing.
Justified(th) ==
    /\ th.pc \notin {"Idle", "Fail", "CommitFailed", "RecordFailed"} =>
          \A k \in Kinds : th.found[k] = "PASS" =>
             HasPass(th.run, k) \/ (th.pc = "SaveProbe" /\ th.kind = k)
    /\ th.pc \in {"Commit", "Record"} /\ th.target = "VERIFIED" =>
          \A k \in Kinds : HasPass(th.run, k)

EvidenceInv ==
    /\ VerifiedHasEvidence
    /\ \A t \in Threads : Justified(thread[t])

LEMMA SameRowsSamePass ==
    ASSUME rows' = rows
    PROVE  \A r, k : HasPass(r, k)' <=> HasPass(r, k)
BY DEF HasPass

\* A verdict of VERIFIED needs PASS for every kind.
LEMMA VerifiedNeedsPass ==
    ASSUME NEW results \in SUBSET ProbeResults, NEW x \in results,
           AggregateProbeResults(results) = "VERIFIED"
    PROVE  x = "PASS"
BY DEF AggregateProbeResults, ProbeResults

LEMMA SavedPass ==
    ASSUME TypeOK, NEW r \in Runs, NEW k \in Kinds,
           SavedResults(r)[k] = "PASS"
    PROVE  HasPass(r, k)
<1>1. rows[r][k] \in Seq(ProbeResults) BY DEF TypeOK
<1>2. rows[r][k] # << >> /\ rows[r][k][Len(rows[r][k])] = "PASS"
  BY NamesAssumption DEF SavedResults, ProbeResults
<1>3. Len(rows[r][k]) \in DOMAIN rows[r][k] BY <1>1, <1>2, EmptySeq
<1>4. QED BY <1>2, <1>3 DEF HasPass

\* Moving on without touching found, with a target other than VERIFIED.
LEMMA JustifiedMoves ==
    ASSUME NEW th \in ThreadRecord, NEW new \in ThreadRecord,
           Justified(th),
           th.pc \notin {"Idle", "Fail", "CommitFailed", "RecordFailed", "SaveProbe"},
           new.found = th.found, new.run = th.run,
           new.pc \in {"Commit", "Record"} => new.target # "VERIFIED"
    PROVE  Justified(new)
BY DEF Justified

LEMMA DispatchMoves ==
    ASSUME NEW th \in ThreadRecord, NEW s \in ShutdownStates
    PROVE  /\ Dispatch(th, s).found = th.found
           /\ Dispatch(th, s).run = th.run
           /\ Dispatch(th, s).pc \in {"Commit", "Record"}
                => Dispatch(th, s).target # "VERIFIED"
<1>1. CASE s = "CHILD_DISCOVERY"
  <2>1. Dispatch(th, s) = Advancing([th EXCEPT !.state = s], s)
    BY <1>1, PhaseTables DEF Dispatch, TerminalStates
  <2>2. QED BY <1>1, <2>1
            DEF Advancing, Committing, NextPhase, ThreadRecord
<1>2. CASE s # "CHILD_DISCOVERY"
  BY <1>2 DEF Dispatch, ThreadRecord
<1>3. QED BY <1>1, <1>2

LEMMA EvidenceInit == Init => EvidenceInv
BY DEF Init, EvidenceInv, VerifiedHasEvidence, Justified, IdleThread

\* A step that keeps rows and state and gives one thread justified locals.
LEMMA EvidenceBecome ==
    ASSUME TypeOK, EvidenceInv, NEW t \in Threads, NEW th, Justified(th),
           Become(t, th), rows' = rows, state' = state
    PROVE  EvidenceInv'
<1>1. \A u \in Threads : Justified(thread'[u])
  BY DEF EvidenceInv, Become, TypeOK
<1>2. \A u \in Threads : Justified(thread[u])'
  BY <1>1, SameRowsSamePass DEF Justified
<1>3. VerifiedHasEvidence'
  BY DEF EvidenceInv, VerifiedHasEvidence
<1>4. QED BY <1>2, <1>3 DEF EvidenceInv

Failing == {"Idle", "Fail", "CommitFailed", "RecordFailed"}

LEMMA EvidenceGoTo ==
    ASSUME TypeOK, EvidenceInv, NEW t \in Threads, NEW pc \in PCs,
           thread[t].pc # "Idle", GoTo(t, pc),
           \/ pc \in Failing
           \/ thread[t].pc = "Commit" /\ pc = "Record"
           \/ /\ pc \notin {"Commit", "Record", "SaveProbe"}
              /\ thread[t].pc \notin Failing \cup {"SaveProbe"},
           rows' = rows, state' = state
    PROVE  EvidenceInv'
<1> DEFINE th == [thread[t] EXCEPT !.pc = pc]
<1>1. /\ th.pc = pc /\ th.found = thread[t].found /\ th.run = thread[t].run
      /\ th.target = thread[t].target
  BY ThreadFacts DEF ThreadRecord
<1>2. Justified(thread[t]) BY DEF EvidenceInv
<1>3. Become(t, th) BY DEF GoTo, Become
<1> HIDE DEF th
<1>4. Justified(th) BY <1>1, <1>2 DEF Justified, Failing
<1>5. QED BY <1>3, <1>4, EvidenceBecome

LEMMA EvidenceReturn ==
    ASSUME TypeOK, EvidenceInv, NEW t \in Threads, Return(t),
           rows' = rows, state' = state
    PROVE  EvidenceInv'
<1>1. Justified(IdleThread) BY DEF Justified, IdleThread
<1>2. QED BY <1>1, EvidenceBecome DEF Return

\* The steps that leave rows and run states alone.
LEMMA EvidenceQuietStep ==
    ASSUME TypeOK, EvidenceInv, NEW t \in Threads,
           \/ AnnounceRequest(t) \/ ClaimWork(t) \/ RecordResume(t)
           \/ RenewLease(t) \/ RecordProbe(t) \/ FinishWork(t)
           \/ FailWork(t) \/ RecordFailed(t)
    PROVE  EvidenceInv'
<1>1. rows' = rows /\ state' = state
  BY DEF AnnounceRequest, ClaimWork, RecordResume, RenewLease, RecordProbe,
         FinishWork, FailWork, RecordFailed
<1>2. CASE Return(t)
  BY <1>1, <1>2, EvidenceReturn
<1>3. CASE /\ thread[t].pc \notin Failing \cup {"SaveProbe"}
           /\ \E pc \in {"Claim", "Load", "Check", "Call", "NextProbe"} : GoTo(t, pc)
  BY <1>1, <1>3, EvidenceGoTo DEF PCs, Failing
<1>4. CASE thread[t].pc = "Fail" /\ GoTo(t, "CommitFailed")
  BY <1>1, <1>4, EvidenceGoTo DEF PCs, Failing
<1>5. QED BY <1>2, <1>3, <1>4
          DEF AnnounceRequest, ClaimWork, RecordResume, RenewLease, RecordProbe,
              FinishWork, FailWork, RecordFailed, At, Failing

LEMMA EvidenceThreadStep ==
    ASSUME TypeOK, EvidenceInv, NEW t \in Threads, ThreadStep(t)
    PROVE  EvidenceInv'
<1> USE DEF At, database
<1> DEFINE th == thread[t]
           r == RunOf(t)
<1>0. Justified(th) BY DEF EvidenceInv
<1>1. CASE LoadRun(t) \/ ReloadProbes(t)
  <2>1. th.pc \in {"Load", "Reload"} BY <1>1 DEF LoadRun, ReloadProbes
  <2>2. th \in ThreadRecord /\ r \in Runs BY <2>1, ThreadFacts
  <2>3. PICK new : /\ Become(t, new)
                   /\ new.pc \in {"Resume", "Check", "NextProbe"}
                   /\ new.run = r
                   /\ new.found = SavedResults(r)
    <3>1. CASE LoadRun(t)
      <4> DEFINE new == [th EXCEPT
              !.pc = IF th.recovering THEN "Resume" ELSE "Check",
              !.state = state[r], !.found = SavedResults(r)]
      <4>1. /\ new.pc \in {"Resume", "Check"} /\ new.run = th.run
            /\ new.found = SavedResults(r)
        BY <2>2 DEF ThreadRecord
      <4>2. Become(t, new) BY <3>1 DEF LoadRun
      <4> HIDE DEF new
      <4>3. QED BY <4>1, <4>2 DEF RunOf
    <3>2. CASE ReloadProbes(t)
      <4> DEFINE new == [th EXCEPT !.pc = "NextProbe", !.found = SavedResults(r)]
      <4>1. /\ new.pc = "NextProbe" /\ new.run = th.run
            /\ new.found = SavedResults(r)
        BY <2>2 DEF ThreadRecord
      <4>2. Become(t, new) BY <3>2 DEF ReloadProbes
      <4> HIDE DEF new
      <4>3. QED BY <4>1, <4>2 DEF RunOf
    <3>3. QED BY <1>1, <3>1, <3>2
  <2>4. Justified(new)
    BY <2>2, <2>3, SavedPass DEF Justified
  <2>5. QED BY <1>1, <2>3, <2>4, EvidenceBecome DEF LoadRun, ReloadProbes
<1>2. CASE CheckDeadline(t)
  <2>1. th.pc = "Check" BY <1>2 DEF CheckDeadline
  <2>2. th \in ThreadRecord /\ th.run # None /\ th.state \in ShutdownStates
    BY <2>1, ThreadFacts DEF ThreadType, ThreadRecord
  <2>3. PICK new : Become(t, new) /\ (new = Expiring(th) \/ new = Dispatch(th, th.state))
    BY <1>2 DEF CheckDeadline
  <2>4. new \in ThreadRecord
    BY <2>2, <2>3, ExpiringType, DispatchType DEF ThreadType
  <2>5. /\ new.found = th.found /\ new.run = th.run
        /\ new.pc \in {"Commit", "Record"} => new.target # "VERIFIED"
    <3>1. CASE new = Expiring(th)
      BY <2>2, <3>1 DEF Expiring, Committing, ThreadRecord
    <3>2. CASE new = Dispatch(th, th.state)
      BY <2>2, <3>2, DispatchMoves
    <3>3. QED BY <2>3, <3>1, <3>2
  <2>6. Justified(new)
    BY <1>0, <2>1, <2>2, <2>4, <2>5, JustifiedMoves
  <2>7. QED BY <1>2, <2>3, <2>6, EvidenceBecome DEF CheckDeadline
<1>3. CASE CallAdapter(t)
  <2>1. th.pc = "Call" /\ th.state \in DOMAIN PhaseOperation
    BY <1>3 DEF CallAdapter, InPhaseCall
  <2>2. th \in ThreadRecord /\ th.run # None BY <2>1, ThreadFacts
  <2> DEFINE new == Advancing(th, th.state)
  <2>3. new \in ThreadRecord
    BY <2>1, <2>2, PhaseTables, AdvancingType DEF ThreadType
  <2>4. new.found = th.found /\ new.run = th.run /\ new.target # "VERIFIED"
    BY <2>1, <2>2, PhaseTables DEF Advancing, Committing, NextPhase, ThreadRecord
  <2>5. Become(t, new) BY <1>3 DEF CallAdapter
  <2> HIDE DEF new
  <2>6. Justified(new) BY <1>0, <2>1, <2>2, <2>3, <2>4, JustifiedMoves
  <2>7. QED BY <1>3, <2>5, <2>6, EvidenceBecome DEF CallAdapter
<1>4. CASE CommitState(t)
  <2>1. th.pc = "Commit" /\ rows' = rows BY <1>4 DEF CommitState
  <2>2. r \in Runs /\ th.run = r BY <2>1, ThreadFacts DEF RunOf
  <2>3. VerifiedHasEvidence'
    <3>1. \A q \in Runs : state'[q] = "VERIFIED" =>
              state[q] = "VERIFIED" \/ (q = r /\ th.target = "VERIFIED")
      BY <1>4 DEF CommitState, TypeOK
    <3>2. \A q \in Runs : state'[q] = "VERIFIED" => \A k \in Kinds : HasPass(q, k)
      BY <1>0, <2>1, <2>2, <3>1 DEF EvidenceInv, VerifiedHasEvidence, HasPass, Justified
    <3>3. QED BY <2>1, <3>2 DEF VerifiedHasEvidence, HasPass
  <2>4. \A u \in Threads : Justified(thread'[u])
    <3>1. th \in ThreadRecord BY <2>1, ThreadFacts
    <3>2. thread' = [thread EXCEPT ![t] = [th EXCEPT !.pc = "Record"]]
      BY <1>4 DEF CommitState, GoTo
    <3>3. Justified([th EXCEPT !.pc = "Record"])
      BY <1>0, <2>1, <3>1 DEF Justified, ThreadRecord
    <3> HIDE DEF th
    <3>4. QED BY <3>2, <3>3 DEF EvidenceInv, TypeOK
  <2>5. \A u \in Threads : Justified(thread[u])'
    BY <2>1, <2>4, SameRowsSamePass DEF Justified
  <2>6. QED BY <2>3, <2>5 DEF EvidenceInv

<1>5. CASE RecordState(t)
  <2>1. th.pc = "Record" BY <1>5 DEF RecordState
  <2>2. th \in ThreadRecord /\ th.run # None /\ th.target \in ShutdownStates
    BY <2>1, ThreadFacts DEF ThreadType, ThreadRecord
  <2> DEFINE cleared == [th EXCEPT !.target = None, !.event = None]
             reload == [cleared EXCEPT !.pc = "Reload", !.state = "PROBING"]
  <2>3. /\ cleared \in ThreadRecord /\ cleared.run = th.run
        /\ cleared.found = th.found
    BY <2>2 DEF ThreadRecord
  <2>4. /\ reload \in ThreadRecord /\ reload.run = th.run
        /\ reload.found = th.found /\ reload.pc = "Reload"
    BY <2>2 DEF ThreadRecord, PCs, ShutdownStates, Phases
  <2>5. Become(t, IF th.target = "PROBING" THEN reload
                  ELSE Dispatch(cleared, th.target))
    BY <1>5 DEF RecordState
  <2> HIDE DEF cleared, reload, th
  <2>6. Justified(reload)
    BY <1>0, <2>1, <2>2, <2>4, JustifiedMoves
  <2>7. Justified(Dispatch(cleared, th.target))
    <3>1. Dispatch(cleared, th.target) \in ThreadRecord
      BY <2>2, <2>3, DispatchType DEF ThreadType
    <3>2. QED BY <1>0, <2>1, <2>2, <2>3, <3>1, DispatchMoves, JustifiedMoves
  <2>8. rows' = rows /\ state' = state BY <1>5 DEF RecordState
  <2>9. QED BY <2>5, <2>6, <2>7, <2>8, EvidenceBecome
<1>6. CASE NextProbe(t)
  <2>1. th.pc = "NextProbe" BY <1>6 DEF NextProbe
  <2>2. th \in ThreadRecord /\ th.run # None BY <2>1, ThreadFacts
  <2>3. rows' = rows /\ state' = state BY <1>6 DEF NextProbe
  <2>4. ASSUME Become(t, Expiring(th)) PROVE EvidenceInv'
    <3>1. Expiring(th) \in ThreadRecord BY <2>2, ExpiringType DEF ThreadType
    <3>2. /\ Expiring(th).found = th.found /\ Expiring(th).run = th.run
          /\ Expiring(th).target # "VERIFIED"
      BY <2>2 DEF Expiring, Committing, ThreadRecord
    <3>3. Justified(Expiring(th))
      BY <1>0, <2>1, <2>2, <3>1, <3>2, JustifiedMoves
    <3>4. QED BY <2>3, <2>4, <3>3, EvidenceBecome
  <2>5. ASSUME Become(t, [th EXCEPT !.pc = "Renew"]) PROVE EvidenceInv'
    BY <2>1, <2>3, <2>5, EvidenceGoTo DEF Become, GoTo, PCs, Failing
  <2>6. ASSUME \A k \in Kinds : th.found[k] # None,
               Become(t, Committing(th, Verdict(t), "shutdown.completed"))
        PROVE  EvidenceInv'
    <3> DEFINE new == Committing(th, Verdict(t), "shutdown.completed")
               results == {th.found[k] : k \in Kinds}
    <3>1. /\ new.found = th.found /\ new.run = th.run /\ new.pc = "Commit"
          /\ new.target = AggregateProbeResults(results)
      BY <2>2 DEF Committing, Verdict, ThreadRecord
    <3>2. results \in SUBSET ProbeResults
      BY <2>2, <2>6 DEF ThreadRecord
    <3>3. new.target = "VERIFIED" => \A k \in Kinds : th.found[k] = "PASS"
      <4>1. ASSUME NEW k \in Kinds, new.target = "VERIFIED"
            PROVE  th.found[k] = "PASS"
        <5>1. th.found[k] \in results BY <4>1
        <5>2. AggregateProbeResults(results) = "VERIFIED" BY <3>1, <4>1
        <5> HIDE DEF results, th
        <5>3. QED BY <3>2, <5>1, <5>2, VerifiedNeedsPass
      <4>2. QED BY <4>1
    <3> HIDE DEF new
    <3>4. Justified(new) BY <1>0, <2>1, <3>1, <3>3 DEF Justified
    <3>5. QED BY <2>3, <2>6, <3>4, EvidenceBecome DEF new
  <2>7. QED BY <1>6, <2>4, <2>5, <2>6 DEF NextProbe
<1>7. CASE ProbeBoundary(t)
  <2>1. th.pc = "Call" BY <1>7 DEF ProbeBoundary
  <2>2. th \in ThreadRecord BY <2>1, ThreadFacts
  <2>3. PICK k \in Kinds, result \in ProbeResults :
            Become(t, [th EXCEPT !.pc = "SaveProbe", !.kind = k, !.found[k] = result])
    BY <1>7 DEF ProbeBoundary
  <2> DEFINE new == [th EXCEPT !.pc = "SaveProbe", !.kind = k, !.found[k] = result]
  <2>4. /\ new.pc = "SaveProbe" /\ new.kind = k /\ new.run = th.run
        /\ \A j \in Kinds : j # k => new.found[j] = th.found[j]
    BY <2>2 DEF ThreadRecord
  <2> HIDE DEF new
  <2>5. Justified(new) BY <1>0, <2>1, <2>4 DEF Justified
  <2>6. QED BY <1>7, <2>3, <2>5, EvidenceBecome DEF ProbeBoundary, new
<1>8. CASE SaveProbe(t)
  <2>1. th.pc = "SaveProbe" BY <1>8 DEF SaveProbe
  <2>2. /\ th \in ThreadRecord /\ r \in Runs /\ th.run = r
        /\ th.kind \in Kinds /\ th.found[th.kind] \in ProbeResults
    BY <2>1, ThreadFacts DEF ThreadType, ThreadRecord, RunOf
  <2>3. PICK run \in Runs, kind \in Kinds, result \in ProbeResults,
             new \in {[th EXCEPT !.pc = "RecordProbe", !.kind = None]} :
            run = r /\ kind = th.kind /\ result = th.found[th.kind]
    BY <2>2
  <2>4. /\ rows' = [rows EXCEPT ![run][kind] = Append(@, result)]
        /\ state' = state /\ Become(t, new)
    BY <1>8, <2>3 DEF SaveProbe
  <2>5. /\ new.pc = "RecordProbe" /\ new.run = run
        /\ new.found = th.found
    BY <2>2, <2>3 DEF ThreadRecord
  <2> HIDE DEF th, r
  <2>6. \A q \in Runs, j \in Kinds : HasPass(q, j) => HasPass(q, j)'
    <3> SUFFICES ASSUME NEW q \in Runs, NEW j \in Kinds, HasPass(q, j)
                 PROVE  HasPass(q, j)'
      OBVIOUS
    <3>1. rows[q][j] \in Seq(ProbeResults) BY DEF TypeOK
    <3>2. \/ rows'[q][j] = rows[q][j]
          \/ rows'[q][j] = Append(rows[q][j], result)
      BY <2>4 DEF TypeOK
    <3>3. PICK i \in DOMAIN rows[q][j] : rows[q][j][i] = "PASS"
      BY DEF HasPass
    <3>4. i \in DOMAIN rows'[q][j] /\ rows'[q][j][i] = "PASS"
      <4> DEFINE more == Append(rows[q][j], result)
      <4>1. i \in 1 .. Len(rows[q][j]) /\ Len(rows[q][j]) \in Nat
        BY <3>1, <3>3, LenProperties
      <4>2. /\ Len(more) = Len(rows[q][j]) + 1 /\ more \in Seq(ProbeResults)
            /\ more[i] = rows[q][j][i]
        BY <3>1, <4>1, AppendProperties
      <4>3. DOMAIN more = 1 .. Len(more) BY <4>2, LenProperties
      <4> HIDE DEF more
      <4>4. i \in DOMAIN more BY <4>1, <4>2, <4>3
      <4>5. QED BY <3>2, <3>3, <4>2, <4>4 DEF more
    <3>5. QED BY <3>4 DEF HasPass
  <2>7. result = "PASS" => HasPass(run, kind)'
    <3>1. rows[run][kind] \in Seq(ProbeResults) BY DEF TypeOK
    <3>2. rows'[run][kind] = Append(rows[run][kind], result)
      BY <2>4 DEF TypeOK
    <3> DEFINE last == Len(rows[run][kind]) + 1
    <3>3. /\ Len(Append(rows[run][kind], result)) = last
          /\ Append(rows[run][kind], result)[last] = result
      BY <3>1, AppendProperties
    <3>4. last \in DOMAIN Append(rows[run][kind], result)
      <4>1. last \in Nat /\ last >= 1
        BY <3>1, LenProperties
      <4>2. DOMAIN Append(rows[run][kind], result) = 1 .. last
        BY <3>1, <3>3, AppendProperties, LenProperties
      <4>3. QED BY <4>1, <4>2
    <3>5. QED BY <3>2, <3>3, <3>4 DEF HasPass
  <2>8. Justified(new)'
    <3>1. \A k \in Kinds : th.found[k] = "PASS" => HasPass(run, k) \/ kind = k
      BY <1>0, <2>1, <2>2, <2>3 DEF Justified
    <3>2. \A k \in Kinds : new.found[k] = "PASS" => HasPass(run, k)'
      BY <2>2, <2>3, <2>5, <2>6, <2>7, <3>1
    <3>3. QED BY <2>5, <3>2 DEF Justified
  <2>9. \A u \in Threads : Justified(thread[u])'
    <3>1. ASSUME NEW u \in Threads, u # t PROVE Justified(thread[u])'
      <4>1. thread'[u] = thread[u] BY <2>4, <3>1 DEF Become, TypeOK
      <4>2. Justified(thread[u]) BY DEF EvidenceInv
      <4>3. thread[u].pc # "Idle" => thread[u].run \in Runs
        BY ThreadFacts DEF RunOf
      <4>4. QED BY <2>6, <4>1, <4>2, <4>3 DEF Justified
    <3>2. thread'[t] = new BY <2>4 DEF Become, TypeOK
    <3>3. Justified(thread[t])' BY <2>8, <3>2 DEF Justified
    <3>4. QED BY <3>1, <3>3
  <2>10. VerifiedHasEvidence'
    BY <2>4, <2>6 DEF EvidenceInv, VerifiedHasEvidence, HasPass
  <2>11. QED BY <2>9, <2>10 DEF EvidenceInv
<1>9. CASE CommitFailed(t)
  <2>1. th.pc = "CommitFailed" /\ rows' = rows BY <1>9 DEF CommitFailed
  <2>2. th \in ThreadRecord BY <2>1, ThreadFacts
  <2>3. VerifiedHasEvidence'
    BY <1>9 DEF CommitFailed, EvidenceInv, VerifiedHasEvidence, TypeOK
  <2>4. thread' = [thread EXCEPT ![t] = [th EXCEPT !.pc = "RecordFailed"]]
    BY <1>9 DEF CommitFailed, GoTo
  <2>5. Justified([th EXCEPT !.pc = "RecordFailed"])
    BY <2>2 DEF Justified, ThreadRecord
  <2> HIDE DEF th
  <2>6. \A u \in Threads : Justified(thread'[u])
    BY <2>4, <2>5 DEF EvidenceInv, TypeOK
  <2>7. \A u \in Threads : Justified(thread[u])'
    BY <2>1, <2>6, SameRowsSamePass DEF Justified
  <2>8. QED BY <2>3, <2>7 DEF EvidenceInv
<1>10. QED
  BY <1>1, <1>2, <1>3, <1>4, <1>5, <1>6, <1>7, <1>8, <1>9, EvidenceQuietStep
     DEF ThreadStep

\* A step outside the threads' own code: it may start, break or end threads.
LEMMA EvidenceOtherStep ==
    ASSUME TypeOK, EvidenceInv, Next, ~ \E t \in Threads : ThreadStep(t)
    PROVE  EvidenceInv'
<1> USE DEF At, database, environment
<1>1. ASSUME NEW w \in Workers, NEW r \in Runs, NEW k \in Keys,
             RequestShutdown(w, r, k)
      PROVE  EvidenceInv'
  <2>1. rows' = rows /\ state' = [state EXCEPT ![r] = "REQUESTED"]
        /\ Become(w, NewThread(r, "Announce"))
    BY <1>1 DEF RequestShutdown
  <2>2. Justified(NewThread(r, "Announce"))
    BY NamesAssumption DEF Justified, NewThread, IdleThread, ProbeResults
  <2>3. w \in Threads BY DEF Threads
  <2>4. \A u \in Threads : Justified(thread'[u])
    BY <2>1, <2>2, <2>3 DEF EvidenceInv, Become, TypeOK
  <2>5. \A u \in Threads : Justified(thread[u])'
    BY <2>1, <2>4, SameRowsSamePass DEF Justified
  <2>6. VerifiedHasEvidence'
    BY <2>1 DEF EvidenceInv, VerifiedHasEvidence, TypeOK
  <2>7. QED BY <2>5, <2>6 DEF EvidenceInv
<1>2. ASSUME NEW r \in Runs,
             \/ StartRound \/ RecoverBusy(r) \/ PassDeadline(r) \/ LapseLease(r)
      PROVE  EvidenceInv'
  <2>1. rows' = rows /\ state' = state /\ thread' = thread
    BY <1>2 DEF StartRound, RecoverBusy, RecoverRun, PassDeadline, LapseLease
  <2>2. QED BY <2>1, SameRowsSamePass
            DEF EvidenceInv, VerifiedHasEvidence, Justified
<1>3. ASSUME NEW r \in Runs, RecoverExpired(r) PROVE EvidenceInv'
  <2>1. Justified(Expiring(NewThread(r, "Commit")))
    BY NamesAssumption
       DEF Justified, Expiring, Committing, NewThread, IdleThread, ProbeResults
  <2>2. QED BY <1>3, <2>1, EvidenceBecome DEF RecoverExpired, Threads
<1>4. ASSUME NEW r \in Runs, NEW w \in Workers, RecoverResumable(r, w)
      PROVE  EvidenceInv'
  <2>1. Justified([NewThread(r, "Load") EXCEPT !.recovering = TRUE])
    BY NamesAssumption DEF Justified, NewThread, IdleThread, ProbeResults
  <2>2. QED BY <1>4, <2>1, EvidenceBecome DEF RecoverResumable, Threads
<1>5. ASSUME NEW t \in Threads, AdapterRaises(t) PROVE EvidenceInv'
  BY <1>5, EvidenceGoTo DEF AdapterRaises, PCs, Failing
<1>6. ASSUME NEW t \in Threads, StoreRaises(t) PROVE EvidenceInv'
  <2>1. rows' = rows /\ state' = state BY <1>6 DEF StoreRaises
  <2>2. CASE thread[t].pc # "Idle" /\ GoTo(t, "Fail")
    BY <2>1, <2>2, EvidenceGoTo DEF PCs, Failing
  <2>3. CASE Return(t)
    BY <2>1, <2>3, EvidenceReturn
  <2>4. QED BY <1>6, <2>2, <2>3 DEF StoreRaises, TryBlock
<1>7. CASE CrashRestart
  <2>1. Justified(IdleThread) BY DEF Justified, IdleThread
  <2>2. \A u \in Threads : Justified(thread'[u])
    BY <1>7, <2>1 DEF CrashRestart
  <2>3. rows' = rows /\ state' = state BY <1>7 DEF CrashRestart
  <2>4. \A u \in Threads : Justified(thread[u])'
    BY <2>2, <2>3, SameRowsSamePass DEF Justified
  <2>5. QED BY <2>3, <2>4 DEF EvidenceInv, VerifiedHasEvidence
<1>8. ASSUME StartRound PROVE EvidenceInv'
  BY <1>8, SameRowsSamePass
     DEF StartRound, EvidenceInv, VerifiedHasEvidence, Justified
<1>9. QED
  BY <1>1, <1>2, <1>3, <1>4, <1>5, <1>6, <1>7, <1>8 DEF Next, RecoveryStep

\* VerifiedHasEvidence holds under every lapse, fault and crash: the verdict
\* of _orchestrate counts only results that are stored in the probe table.
THEOREM VerifiedIsEvidenced == Spec => []VerifiedHasEvidence
<1>1. TypeOK /\ EvidenceInv /\ [Next]_vars => EvidenceInv'
  <2>1. ASSUME TypeOK, EvidenceInv, Next PROVE EvidenceInv'
    BY <2>1, EvidenceThreadStep, EvidenceOtherStep
  <2>2. ASSUME EvidenceInv, UNCHANGED vars PROVE EvidenceInv'
    <3>1. rows' = rows /\ state' = state /\ thread' = thread BY <2>2 DEF vars
    <3>2. QED BY <2>2, <3>1, SameRowsSamePass
              DEF EvidenceInv, VerifiedHasEvidence, Justified
  <2>3. QED BY <2>1, <2>2
<1>2. EvidenceInv => VerifiedHasEvidence BY DEF EvidenceInv
<1>3. QED BY <1>1, <1>2, TypeCorrect, EvidenceInit, PTL DEF Spec

-----------------------------------------------------------------------------
(* The lease keeps one worker per run                                      *)

Holding(t, r) == Acting(t, r) /\ thread[t].pc \notin {"CommitFailed", "RecordFailed"}

\* While no lease expires under a live thread, a thread past its claim holds
\* the lease of its run until it completes the work. Threads and the recovery
\* round deal with requested runs only.
LeaseInv ==
    /\ \A t \in Threads, r \in Runs : Holding(t, r) =>
          work[r].owner = t /\ ~work[r].lapsed /\ work[r].status # "COMPLETE"
    /\ \A t \in Threads, r \in Runs : Acting(t, r) /\ ~Holding(t, r) =>
          work[r].status = "COMPLETE"
    /\ \A t \in Threads, r \in Runs : thread[t].pc # "Idle" /\ RunOf(t) = r =>
          key[r] # None
    /\ \A r \in batch : key[r] # None
    /\ OneWorkerPerRun

\* Nobody acts on a run whose work can be claimed.
LEMMA ClaimableIsFree ==
    ASSUME LeaseInv, NEW r \in Runs, Claimable(r)
    PROVE  \A t \in Threads : ~Acting(t, r)
BY NamesAssumption DEF LeaseInv, Claimable, Holding

Waiting == {"Idle", "Announce", "Claim"}

\* A step of one thread that leaves the work rows alone and stays with its
\* run, keeping its side of the lease, or leaves the run for good.
LEMMA LeaseKept ==
    ASSUME TypeOK, LeaseInv, NEW t \in Threads, NEW th, Become(t, th),
           work' = work, key' = key, batch' \subseteq batch,
           th.pc # "Idle" => th.run = thread[t].run /\ thread[t].pc # "Idle",
           \/ th.pc \in Waiting
           \/ /\ thread[t].pc \notin Waiting \cup {"CommitFailed", "RecordFailed"}
              /\ th.pc \notin {"CommitFailed", "RecordFailed"}
           \/ /\ thread[t].pc = "CommitFailed"
              /\ th.pc = "RecordFailed"
    PROVE  LeaseInv'
<1>1. thread'[t] = th /\ \A u \in Threads : u # t => thread'[u] = thread[u]
  BY DEF Become, TypeOK
<1>2. ASSUME NEW u \in Threads, NEW r \in Runs, Acting(u, r)'
      PROVE  Acting(u, r) /\ (Holding(u, r)' <=> Holding(u, r))
  <2>1. CASE u = t
    BY <1>1, <1>2, <2>1 DEF Acting, Holding, RunOf, Waiting
  <2>2. CASE u # t
    BY <1>1, <1>2, <2>2 DEF Acting, Holding, RunOf
  <2>3. QED BY <2>1, <2>2
<1>3. \A u \in Threads, r \in Runs : Holding(u, r)' => Acting(u, r)'
  BY DEF Holding
<1>4. ASSUME NEW u \in Threads, NEW r \in Runs,
             thread'[u].pc # "Idle", thread'[u].run = r
      PROVE  key'[r] # None
  BY <1>1, <1>4 DEF LeaseInv, RunOf
<1>5. QED BY <1>2, <1>3, <1>4 DEF LeaseInv, OneWorkerPerRun, RunOf

\* A waiting thread claims the work of a run and starts on it.
LEMMA LeaseClaimed ==
    ASSUME TypeOK, LeaseInv, NEW t \in Threads, NEW r \in Runs, NEW th,
           thread[t].pc \in Waiting, key[r] # None, Claimable(r),
           work' = [work EXCEPT ![r] = Claimed(t)], Become(t, th),
           th.run = r, th.pc \notin Waiting \cup {"CommitFailed", "RecordFailed"},
           key' = key, batch' \subseteq batch
    PROVE  LeaseInv'
<1>1. thread'[t] = th /\ \A u \in Threads : u # t => thread'[u] = thread[u]
  BY DEF Become, TypeOK
<1>2. /\ work'[r] = Claimed(t)
      /\ \A q \in Runs : q # r => work'[q] = work[q]
  BY DEF TypeOK
<1>3. ASSUME NEW u \in Threads, NEW q \in Runs, u # t
      PROVE  /\ Acting(u, q)' <=> Acting(u, q)
             /\ Holding(u, q)' <=> Holding(u, q)
  BY <1>1, <1>3 DEF Acting, Holding, RunOf
<1>4. /\ Holding(t, r)'
      /\ \A q \in Runs : q # r => ~Acting(t, q)'
  BY <1>1 DEF Acting, Holding, RunOf, Waiting
<1>5. \A u \in Threads : u # t => ~Acting(u, r)'
  BY <1>3, ClaimableIsFree
<1>6. \A u \in Threads, q \in Runs : Holding(u, q)' => Acting(u, q)'
  BY DEF Holding
<1>7. OneWorkerPerRun'
  BY <1>3, <1>4, <1>5 DEF LeaseInv, OneWorkerPerRun
<1>8. \A u \in Threads, q \in Runs : Holding(u, q)' =>
          work'[q].owner = u /\ ~work'[q].lapsed /\ work'[q].status # "COMPLETE"
  BY <1>2, <1>3, <1>4, <1>5, <1>6 DEF LeaseInv, Claimed
<1>9. \A u \in Threads, q \in Runs : Acting(u, q)' /\ ~Holding(u, q)' =>
          work'[q].status = "COMPLETE"
  BY <1>2, <1>3, <1>4, <1>5 DEF LeaseInv
<1>10. \A u \in Threads, q \in Runs : thread'[u].pc # "Idle" /\ thread'[u].run = q
          => key'[q] # None
  BY <1>1 DEF LeaseInv, RunOf
<1>11. QED BY <1>7, <1>8, <1>9, <1>10 DEF LeaseInv, RunOf

\* A thread gives up the lease it holds: no other row changes.
LEMMA LeaseCompleted ==
    ASSUME TypeOK, LeaseInv, NEW t \in Threads, NEW th,
           thread[t].pc \in {"Finish", "Fail"},
           work' = Completed(t), Become(t, th),
           th.pc = "Idle" \/ (th.pc = "CommitFailed" /\ th.run = thread[t].run),
           key' = key, batch' = batch
    PROVE  LeaseInv'
<1> DEFINE r == RunOf(t)
<1>1. thread'[t] = th /\ \A u \in Threads : u # t => thread'[u] = thread[u]
  BY DEF Become, TypeOK
<1>2. r \in Runs BY ThreadFacts
<1>3. Holding(t, r) BY DEF Acting, Holding
<1>4. \A u \in Threads : u # t => ~Acting(u, r)
  BY <1>2, <1>3 DEF LeaseInv, OneWorkerPerRun, Holding
<1>5. /\ work'[r].status = "COMPLETE"
      /\ \A q \in Runs : q # r => work'[q] = work[q]
  BY <1>2, <1>3 DEF Completed, LeaseInv, TypeOK
<1>6. ASSUME NEW u \in Threads, NEW q \in Runs, Acting(u, q)'
      PROVE  \/ u # t /\ q # r /\ Acting(u, q) /\ (Holding(u, q)' <=> Holding(u, q))
             \/ u = t /\ q = r /\ ~Holding(u, q)'
  BY <1>1, <1>4, <1>6 DEF Acting, Holding, RunOf
<1>7. \A u \in Threads, q \in Runs : Holding(u, q)' => Acting(u, q)'
  BY DEF Holding
<1>8. \A u \in Threads, q \in Runs : thread'[u].pc # "Idle" /\ thread'[u].run = q
          => key'[q] # None
  BY <1>1 DEF LeaseInv, RunOf
<1> HIDE DEF r
<1>9. OneWorkerPerRun' BY <1>6 DEF LeaseInv, OneWorkerPerRun
<1>10. QED BY <1>5, <1>6, <1>7, <1>8, <1>9 DEF LeaseInv, RunOf

\* Helpers move a thread within its orchestration.
LEMMA CommittingMoves ==
    ASSUME NEW th \in ThreadRecord, NEW target, NEW event
    PROVE  /\ Committing(th, target, event).run = th.run
           /\ Committing(th, target, event).pc = "Commit"
BY DEF Committing, ThreadRecord

LEMMA DispatchStays ==
    ASSUME NEW th \in ThreadRecord, NEW s \in ShutdownStates
    PROVE  /\ Dispatch(th, s).run = th.run
           /\ Dispatch(th, s).pc \in {"Renew", "Commit", "NextProbe", "Finish", "Fail"}
<1> DEFINE at == [th EXCEPT !.state = s]
<1>1. at \in ThreadRecord /\ at.run = th.run BY DEF ThreadRecord
<1>2. CASE s = "CHILD_DISCOVERY"
  <2>1. Dispatch(th, s) = Advancing(at, s)
    BY <1>2, PhaseTables DEF Dispatch, TerminalStates
  <2> HIDE DEF at
  <2>2. QED BY <1>1, <2>1, CommittingMoves DEF Advancing
<1>3. CASE s # "CHILD_DISCOVERY"
  BY <1>3 DEF Dispatch, ThreadRecord
<1>4. QED BY <1>2, <1>3

\* The steps of a thread that holds its lease and leaves the work rows alone.
LEMMA LeaseHolderStep ==
    ASSUME TypeOK, LeaseInv, NEW t \in Threads,
           \/ LoadRun(t) \/ RecordResume(t) \/ CheckDeadline(t) \/ CallAdapter(t)
           \/ CommitState(t) \/ RecordState(t) \/ ReloadProbes(t) \/ NextProbe(t)
           \/ ProbeBoundary(t) \/ SaveProbe(t) \/ RecordProbe(t)
    PROVE  LeaseInv'
<1> DEFINE th == thread[t]
<1> USE DEF At, database
<1>1. th.pc \notin Waiting \cup {"CommitFailed", "RecordFailed"}
  BY DEF LoadRun, RecordResume, CheckDeadline, CallAdapter, InPhaseCall,
         CommitState, RecordState, ReloadProbes, NextProbe, ProbeBoundary,
         SaveProbe, RecordProbe, Waiting
<1>2. th \in ThreadType /\ th \in ThreadRecord BY <1>1, ThreadFacts DEF Waiting
<1>3. work' = work /\ key' = key /\ batch' = batch
  BY DEF LoadRun, RecordResume, CheckDeadline, CallAdapter,
         CommitState, RecordState, ReloadProbes, NextProbe, ProbeBoundary,
         SaveProbe, RecordProbe
<1>4. SUFFICES \E new : /\ Become(t, new) /\ new.run = th.run
                        /\ new.pc \notin {"Idle", "CommitFailed", "RecordFailed"}
  BY <1>1, <1>3, LeaseKept DEF Waiting
<1>5. ASSUME NEW pc, GoTo(t, pc), pc \notin {"Idle", "CommitFailed", "RecordFailed"}
      PROVE  \E new : /\ Become(t, new) /\ new.run = th.run
                      /\ new.pc \notin {"Idle", "CommitFailed", "RecordFailed"}
  <2> DEFINE new == [th EXCEPT !.pc = pc]
  <2>1. Become(t, new) BY <1>5 DEF GoTo, Become
  <2>2. new.run = th.run /\ new.pc = pc BY <1>2 DEF ThreadRecord
  <2> HIDE DEF new
  <2>3. QED BY <1>5, <2>1, <2>2
<1>6. CASE RecordResume(t) \/ CommitState(t) \/ RecordProbe(t)
  BY <1>5, <1>6 DEF RecordResume, CommitState, RecordProbe
<1>7. CASE LoadRun(t)
  <2> DEFINE new == [th EXCEPT
          !.pc = IF th.recovering THEN "Resume" ELSE "Check",
          !.state = state[RunOf(t)], !.found = SavedResults(RunOf(t))]
  <2>1. new.run = th.run /\ new.pc \in {"Resume", "Check"}
    BY <1>2 DEF ThreadRecord
  <2>2. Become(t, new) BY <1>7 DEF LoadRun
  <2> HIDE DEF new
  <2>3. QED BY <2>1, <2>2
<1>8. CASE CheckDeadline(t)
  <2>1. th.state \in ShutdownStates
    BY <1>2, <1>8 DEF CheckDeadline, ThreadType, ThreadRecord
  <2>2. QED BY <1>2, <1>8, <2>1, DispatchStays, CommittingMoves
            DEF CheckDeadline, Expiring
<1>9. CASE CallAdapter(t)
  BY <1>2, <1>9, CommittingMoves DEF CallAdapter, Advancing
<1>10. CASE RecordState(t)
  <2> DEFINE cleared == [th EXCEPT !.target = None, !.event = None]
             reload == [cleared EXCEPT !.pc = "Reload", !.state = "PROBING"]
  <2>1. cleared \in ThreadRecord /\ cleared.run = th.run
    BY <1>2 DEF ThreadRecord
  <2>2. reload.run = th.run /\ reload.pc = "Reload"
    BY <1>2 DEF ThreadRecord
  <2>3. th.target \in ShutdownStates
    BY <1>2, <1>10 DEF RecordState, ThreadType, ThreadRecord
  <2>4. Become(t, IF th.target = "PROBING" THEN reload
                  ELSE Dispatch(cleared, th.target))
    BY <1>10 DEF RecordState
  <2> HIDE DEF cleared, reload
  <2>5. CASE th.target = "PROBING" BY <2>2, <2>4, <2>5
  <2>6. CASE th.target # "PROBING"
    BY <2>1, <2>3, <2>4, <2>6, DispatchStays
  <2>7. QED BY <2>5, <2>6
<1>11. CASE ReloadProbes(t)
  <2> DEFINE new == [th EXCEPT !.pc = "NextProbe", !.found = SavedResults(RunOf(t))]
  <2>1. new.run = th.run /\ new.pc = "NextProbe" BY <1>2 DEF ThreadRecord
  <2>2. Become(t, new) BY <1>11 DEF ReloadProbes
  <2> HIDE DEF new
  <2>3. QED BY <2>1, <2>2
<1>12. CASE NextProbe(t)
  <2>1. CASE Become(t, [th EXCEPT !.pc = "Renew"])
    <3> DEFINE new == [th EXCEPT !.pc = "Renew"]
    <3>1. new.run = th.run /\ new.pc = "Renew" BY <1>2 DEF ThreadRecord
    <3> HIDE DEF new
    <3>2. QED BY <2>1, <3>1 DEF new
  <2>2. CASE Become(t, Expiring(th))
    BY <1>2, <2>2, CommittingMoves DEF Expiring
  <2>3. CASE Become(t, Committing(th, Verdict(t), "shutdown.completed"))
    BY <1>2, <2>3, CommittingMoves
  <2>4. QED BY <1>12, <2>1, <2>2, <2>3 DEF NextProbe
<1>13. CASE ProbeBoundary(t)
  <2>1. PICK k \in Kinds, result \in ProbeResults :
            Become(t, [th EXCEPT !.pc = "SaveProbe", !.kind = k, !.found[k] = result])
    BY <1>13 DEF ProbeBoundary
  <2> DEFINE new == [th EXCEPT !.pc = "SaveProbe", !.kind = k, !.found[k] = result]
  <2>2. new.run = th.run /\ new.pc = "SaveProbe" BY <1>2 DEF ThreadRecord
  <2> HIDE DEF new
  <2>3. QED BY <2>1, <2>2 DEF new
<1>14. CASE SaveProbe(t)
  <2> DEFINE new == [th EXCEPT !.pc = "RecordProbe", !.kind = None]
  <2>1. new.run = th.run /\ new.pc = "RecordProbe" BY <1>2 DEF ThreadRecord
  <2>2. Become(t, new) BY <1>14 DEF SaveProbe
  <2> HIDE DEF new
  <2>3. QED BY <2>1, <2>2
<1>15. QED
  BY <1>6, <1>7, <1>8, <1>9, <1>10, <1>11, <1>12, <1>13, <1>14

LEMMA LeaseThreadStep ==
    ASSUME TypeOK, LeaseInv, NEW t \in Threads, ThreadStep(t)
    PROVE  LeaseInv'
<1> DEFINE th == thread[t]
           r == RunOf(t)
<1> USE DEF At
<1>1. CASE AnnounceRequest(t)
  <2> DEFINE new == [th EXCEPT !.pc = "Claim"]
  <2>1. th.pc = "Announce" BY <1>1 DEF AnnounceRequest
  <2>2. new.run = th.run /\ new.pc = "Claim"
    BY <2>1, ThreadFacts DEF ThreadRecord
  <2>3. Become(t, new) BY <1>1 DEF AnnounceRequest, GoTo, Become
  <2> HIDE DEF new
  <2>4. QED BY <1>1, <2>1, <2>2, <2>3, LeaseKept DEF AnnounceRequest, Waiting
<1>2. CASE ClaimWork(t)
  <2>1. th.pc = "Claim" BY <1>2 DEF ClaimWork
  <2>2. CASE Claimable(r)
    <3> DEFINE new == [th EXCEPT !.pc = "Load"]
    <3>1. new.run = r /\ new.pc = "Load" /\ r \in Runs /\ key[r] # None
      BY <2>1, ThreadFacts DEF ThreadRecord, RunOf, LeaseInv
    <3>2. Become(t, new) /\ work' = [work EXCEPT ![r] = Claimed(t)]
      BY <1>2, <2>2 DEF ClaimWork, GoTo, Become
    <3>3. key' = key /\ batch' \subseteq batch BY <1>2 DEF ClaimWork
    <3>4. thread[t].pc \in Waiting BY <2>1 DEF Waiting
    <3>5. new.pc \notin Waiting \cup {"CommitFailed", "RecordFailed"}
      BY <3>1 DEF Waiting
    <3> HIDE DEF new, r, th
    <3>6. QED BY <2>2, <3>1, <3>2, <3>3, <3>4, <3>5, LeaseClaimed
  <2>3. CASE ~Claimable(r)
    <3>1. Return(t) /\ work' = work /\ key' = key /\ batch' = batch
      BY <1>2, <2>3 DEF ClaimWork
    <3>2. IdleThread.pc = "Idle" BY DEF IdleThread
    <3>3. QED BY <3>1, <3>2, LeaseKept DEF Return, Waiting
  <2>4. QED BY <2>2, <2>3
<1>3. CASE RenewLease(t)
  <2> DEFINE new == [th EXCEPT !.pc = "Call"]
  <2>1. th.pc = "Renew" BY <1>3 DEF RenewLease
  <2>2. new.run = th.run /\ new.pc = "Call" /\ r \in Runs
    BY <2>1, ThreadFacts DEF ThreadRecord
  <2>3. ~work[r].lapsed /\ work[r] \in WorkRow
    BY <2>1, <2>2 DEF LeaseInv, Holding, Acting, TypeOK
  <2>4. [work[r] EXCEPT !.lapsed = FALSE] = work[r]
    BY <2>3 DEF WorkRow
  <2>5. work' = work
    BY <1>3, <2>2, <2>3, <2>4 DEF RenewLease, TypeOK
  <2>6. Become(t, new) BY <1>3 DEF RenewLease, GoTo, Become
  <2> HIDE DEF new
  <2>7. QED BY <1>3, <2>1, <2>2, <2>5, <2>6, LeaseKept DEF RenewLease, Waiting
<1>4. CASE FinishWork(t)
  BY <1>4, LeaseCompleted DEF FinishWork, Return, IdleThread
<1>5. CASE FailWork(t)
  <2> DEFINE new == [th EXCEPT !.pc = "CommitFailed"]
  <2>1. th.pc = "Fail" BY <1>5 DEF FailWork
  <2>2. new.run = th.run /\ new.pc = "CommitFailed"
    BY <2>1, ThreadFacts DEF ThreadRecord
  <2>3. Become(t, new) BY <1>5 DEF FailWork, GoTo, Become
  <2> HIDE DEF new
  <2>4. QED BY <1>5, <2>1, <2>2, <2>3, LeaseCompleted DEF FailWork
<1>6. CASE CommitFailed(t)
  <2> DEFINE new == [th EXCEPT !.pc = "RecordFailed"]
  <2>1. th.pc = "CommitFailed" BY <1>6 DEF CommitFailed
  <2>2. new.run = th.run /\ new.pc = "RecordFailed"
    BY <2>1, ThreadFacts DEF ThreadRecord
  <2>3. Become(t, new) BY <1>6 DEF CommitFailed, GoTo, Become
  <2> HIDE DEF new
  <2>4. QED BY <1>6, <2>1, <2>2, <2>3, LeaseKept DEF CommitFailed
<1>7. CASE RecordFailed(t)
  BY <1>7, LeaseKept DEF RecordFailed, Return, IdleThread, Waiting
<1>8. QED
  BY <1>1, <1>2, <1>3, <1>4, <1>5, <1>6, <1>7, LeaseHolderStep DEF ThreadStep

\* Threads that end leave their leases to Dead, which holds none of a thread
\* that lives.
LEMMA LeaseOrphaned ==
    ASSUME TypeOK, LeaseInv, NEW ts \in SUBSET Threads,
           \A u \in ts : thread'[u] = IdleThread,
           \A u \in Threads \ ts : thread'[u] = thread[u],
           work' = Orphaned(ts), key' = key, batch' \subseteq batch
    PROVE  LeaseInv'
<1>1. \A u \in ts : thread'[u].pc = "Idle" BY DEF IdleThread
<1>2. ASSUME NEW u \in Threads, NEW q \in Runs, Acting(u, q)'
      PROVE  u \notin ts /\ Acting(u, q) /\ (Holding(u, q)' <=> Holding(u, q))
  BY <1>1, <1>2 DEF Acting, Holding, RunOf
<1>3. ASSUME NEW q \in Runs
      PROVE  /\ work'[q].status = work[q].status
             /\ work'[q].lapsed = work[q].lapsed
             /\ work[q].owner \notin ts => work'[q].owner = work[q].owner
  BY <1>3 DEF Orphaned, TypeOK, WorkRow
<1>4. \A u \in Threads, q \in Runs : Holding(u, q)' => Acting(u, q)'
  BY DEF Holding
<1>5. \A u \in Threads, q \in Runs : thread'[u].pc # "Idle" /\ thread'[u].run = q
          => key'[q] # None
  BY <1>1 DEF LeaseInv, RunOf
<1>6. OneWorkerPerRun' BY <1>2 DEF LeaseInv, OneWorkerPerRun
<1>7. QED BY <1>2, <1>3, <1>4, <1>5, <1>6 DEF LeaseInv, RunOf

LEMMA LeaseOtherStep ==
    ASSUME MaxOverruns = 0, TypeOK, LeaseInv, Next,
           ~ \E t \in Threads : ThreadStep(t)
    PROVE  LeaseInv'
<1> USE DEF At, database, environment
<1>1. ASSUME NEW w \in Workers, NEW r \in Runs, NEW k \in Keys,
             RequestShutdown(w, r, k)
      PROVE  LeaseInv'
  <2> DEFINE th == NewThread(r, "Announce")
  <2>1. w \in Threads /\ thread[w].pc = "Idle" /\ k # None /\ key[r] = None
    BY <1>1, NamesAssumption DEF Threads, RequestShutdown
  <2>2. th.pc = "Announce" /\ th.run = r BY DEF NewThread, IdleThread
  <2>3. /\ thread'[w] = th
        /\ \A u \in Threads : u # w => thread'[u] = thread[u]
        /\ batch' = batch
        /\ key' = [key EXCEPT ![r] = k]
        /\ work' = [work EXCEPT ![r].status = "PENDING"]
    BY <1>1, <2>1 DEF RequestShutdown, Become, TypeOK
  <2> HIDE DEF th
  <2>4. \A u \in Threads : ~Acting(u, r)
    BY <2>1 DEF LeaseInv, Acting
  <2>5. ASSUME NEW u \in Threads, NEW q \in Runs, Acting(u, q)'
        PROVE  q # r /\ Acting(u, q) /\ (Holding(u, q)' <=> Holding(u, q))
    BY <2>2, <2>3, <2>4, <2>5 DEF Acting, Holding, RunOf
  <2>6. \A q \in Runs : q # r => work'[q] = work[q]
    BY <2>3 DEF TypeOK
  <2>7. \A q \in Runs : key[q] # None => key'[q] # None
    BY <2>1, <2>3 DEF TypeOK
  <2>8. key'[r] # None BY <2>1, <2>3 DEF TypeOK
  <2>9. \A u \in Threads, q \in Runs : thread'[u].pc # "Idle" /\ thread'[u].run = q
            => key'[q] # None
    BY <2>2, <2>3, <2>7, <2>8 DEF LeaseInv, RunOf
  <2>10. \A q \in batch' : key'[q] # None
    BY <2>3, <2>7 DEF LeaseInv, TypeOK
  <2>11. \A u \in Threads, q \in Runs : Holding(u, q)' => Acting(u, q)'
    BY DEF Holding
  <2>12. OneWorkerPerRun' BY <2>5 DEF LeaseInv, OneWorkerPerRun
  <2>13. QED BY <2>5, <2>6, <2>9, <2>10, <2>11, <2>12 DEF LeaseInv, RunOf
<1>2. ASSUME NEW r \in Runs, RecoverExpired(r) PROVE LeaseInv'
  <2> DEFINE th == Expiring(NewThread(r, "Commit"))
  <2>1. th.run = r /\ th.pc = "Commit"
    BY DEF Expiring, Committing, NewThread, IdleThread
  <2>2. Become(Recovery, th) /\ key[r] # None
    BY <1>2 DEF RecoverExpired, RecoverRun, LeaseInv
  <2>3. Recovery \in Threads BY DEF Threads
  <2> HIDE DEF th
  <2>4. /\ key' = key /\ batch' \subseteq batch /\ Claimable(r)
        /\ work' = [work EXCEPT ![r] = Claimed(Recovery)]
        /\ thread[Recovery].pc \in Waiting
    BY <1>2 DEF RecoverExpired, RecoverRun, Waiting
  <2>5. th.pc \notin Waiting \cup {"CommitFailed", "RecordFailed"}
    BY <2>1 DEF Waiting
  <2>6. QED BY <2>1, <2>2, <2>3, <2>4, <2>5, LeaseClaimed
<1>3. ASSUME NEW r \in Runs, NEW w \in Workers, RecoverResumable(r, w)
      PROVE  LeaseInv'
  <2> DEFINE th == [NewThread(r, "Load") EXCEPT !.recovering = TRUE]
  <2>1. th.run = r /\ th.pc = "Load"
    BY DEF NewThread, IdleThread
  <2>2. Become(w, th) /\ key[r] # None
    BY <1>3 DEF RecoverResumable, RecoverRun, LeaseInv
  <2>3. w \in Threads BY DEF Threads
  <2> HIDE DEF th
  <2>4. /\ key' = key /\ batch' \subseteq batch /\ Claimable(r)
        /\ work' = [work EXCEPT ![r] = Claimed(w)]
        /\ thread[w].pc \in Waiting
    BY <1>3 DEF RecoverResumable, RecoverRun, Waiting
  <2>5. th.pc \notin Waiting \cup {"CommitFailed", "RecordFailed"}
    BY <2>1 DEF Waiting
  <2>6. QED BY <2>1, <2>2, <2>3, <2>4, <2>5, LeaseClaimed
<1>4. ASSUME StartRound \/ \E r \in Runs : RecoverBusy(r) \/ PassDeadline(r)
      PROVE  LeaseInv'
  <2>1. work' = work /\ key' = key /\ thread' = thread
    BY <1>4 DEF StartRound, RecoverBusy, RecoverRun, PassDeadline
  <2>2. \A r \in batch' : key[r] # None
    BY <1>4 DEF StartRound, Incomplete, RecoverBusy, RecoverRun, PassDeadline, LeaseInv
  <2>3. QED BY <2>1, <2>2
            DEF LeaseInv, OneWorkerPerRun, Acting, Holding, RunOf
<1>5. ASSUME NEW r \in Runs, LapseLease(r) PROVE LeaseInv'
  <2>1. work[r].owner = Dead
    BY <1>5, ConfigAssumption DEF LapseLease, TypeOK
  <2>2. \A t \in Threads : ~Holding(t, r)
    BY <2>1, NamesAssumption DEF LeaseInv
  <2>3. /\ key' = key /\ thread' = thread /\ batch' = batch
        /\ work' = [work EXCEPT ![r].lapsed = TRUE]
    BY <1>5 DEF LapseLease
  <2>4. work'[r].status = work[r].status /\ \A q \in Runs : q # r => work'[q] = work[q]
    <3>1. work[r] \in WorkRow /\ work \in [Runs -> WorkRow] BY DEF TypeOK
    <3>2. [work[r] EXCEPT !.lapsed = TRUE].status = work[r].status
      BY <3>1 DEF WorkRow
    <3>3. work' = [work EXCEPT ![r] = [work[r] EXCEPT !.lapsed = TRUE]]
      BY <2>3
    <3> HIDE DEF LapseLease
    <3>4. QED BY <3>1, <3>2, <3>3
  <2>5. QED BY <2>2, <2>3, <2>4
            DEF LeaseInv, OneWorkerPerRun, Acting, Holding, RunOf
<1>6. ASSUME NEW t \in Threads, thread[t].pc # "Idle", GoTo(t, "Fail"),
             thread[t].pc \notin Waiting \cup {"CommitFailed", "RecordFailed"},
             work' = work, key' = key, batch' = batch
      PROVE  LeaseInv'
  <2> DEFINE th == [thread[t] EXCEPT !.pc = "Fail"]
  <2>1. th.run = thread[t].run /\ th.pc = "Fail"
    BY <1>6, ThreadFacts DEF ThreadRecord
  <2>2. Become(t, th) BY <1>6 DEF GoTo, Become
  <2> HIDE DEF th
  <2>3. QED BY <1>6, <2>1, <2>2, LeaseKept
<1>7. ASSUME NEW t \in Threads, AdapterRaises(t) PROVE LeaseInv'
  BY <1>6, <1>7 DEF AdapterRaises, Waiting
<1>8. ASSUME NEW t \in Threads, Return(t), work' = Orphaned({t}), key' = key,
             batch' \subseteq batch
      PROVE  LeaseInv'
  <2>1. /\ \A u \in {t} : thread'[u] = IdleThread
        /\ \A u \in Threads \ {t} : thread'[u] = thread[u]
    BY <1>8 DEF Return, Become, TypeOK
  <2>2. QED BY <1>8, <2>1, LeaseOrphaned
<1>9. ASSUME NEW t \in Threads, StoreRaises(t) PROVE LeaseInv'
  BY <1>6, <1>8, <1>9 DEF StoreRaises, TryBlock, Waiting
<1>10. CASE CrashRestart
  BY <1>10, LeaseOrphaned DEF CrashRestart
<1>11. QED
  BY <1>1, <1>2, <1>3, <1>4, <1>5, <1>7, <1>9, <1>10 DEF Next, RecoveryStep

LEMMA LeaseInvariant ==
    ASSUME MaxOverruns = 0
    PROVE  Spec => []LeaseInv
<1>1. Init => LeaseInv
  BY DEF Init, LeaseInv, OneWorkerPerRun, Acting, Holding, RunOf, IdleThread
<1>2. TypeOK /\ LeaseInv /\ [Next]_vars => LeaseInv'
  <2>1. ASSUME TypeOK, LeaseInv, Next PROVE LeaseInv'
    BY <2>1, LeaseThreadStep, LeaseOtherStep
  <2>2. ASSUME LeaseInv, UNCHANGED vars PROVE LeaseInv'
    BY <2>2 DEF vars, LeaseInv, OneWorkerPerRun, Acting, Holding, RunOf
  <2>3. QED BY <2>1, <2>2
<1>3. QED BY <1>1, <1>2, TypeCorrect, PTL DEF Spec

\* OneWorkerPerRun: if no call outlasts the lease of the thread that makes it,
\* the lease in shutdown_work keeps one worker per run, whatever raises and
\* however often the process restarts.
THEOREM LeaseExcludes ==
    ASSUME MaxOverruns = 0
    PROVE  Spec => []OneWorkerPerRun
<1>1. LeaseInv => OneWorkerPerRun BY DEF LeaseInv
<1>2. QED BY <1>1, LeaseInvariant, PTL

=============================================================================
