------------------------- MODULE ContainmentProofs -------------------------
(***************************************************************************)
(* ContainedBeforeProbed for every instance of ShutdownOrchestrator: no    *)
(* interleaving of workers, recoveries, faults and restarts observes a     *)
(* boundary, or calls a run VERIFIED, before the adapter fenced, stopped   *)
(* and searched the workload.                                              *)
(*                                                                         *)
(* A state is stored, copied into a thread's locals and stored again       *)
(* without a look at the state it replaces. What makes that safe is that   *)
(* effects only grow: the operations behind a phase, once done, stay done, *)
(* however stale the local is that names the phase.                        *)
(***************************************************************************)
EXTENDS ShutdownProofs

\* The adapter operations that took effect before a run gets to state s.
Behind(s) ==
    CASE s = "FENCING"           -> {"fence"}
      [] s = "PROCESS_STOP_SENT" -> {"fence", "stop_process"}
      [] s \in {"CHILD_DISCOVERY", "PROBING", "VERIFIED"} -> Operations
      [] OTHER                   -> {}

Probing == {"Reload", "NextProbe", "SaveProbe", "RecordProbe"}

\* The locals of th claim no more than what was done to its run.
Contained(th, done) ==
    /\ Behind(th.state) \subseteq done
    /\ Behind(th.target) \subseteq done
    /\ th.pc \in Probing => Operations \subseteq done

RunsContained ==
    \A r \in Runs :
        /\ Behind(state[r]) \subseteq effects[r]
        /\ \A k \in Kinds : rows[r][k] # << >> => Operations \subseteq effects[r]

ThreadsContained ==
    \A t \in Threads :
        thread[t].pc # "Idle" => Contained(thread[t], effects[RunOf(t)])

ContainedInv == RunsContained /\ ThreadsContained

-----------------------------------------------------------------------------
(* The phases and what is behind them                                      *)

LEMMA NothingBehind ==
    \A s \in {"RUNNING", "REQUESTED", "FAILED", "PARTIAL", "UNKNOWN", None} :
        Behind(s) = {}
BY NamesAssumption DEF Behind, ShutdownStates, Phases, TerminalStates

LEMMA AllBehind ==
    \A s \in {"CHILD_DISCOVERY", "PROBING", "VERIFIED"} : Behind(s) = Operations
BY DEF Behind

\* A phase's operation is all that its successor asks for in addition.
LEMMA PhaseAdds ==
    \A s \in DOMAIN PhaseOperation :
        Behind(NextPhase[s]) \subseteq Behind(s) \cup {PhaseOperation[s]}
BY DEF PhaseOperation, NextPhase, Behind, Operations

-----------------------------------------------------------------------------
(* Threads that move                                                       *)

LEMMA CommittingContained ==
    ASSUME NEW th \in ThreadRecord, NEW done, Behind(th.state) \subseteq done,
           NEW target, Behind(target) \subseteq done, NEW event
    PROVE  /\ Contained(Committing(th, target, event), done)
           /\ Committing(th, target, event).run = th.run
<1> DEFINE to == Committing(th, target, event)
<1>1. /\ to.state = th.state /\ to.target = target
      /\ to.pc = "Commit" /\ to.run = th.run
  BY DEF Committing, ThreadRecord
<1> HIDE DEF to
<1>2. Contained(to, done) BY <1>1 DEF Contained, Probing
<1>3. QED BY <1>1, <1>2 DEF to

LEMMA ExpiringContained ==
    ASSUME NEW th \in ThreadRecord, NEW done, Behind(th.state) \subseteq done
    PROVE  Contained(Expiring(th), done) /\ Expiring(th).run = th.run
<1>1. Behind("UNKNOWN") \subseteq done BY NothingBehind
<1>2. QED BY <1>1, CommittingContained DEF Expiring

LEMMA DispatchContained ==
    ASSUME NEW th \in ThreadRecord, NEW s \in ShutdownStates, NEW done,
           Behind(s) \subseteq done, Behind(th.target) \subseteq done
    PROVE  Contained(Dispatch(th, s), done) /\ Dispatch(th, s).run = th.run
<1> DEFINE at == [th EXCEPT !.state = s]
<1>1. at \in ThreadRecord /\ at.state = s /\ at.run = th.run
      /\ at.target = th.target
  BY DEF ThreadRecord
<1>2. CASE s = "CHILD_DISCOVERY"
  <2>1. Dispatch(th, s) = Committing(at, "PROBING", PhaseEvent["PROBING"])
    BY <1>2, PhaseTables DEF Dispatch, TerminalStates, Advancing, NextPhase
  <2>2. Behind("PROBING") \subseteq done BY <1>2, AllBehind
  <2> HIDE DEF at
  <2>3. QED BY <1>1, <2>1, <2>2, CommittingContained
<1>3. CASE s # "CHILD_DISCOVERY"
  <2>1. PICK pc \in {"Renew", "NextProbe", "Finish", "Fail"} :
            /\ Dispatch(th, s) = [at EXCEPT !.pc = pc]
            /\ pc = "NextProbe" => s = "PROBING"
    BY <1>3 DEF Dispatch
  <2> HIDE DEF at
  <2>2. /\ Dispatch(th, s).pc = pc /\ Dispatch(th, s).state = s
        /\ Dispatch(th, s).target = th.target /\ Dispatch(th, s).run = th.run
    BY <1>1, <2>1 DEF ThreadRecord
  <2>3. pc \in Probing => Operations \subseteq done
    BY <2>1, AllBehind DEF Probing
  <2>4. QED BY <2>2, <2>3 DEF Contained
<1>4. QED BY <1>2, <1>3

-----------------------------------------------------------------------------
(* Steps that keep the invariant                                           *)

Growing == \A r \in Runs : effects[r] \subseteq effects'[r]

\* Where rows and states stay, more effects do no harm.
LEMMA RunsKept ==
    ASSUME RunsContained, Growing, rows' = rows, state' = state
    PROVE  RunsContained'
BY DEF RunsContained, Growing

LEMMA OthersKept ==
    ASSUME TypeOK, ThreadsContained, Growing, NEW u \in Threads,
           thread'[u] = thread[u]
    PROVE  thread'[u].pc # "Idle" => Contained(thread'[u], effects'[thread'[u].run])
<1> SUFFICES ASSUME thread[u].pc # "Idle"
             PROVE  Contained(thread[u], effects'[thread[u].run])
  OBVIOUS
<1>1. thread[u].run \in Runs BY ThreadFacts DEF RunOf
<1>2. Contained(thread[u], effects[thread[u].run])
  BY DEF ThreadsContained, RunOf
<1>3. effects[thread[u].run] \subseteq effects'[thread[u].run]
  BY <1>1 DEF Growing
<1>4. QED BY <1>2, <1>3 DEF Contained

LEMMA ContainedBecome ==
    ASSUME TypeOK, ThreadsContained, Growing, NEW t \in Threads, NEW th,
           Become(t, th),
           th.pc # "Idle" => Contained(th, effects'[th.run])
    PROVE  ThreadsContained'
<1>1. thread'[t] = th /\ \A u \in Threads \ {t} : thread'[u] = thread[u]
  BY DEF Become, TypeOK
<1>2. \A u \in Threads :
          thread'[u].pc # "Idle" => Contained(thread'[u], effects'[thread'[u].run])
  BY <1>1, OthersKept
<1>3. QED BY <1>2 DEF ThreadsContained, RunOf, Contained

\* Moving the program counter alone.
LEMMA ContainedGoTo ==
    ASSUME TypeOK, ThreadsContained, Growing, NEW t \in Threads,
           thread[t].pc # "Idle", NEW pc, GoTo(t, pc),
           pc \in Probing => Operations \subseteq effects[RunOf(t)]
    PROVE  ThreadsContained'
<1> DEFINE th == [thread[t] EXCEPT !.pc = pc]
<1>1. /\ th.pc = pc /\ th.run = RunOf(t)
      /\ th.state = thread[t].state /\ th.target = thread[t].target
  BY ThreadFacts DEF ThreadRecord, RunOf
<1>2. Become(t, th) BY DEF GoTo, Become
<1>3. Contained(thread[t], effects[RunOf(t)]) BY DEF ThreadsContained
<1>4. effects[RunOf(t)] \subseteq effects'[RunOf(t)] BY ThreadFacts DEF Growing
<1> HIDE DEF th
<1>5. Contained(th, effects'[th.run])
  BY <1>1, <1>3, <1>4 DEF Contained
<1>6. QED BY <1>2, <1>5, ContainedBecome

LEMMA ContainedReturn ==
    ASSUME TypeOK, ThreadsContained, Growing, NEW t \in Threads, Return(t)
    PROVE  ThreadsContained'
<1>1. IdleThread.pc = "Idle" BY DEF IdleThread
<1>2. QED BY <1>1, ContainedBecome DEF Return

-----------------------------------------------------------------------------
(* The threads' own steps                                                  *)

LEMMA ContainedInit == Init => ContainedInv
<1> SUFFICES ASSUME Init PROVE ContainedInv OBVIOUS
<1>1. RunsContained BY NothingBehind DEF Init, RunsContained
<1>2. ThreadsContained BY DEF Init, ThreadsContained, IdleThread
<1>3. QED BY <1>1, <1>2 DEF ContainedInv

\* The steps that leave rows, run states and the workload alone, and take no
\* locals over.
LEMMA ContainedQuietStep ==
    ASSUME TypeOK, ContainedInv, NEW t \in Threads,
           \/ AnnounceRequest(t) \/ ClaimWork(t) \/ RecordResume(t)
           \/ RenewLease(t) \/ RecordProbe(t) \/ FinishWork(t)
           \/ FailWork(t) \/ RecordFailed(t)
    PROVE  ContainedInv'
<1>1. rows' = rows /\ state' = state /\ effects' = effects
  BY DEF AnnounceRequest, ClaimWork, RecordResume, RenewLease, RecordProbe,
         FinishWork, FailWork, RecordFailed
<1>2. Growing BY <1>1 DEF Growing
<1>3. RunsContained' BY <1>1, <1>2, RunsKept DEF ContainedInv
<1>4. ThreadsContained'
  <2>1. CASE Return(t)
    BY <1>2, <2>1, ContainedReturn DEF ContainedInv
  <2>2. CASE /\ thread[t].pc # "Idle"
             /\ \E pc \in {"Claim", "Load", "Check", "Call", "CommitFailed"} :
                    GoTo(t, pc)
    BY <1>2, <2>2, ContainedGoTo DEF ContainedInv, Probing
  <2>3. CASE thread[t].pc = "RecordProbe" /\ GoTo(t, "NextProbe")
    <3>1. Operations \subseteq effects[RunOf(t)]
      BY <2>3 DEF ContainedInv, ThreadsContained, Contained, Probing
    <3>2. QED BY <1>2, <2>3, <3>1, ContainedGoTo DEF ContainedInv
  <2>4. QED BY <2>1, <2>2, <2>3
            DEF AnnounceRequest, ClaimWork, RecordResume, RenewLease, RecordProbe,
                FinishWork, FailWork, RecordFailed, At
<1>5. QED BY <1>3, <1>4 DEF ContainedInv

\* The steps that read the database or their locals and decide how to go on.
LEMMA ContainedReadingStep ==
    ASSUME TypeOK, ContainedInv, NEW t \in Threads,
           \/ LoadRun(t) \/ CheckDeadline(t) \/ RecordState(t)
           \/ ReloadProbes(t) \/ NextProbe(t) \/ ProbeBoundary(t)
    PROVE  ContainedInv'
<1> USE DEF At, database
<1> DEFINE th == thread[t]
           r == RunOf(t)
           done == effects[r]
<1>1. rows' = rows /\ state' = state /\ effects' = effects
  BY DEF LoadRun, CheckDeadline, RecordState, ReloadProbes, NextProbe,
         ProbeBoundary
<1>2. Growing BY <1>1 DEF Growing
<1>3. RunsContained' BY <1>1, <1>2, RunsKept DEF ContainedInv
<1>4. th.pc # "Idle"
  BY DEF LoadRun, CheckDeadline, RecordState, ReloadProbes, NextProbe,
         ProbeBoundary
<1>5. /\ th \in ThreadRecord /\ th \in ThreadType
      /\ th.run = r /\ r \in Runs
  BY <1>4, ThreadFacts DEF RunOf
<1>6. Contained(th, done)
  BY <1>4 DEF ContainedInv, ThreadsContained
<1>7. SUFFICES \E new : Become(t, new) /\ Contained(new, done) /\ new.run = r
  <2>1. ThreadsContained BY DEF ContainedInv
  <2>2. ASSUME NEW new, Become(t, new), Contained(new, done), new.run = r
        PROVE  ThreadsContained'
    <3>1. Contained(new, effects'[new.run]) BY <1>1, <2>2
    <3>2. QED BY <1>2, <2>1, <2>2, <3>1, ContainedBecome
  <2>3. QED BY <1>3, <2>2 DEF ContainedInv
<1> HIDE DEF th, done
<1>8. CASE LoadRun(t)
  <2> DEFINE new == [th EXCEPT
          !.pc = IF th.recovering THEN "Resume" ELSE "Check",
          !.state = state[r], !.found = SavedResults(r)]
  <2>1. /\ new.pc \in {"Resume", "Check"} /\ new.run = r
        /\ new.state = state[r] /\ new.target = th.target
    BY <1>5 DEF ThreadRecord
  <2>2. Become(t, new) BY <1>8 DEF LoadRun, th
  <2> HIDE DEF new
  <2>3. Behind(state[r]) \subseteq done
    BY <1>5 DEF ContainedInv, RunsContained, done
  <2>4. Contained(new, done) BY <1>6, <2>1, <2>3 DEF Contained, Probing
  <2>5. QED BY <2>1, <2>2, <2>4
<1>9. CASE CheckDeadline(t)
  <2>1. th.state \in ShutdownStates
    <3>1. th.pc = "Check" BY <1>9 DEF CheckDeadline, th
    <3>2. QED BY <1>5, <3>1 DEF ThreadType, ThreadRecord
  <2>2. PICK new : Become(t, new) /\ (new = Expiring(th) \/ new = Dispatch(th, th.state))
    BY <1>9 DEF CheckDeadline, th
  <2>3. Behind(th.state) \subseteq done /\ Behind(th.target) \subseteq done
    BY <1>6 DEF Contained
  <2>4. Contained(new, done) /\ new.run = th.run
    BY <1>5, <2>1, <2>2, <2>3, ExpiringContained, DispatchContained
  <2>5. QED BY <1>5, <2>2, <2>4
<1>10. CASE RecordState(t)
  <2> DEFINE cleared == [th EXCEPT !.target = None, !.event = None]
             reload == [cleared EXCEPT !.pc = "Reload", !.state = "PROBING"]
  <2>1. th.target \in ShutdownStates
    <3>1. th.pc = "Record" BY <1>10 DEF RecordState, th
    <3>2. QED BY <1>5, <3>1 DEF ThreadType, ThreadRecord
  <2>2. /\ cleared \in ThreadRecord /\ cleared.run = r /\ cleared.target = None
        /\ reload.run = r /\ reload.state = "PROBING" /\ reload.target = None
    BY <1>5 DEF ThreadRecord
  <2>3. Become(t, IF th.target = "PROBING" THEN reload
                  ELSE Dispatch(cleared, th.target))
    BY <1>10 DEF RecordState, th
  <2> HIDE DEF cleared, reload
  <2>4. Behind(th.target) \subseteq done /\ Behind(None) \subseteq done
    BY <1>6, NothingBehind DEF Contained
  <2>5. CASE th.target = "PROBING"
    <3>1. Operations \subseteq done BY <2>4, <2>5, AllBehind
    <3>2. Contained(reload, done)
      BY <2>2, <2>4, <2>5, <3>1 DEF Contained
    <3>3. QED BY <2>2, <2>3, <2>5, <3>2
  <2>6. CASE th.target # "PROBING"
    <3>1. /\ Contained(Dispatch(cleared, th.target), done)
          /\ Dispatch(cleared, th.target).run = r
      BY <2>1, <2>2, <2>4, DispatchContained
    <3>2. QED BY <2>3, <2>6, <3>1
  <2>7. QED BY <2>5, <2>6
<1>11. CASE ReloadProbes(t)
  <2> DEFINE new == [th EXCEPT !.pc = "NextProbe", !.found = SavedResults(r)]
  <2>1. th.pc = "Reload" /\ Become(t, new) BY <1>11 DEF ReloadProbes, th
  <2>2. new.run = r /\ new.state = th.state /\ new.target = th.target
    BY <1>5 DEF ThreadRecord
  <2> HIDE DEF new
  <2>3. Contained(new, done) BY <1>6, <2>1, <2>2 DEF Contained, Probing
  <2>4. QED BY <2>1, <2>2, <2>3
<1>12. CASE NextProbe(t)
  <2>1. th.pc = "NextProbe" BY <1>12 DEF NextProbe, th
  <2>2. Behind(th.state) \subseteq done /\ Operations \subseteq done
    BY <1>6, <2>1 DEF Contained, Probing
  <2> DEFINE renewing == [th EXCEPT !.pc = "Renew"]
             closing == Committing(th, Verdict(t), "shutdown.completed")
  <2>3. PICK new \in {Expiring(th), renewing, closing} : Become(t, new)
    BY <1>12 DEF NextProbe, th
  <2>4. CASE new = Expiring(th)
    BY <1>5, <2>2, <2>3, <2>4, ExpiringContained
  <2>5. CASE new = renewing
    <3>1. /\ renewing.pc = "Renew" /\ renewing.run = r
          /\ renewing.state = th.state /\ renewing.target = th.target
      BY <1>5 DEF ThreadRecord
    <3> HIDE DEF renewing
    <3>2. Contained(renewing, done) BY <1>6, <3>1 DEF Contained, Probing
    <3>3. QED BY <2>3, <2>5, <3>1, <3>2
  <2>6. CASE new = closing
    <3>1. Behind(Verdict(t)) \subseteq done
      <4>1. \A s : Behind(s) \subseteq Operations BY DEF Behind, Operations
      <4>2. QED BY <2>2, <4>1
    <3>2. QED BY <1>5, <2>2, <2>3, <2>6, <3>1, CommittingContained
  <2>7. QED BY <2>3, <2>4, <2>5, <2>6
<1>13. CASE ProbeBoundary(t)
  <2>1. th.state = "PROBING" BY <1>13 DEF ProbeBoundary, th
  <2>2. PICK k \in Kinds, result \in ProbeResults :
            Become(t, [th EXCEPT !.pc = "SaveProbe", !.kind = k, !.found[k] = result])
    BY <1>13 DEF ProbeBoundary, th
  <2> DEFINE new == [th EXCEPT !.pc = "SaveProbe", !.kind = k, !.found[k] = result]
  <2>3. new.run = r /\ new.state = th.state /\ new.target = th.target
    BY <1>5 DEF ThreadRecord
  <2> HIDE DEF new
  <2>4. Operations \subseteq done BY <1>6, <2>1, AllBehind DEF Contained
  <2>5. Contained(new, done) BY <1>6, <2>3, <2>4 DEF Contained
  <2>6. QED BY <2>2, <2>3, <2>5 DEF new
<1>14. QED BY <1>8, <1>9, <1>10, <1>11, <1>12, <1>13

\* The steps that change the workload, the run's state or its probe rows.
LEMMA ContainedWritingStep ==
    ASSUME TypeOK, ContainedInv, NEW t \in Threads,
           \/ CallAdapter(t) \/ CommitState(t) \/ SaveProbe(t)
           \/ CommitFailed(t)
    PROVE  ContainedInv'
<1> USE DEF At, database
<1> DEFINE th == thread[t]
           r == RunOf(t)
           done == effects[r]
<1>1. th.pc # "Idle"
  BY DEF CallAdapter, InPhaseCall, CommitState, SaveProbe, CommitFailed
<1>2. th \in ThreadRecord /\ th.run = r /\ r \in Runs
  BY <1>1, ThreadFacts DEF RunOf
<1>3. Contained(th, done) BY <1>1 DEF ContainedInv, ThreadsContained
<1>4. RunsContained /\ ThreadsContained BY DEF ContainedInv
<1> HIDE DEF th, done
<1>5. CASE CallAdapter(t)
  <2> DEFINE op == PhaseOperation[th.state]
             new == Advancing(th, th.state)
  <2>1. /\ th.state \in DOMAIN PhaseOperation
        /\ effects' = [effects EXCEPT ![r] = @ \cup {op}]
        /\ Become(t, new) /\ rows' = rows /\ state' = state
    BY <1>5 DEF CallAdapter, InPhaseCall, th
  <2>2. Growing /\ effects'[r] = done \cup {op}
    BY <1>2, <2>1 DEF Growing, TypeOK, done
  <2>3. Behind(NextPhase[th.state]) \subseteq done \cup {op}
    BY <1>3, <2>1, PhaseAdds DEF Contained
  <2>4. Behind(th.state) \subseteq done \cup {op} BY <1>3 DEF Contained
  <2>5. Contained(new, effects'[r]) /\ new.run = r
    <3> DEFINE now == effects'[r]
    <3>1. Behind(th.state) \subseteq now /\ Behind(NextPhase[th.state]) \subseteq now
      BY <2>2, <2>3, <2>4
    <3> HIDE DEF now
    <3>2. Contained(new, now) /\ new.run = r
      BY <1>2, <3>1, CommittingContained DEF Advancing
    <3>3. QED BY <3>2 DEF now
  <2>6. ThreadsContained' BY <1>4, <2>1, <2>2, <2>5, ContainedBecome
  <2>7. RunsContained' BY <1>4, <2>1, <2>2, RunsKept
  <2>8. QED BY <2>6, <2>7 DEF ContainedInv
<1>6. ASSUME NEW s, NEW pc, Behind(s) \subseteq done, pc \notin Probing,
             state' = [state EXCEPT ![r] = s], GoTo(t, pc),
             rows' = rows, effects' = effects
      PROVE  ContainedInv'
  <2>1. Growing BY <1>6 DEF Growing
  <2>2. RunsContained'
    BY <1>2, <1>4, <1>6 DEF RunsContained, TypeOK, done
  <2>3. ThreadsContained'
    BY <1>1, <1>4, <1>6, <2>1, ContainedGoTo DEF th
  <2>4. QED BY <2>2, <2>3 DEF ContainedInv
<1>7. CASE CommitState(t)
  <2>1. /\ state' = [state EXCEPT ![r] = th.target] /\ GoTo(t, "Record")
        /\ rows' = rows /\ effects' = effects
    BY <1>7 DEF CommitState, th
  <2>2. Behind(th.target) \subseteq done BY <1>3 DEF Contained
  <2>3. "Record" \notin Probing BY DEF Probing
  <2>4. QED BY <1>6, <2>1, <2>2, <2>3
<1>8. CASE CommitFailed(t)
  <2>1. /\ state' = [state EXCEPT ![r] = "FAILED"] /\ GoTo(t, "RecordFailed")
        /\ rows' = rows /\ effects' = effects
    BY <1>8 DEF CommitFailed
  <2>2. Behind("FAILED") \subseteq done BY NothingBehind
  <2>3. "RecordFailed" \notin Probing BY DEF Probing
  <2>4. QED BY <1>6, <2>1, <2>2, <2>3
<1>9. CASE SaveProbe(t)
  <2> DEFINE new == [th EXCEPT !.pc = "RecordProbe", !.kind = None]
  <2>1. Operations \subseteq done
    <3>1. th.pc = "SaveProbe" BY <1>9 DEF SaveProbe, th
    <3>2. QED BY <1>3, <3>1 DEF Contained, Probing
  <2>2. /\ Become(t, new) /\ state' = state /\ effects' = effects
        /\ \A q \in Runs, k \in Kinds : q # r => rows'[q][k] = rows[q][k]
    BY <1>9 DEF SaveProbe, th, TypeOK
  <2>3. new.run = r /\ new.state = th.state /\ new.target = th.target
    BY <1>2 DEF ThreadRecord
  <2> HIDE DEF new
  <2>4. Contained(new, done) BY <1>3, <2>1, <2>3 DEF Contained
  <2>5. Contained(new, effects'[new.run]) BY <2>2, <2>3, <2>4 DEF done
  <2>6. Growing BY <2>2 DEF Growing
  <2>7. ThreadsContained' BY <1>4, <2>2, <2>5, <2>6, ContainedBecome
  <2>8. RunsContained'
    BY <1>4, <2>1, <2>2 DEF RunsContained, done
  <2>9. QED BY <2>7, <2>8 DEF ContainedInv
<1>10. QED BY <1>5, <1>7, <1>8, <1>9

LEMMA ContainedThreadStep ==
    ASSUME TypeOK, ContainedInv, NEW t \in Threads, ThreadStep(t)
    PROVE  ContainedInv'
BY ContainedQuietStep, ContainedReadingStep, ContainedWritingStep DEF ThreadStep

-----------------------------------------------------------------------------
(* Requests, recovery, time, faults and restarts                           *)

LEMMA ContainedOtherStep ==
    ASSUME TypeOK, ContainedInv, Next, ~ \E t \in Threads : ThreadStep(t)
    PROVE  ContainedInv'
<1> USE DEF At, database, environment
<1>1. RunsContained /\ ThreadsContained BY DEF ContainedInv
<1>2. ASSUME NEW t \in Threads, NEW r \in Runs, NEW th \in ThreadRecord,
             th.run = r, th.state = None, Behind(th.target) = {},
             th.pc \notin Probing, Become(t, th), effects' = effects,
             rows' = rows,
             state' = state \/ state' = [state EXCEPT ![r] = "REQUESTED"]
      PROVE  ContainedInv'
  <2>1. Growing BY <1>2 DEF Growing
  <2>2. Contained(th, effects'[th.run]) BY <1>2, NothingBehind DEF Contained
  <2>3. ThreadsContained' BY <1>1, <1>2, <2>1, <2>2, ContainedBecome
  <2>4. RunsContained'
    BY <1>1, <1>2, NothingBehind DEF RunsContained, TypeOK
  <2>5. QED BY <2>3, <2>4 DEF ContainedInv
<1>3. ASSUME NEW w \in Workers, NEW r \in Runs, NEW k \in Keys,
             RequestShutdown(w, r, k)
      PROVE  ContainedInv'
  <2> DEFINE th == NewThread(r, "Announce")
  <2>1. /\ th \in ThreadRecord /\ th.run = r /\ th.state = None
        /\ th.target = None /\ th.pc \notin Probing
    BY NewThreadType DEF NewThread, IdleThread, PCs, Probing
  <2>2. /\ Become(w, th) /\ effects' = effects /\ rows' = rows
        /\ state' = [state EXCEPT ![r] = "REQUESTED"] /\ w \in Threads
    BY <1>3 DEF RequestShutdown, Threads
  <2> HIDE DEF th
  <2>3. Behind(th.target) = {} BY <2>1, NothingBehind
  <2>4. QED BY <1>2, <2>1, <2>2, <2>3
<1>4. ASSUME NEW r \in Runs, RecoverExpired(r) PROVE ContainedInv'
  <2> DEFINE th == Expiring(NewThread(r, "Commit"))
  <2>1. NewThread(r, "Commit") \in ThreadRecord
        /\ NewThread(r, "Commit").run # None
    BY NewThreadType, NamesAssumption DEF PCs
  <2>2. th \in ThreadRecord BY <2>1, ExpiringType DEF ThreadType
  <2>3. /\ th.run = r /\ th.state = None /\ th.target = "UNKNOWN"
        /\ th.pc \notin Probing
    BY DEF Expiring, Committing, NewThread, IdleThread, Probing
  <2>4. /\ Become(Recovery, th) /\ effects' = effects /\ rows' = rows
        /\ state' = state /\ Recovery \in Threads
    BY <1>4 DEF RecoverExpired, Threads
  <2> HIDE DEF th
  <2>5. Behind(th.target) = {} BY <2>3, NothingBehind
  <2>6. QED BY <1>2, <2>2, <2>3, <2>4, <2>5
<1>5. ASSUME NEW r \in Runs, NEW w \in Workers, RecoverResumable(r, w)
      PROVE  ContainedInv'
  <2> DEFINE new == NewThread(r, "Load")
             th == [new EXCEPT !.recovering = TRUE]
  <2>0. /\ new \in ThreadRecord /\ new.run = r /\ new.state = None
        /\ new.target = None /\ new.pc \notin Probing
    <3>1. "Load" \in PCs BY DEF PCs
    <3>2. new \in ThreadRecord BY <3>1, NewThreadType
    <3>3. QED BY <3>2 DEF NewThread, IdleThread, Probing
  <2> HIDE DEF new
  <2>1. /\ th \in ThreadRecord /\ th.run = r /\ th.state = None
        /\ th.target = None /\ th.pc \notin Probing
    BY <2>0 DEF ThreadRecord
  <2>2. /\ Become(w, th) /\ effects' = effects /\ rows' = rows
        /\ state' = state /\ w \in Threads
    BY <1>5 DEF RecoverResumable, Threads, new
  <2> HIDE DEF th
  <2>3. Behind(th.target) = {} BY <2>1, NothingBehind
  <2>4. QED BY <1>2, <2>1, <2>2, <2>3
<1>6. ASSUME effects' = effects, rows' = rows, state' = state, thread' = thread
      PROVE  ContainedInv'
  BY <1>6 DEF ContainedInv, RunsContained, ThreadsContained, RunOf
<1>7. ASSUME NEW r \in Runs, StartRound \/ RecoverBusy(r) \/ PassDeadline(r)
                               \/ LapseLease(r)
      PROVE  ContainedInv'
  BY <1>6, <1>7 DEF StartRound, RecoverBusy, PassDeadline, LapseLease
<1>8. ASSUME NEW t \in Threads, AdapterRaises(t) PROVE ContainedInv'
  <2>1. /\ thread[t].pc # "Idle" /\ GoTo(t, "Fail")
        /\ rows' = rows /\ state' = state
    BY <1>8 DEF AdapterRaises
  <2>2. Growing BY <1>8 DEF AdapterRaises, Growing, TypeOK
  <2>3. "Fail" \notin Probing BY DEF Probing
  <2>4. ThreadsContained' BY <1>1, <2>1, <2>2, <2>3, ContainedGoTo
  <2>5. RunsContained' BY <1>1, <2>1, <2>2, RunsKept
  <2>6. QED BY <2>4, <2>5 DEF ContainedInv
<1>9. ASSUME NEW t \in Threads, StoreRaises(t) PROVE ContainedInv'
  <2>1. effects' = effects /\ rows' = rows /\ state' = state
    BY <1>9 DEF StoreRaises
  <2>2. Growing BY <2>1 DEF Growing
  <2>3. RunsContained' BY <1>1, <2>1, <2>2, RunsKept
  <2>4. CASE Return(t)
    <3>1. ThreadsContained' BY <1>1, <2>2, <2>4, ContainedReturn
    <3>2. QED BY <2>3, <3>1 DEF ContainedInv
  <2>5. CASE thread[t].pc # "Idle" /\ GoTo(t, "Fail")
    <3>1. "Fail" \notin Probing BY DEF Probing
    <3>2. ThreadsContained' BY <1>1, <2>2, <2>5, <3>1, ContainedGoTo
    <3>3. QED BY <2>3, <3>2 DEF ContainedInv
  <2>6. QED BY <1>9, <2>4, <2>5 DEF StoreRaises, TryBlock
<1>10. CASE CrashRestart
  <2>1. /\ effects' = effects /\ rows' = rows /\ state' = state
        /\ \A u \in Threads : thread'[u].pc = "Idle"
    BY <1>10 DEF CrashRestart, IdleThread
  <2>2. QED BY <1>1, <2>1 DEF ContainedInv, RunsContained, ThreadsContained
<1>11. CASE StartRound
  BY <1>6, <1>11 DEF StartRound
<1>12. QED
  BY <1>3, <1>4, <1>5, <1>7, <1>8, <1>9, <1>10, <1>11 DEF Next, RecoveryStep

-----------------------------------------------------------------------------
(* The theorem                                                             *)

\* ContainedBeforeProbed holds whoever resumes a shutdown, at whatever phase
\* it read: _orchestrate's phases are stored only after their operation.
THEOREM ContainmentFirst == Spec => []ContainedBeforeProbed
<1>1. TypeOK /\ ContainedInv /\ [Next]_vars => ContainedInv'
  <2>1. ASSUME TypeOK, ContainedInv, Next PROVE ContainedInv'
    BY <2>1, ContainedThreadStep, ContainedOtherStep
  <2>2. ASSUME ContainedInv, UNCHANGED vars PROVE ContainedInv'
    BY <2>2 DEF vars, ContainedInv, RunsContained, ThreadsContained, RunOf
  <2>3. QED BY <2>1, <2>2
<1>2. TypeOK /\ ContainedInv => ContainedBeforeProbed
  <2> SUFFICES ASSUME TypeOK, ContainedInv, NEW r \in Runs,
                      \/ state[r] = "VERIFIED"
                      \/ \E k \in Kinds : rows[r][k] # << >>
               PROVE  effects[r] = Operations
    BY DEF ContainedBeforeProbed
  <2>1. Operations \subseteq effects[r]
    BY AllBehind DEF ContainedInv, RunsContained
  <2>2. effects[r] \subseteq Operations BY DEF TypeOK
  <2>3. QED BY <2>1, <2>2
<1>3. QED BY <1>1, <1>2, TypeCorrect, ContainedInit, PTL DEF Spec

=============================================================================
