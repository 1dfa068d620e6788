-------------------------- MODULE LifecycleProofs --------------------------
(***************************************************************************)
(* What the threads know of their runs, as long as no lease expires under  *)
(* a live thread. The lease leaves one thread per run that writes its      *)
(* state and its probe rows (LeaseInv of ShutdownProofs), so what that     *)
(* thread has read is still so when it writes (StepInv), whatever raises.  *)
(*                                                                         *)
(* If no transaction raises either, ShutdownOrchestrator implements        *)
(* ShutdownLifecycle, adapter faults, recoveries and any number of         *)
(* restarts included. What is left to show for that is that nobody begins  *)
(* with a run that is over: whoever may still claim it finds its work      *)
(* complete, or leased to a thread that lives (LifeInv).                   *)
(***************************************************************************)
EXTENDS ShutdownProofs

\* A commit that the abstract lifecycle allows in state s, with the results
\* saved, by name: Advance, GiveUp, Conclude.
LawfulMove(s, saved, target) ==
    \/ s \in DOMAIN NextPhase /\ target = NextPhase[s]
    \/ s \in Phases /\ target = "UNKNOWN"
    \/ /\ s = "PROBING"
       /\ \A k \in Kinds : saved[k] # None
       /\ target = AggregateProbeResults({saved[k] : k \in Kinds})

\* The rank of the event that reports state s.
StateRank(s) ==
    CASE s = "FENCING"           -> 1
      [] s = "PROCESS_STOP_SENT" -> 2
      [] s = "CHILD_DISCOVERY"   -> 3
      [] s = "PROBING"           -> 4
      [] s \in TerminalStates    -> 5
      [] OTHER                   -> 0

\* Where the thread's own state is that of its run, and its results are the
\* stored ones.
Following == {"Resume", "Check", "Renew", "Call", "NextProbe", "RecordProbe"}

\* The locals of th describe a run in state s with the results saved.
InStep(th, s, saved) ==
    /\ th.pc \in Following => th.state = s
    /\ th.pc \in Following /\ s = "PROBING" => th.found = saved
    /\ th.pc \in {"NextProbe", "RecordProbe"} => s = "PROBING"
    /\ th.pc \in {"Reload", "SaveProbe"} => s = "PROBING" /\ th.state = s
    /\ th.pc = "SaveProbe" =>
          /\ saved[th.kind] = None
          /\ \A k \in Kinds \ {th.kind} : th.found[k] = saved[k]
    /\ th.pc = "Commit" =>
          th.target = "UNKNOWN" \/ LawfulMove(s, saved, th.target)
    /\ th.pc = "Record" => th.target = s
    /\ th.pc \in {"Commit", "Record"} => EventRank(th.event) = StateRank(th.target)
    /\ th.pc = "RecordFailed" => s \in TerminalStates

ThreadsInStep ==
    \A t \in Threads : thread[t].pc # "Idle" =>
        InStep(thread[t], state[RunOf(t)], observed[RunOf(t)])

RequestedRuns == \A r \in Runs : state[r] = "RUNNING" <=> key[r] = None

StepInv == ThreadsInStep /\ RequestedRuns

\* Where the run of a thread is not over yet, if no transaction raises.
Active == {"Load", "Resume", "Check", "Renew", "Call", "Commit", "Reload",
           "NextProbe", "SaveProbe", "RecordProbe", "Fail", "CommitFailed"}

ThreadsOpen ==
    \A t \in Threads : thread[t].pc \in Active => state[RunOf(t)] \in Phases

\* Nobody can claim the work of r.
Settled(r) == \/ work[r].status = "COMPLETE"
              \/ work[r].owner \in Threads /\ ~work[r].lapsed

\* Those who may still claim the work of a run.
Claimants(r) == {t \in Threads : thread[t].pc \in {"Announce", "Claim"} /\ RunOf(t) = r}

OverMeansSettled ==
    \A r \in Runs :
        state[r] \in TerminalStates /\ (r \in batch \/ Claimants(r) # {}) => Settled(r)

LifeInv == ThreadsOpen /\ OverMeansSettled

-----------------------------------------------------------------------------
(* Ranks                                                                   *)

LEMMA RankTypes ==
    (\A e : EventRank(e) \in 0 .. 5) /\ (\A s : StateRank(s) \in 0 .. 5)
BY DEF EventRank, StateRank

LEMMA EventRanks ==
    /\ EventRank("shutdown.completed") = 5
    /\ EventRank("shutdown.recovery.deadline.exceeded") = 5
    /\ EventRank("shutdown.requested") = 0
    /\ EventRank("shutdown.recovery.resumed") = 0
    /\ EventRank("shutdown.probe.result") = 0
BY DEF EventRank

LEMMA StateRanks ==
    /\ \A s \in TerminalStates : StateRank(s) = 5
    /\ \A s \in Phases : StateRank(s) < 5
BY DEF StateRank, TerminalStates, Phases

LEMMA PhaseRanks ==
    \A s \in DOMAIN NextPhase :
        /\ EventRank(PhaseEvent[NextPhase[s]]) = StateRank(NextPhase[s])
        /\ StateRank(s) < StateRank(NextPhase[s])
BY DEF NextPhase, PhaseEvent, EventRank, StateRank, TerminalStates

-----------------------------------------------------------------------------
(* States and results                                                      *)

LEMMA StateFacts ==
    /\ ShutdownStates = {"RUNNING"} \cup Phases \cup TerminalStates
    /\ "RUNNING" \notin Phases \cup TerminalStates
    /\ Phases \cap TerminalStates = {}
    /\ \A s \in DOMAIN NextPhase : s \in Phases /\ NextPhase[s] \in Phases
    /\ DOMAIN PhaseOperation \subseteq Phases
BY DEF ShutdownStates, Phases, TerminalStates, NextPhase, PhaseOperation

LEMMA MoveTarget ==
    ASSUME NEW s, NEW saved, NEW target, LawfulMove(s, saved, target)
    PROVE  s \in Phases /\ target \in Phases \cup TerminalStates
<1>1. "PROBING" \in Phases /\ "UNKNOWN" \in TerminalStates
  BY DEF Phases, TerminalStates
<1>2. QED BY <1>1, StateFacts, VerdictType DEF LawfulMove

LEMMA SameRowsSameResults ==
    ASSUME rows' = rows
    PROVE  observed' = observed
BY DEF observed, SavedResults

LEMMA ResultOf ==
    \A r \in Runs : observed[r] = SavedResults(r)
BY DEF observed

\* A kind without a saved result has no row.
LEMMA NoResultNoRow ==
    ASSUME TypeOK, NEW r \in Runs, NEW k \in Kinds, observed[r][k] = None
    PROVE  rows[r][k] = << >>
<1>1. rows[r][k] \in Seq(ProbeResults) BY DEF TypeOK
<1>2. rows[r][k] # << >> => rows[r][k][Len(rows[r][k])] \in ProbeResults
  BY <1>1, EmptySeq, ElementOfSeq
<1>3. QED BY <1>2, NamesAssumption DEF observed, SavedResults

\* A function that differs from another in one place is an update of it.
LEMMA OneUpdate ==
    ASSUME NEW f, NEW g, NEW r \in Runs, NEW k, NEW result,
           f = [q \in Runs |-> f[q]], g = [q \in Runs |-> g[q]],
           \A q \in Runs \ {r} : g[q] = f[q],
           g[r] = [f[r] EXCEPT ![k] = result]
    PROVE  g = [f EXCEPT ![r][k] = result]
OBVIOUS

\* The row a thread stores is the result of its kind from then on.
LEMMA RowIsResult ==
    ASSUME TypeOK, NEW r \in Runs, NEW k \in Kinds, NEW result \in ProbeResults,
           rows'[r][k] = Append(rows[r][k], result),
           \A j \in Kinds \ {k} : rows'[r][j] = rows[r][j],
           \A q \in Runs \ {r} : rows'[q] = rows[q]
    PROVE  observed' = [observed EXCEPT ![r][k] = result]
<1>1. rows[r][k] \in Seq(ProbeResults) BY DEF TypeOK
<1> DEFINE more == Append(rows[r][k], result)
<1>2. more # << >> /\ more[Len(more)] = result
  BY <1>1, AppendProperties
<1>3. /\ rows'[r][k] = more
      /\ \A j \in Kinds \ {k} : rows'[r][j] = rows[r][j]
      /\ \A q \in Runs \ {r} : rows'[q] = rows[q]
  OBVIOUS
<1> HIDE DEF more
<1>4. \A q \in Runs \ {r} : observed'[q] = observed[q]
  BY <1>3 DEF observed, SavedResults
<1>5. observed'[r] = [observed[r] EXCEPT ![k] = result]
  <2>1. /\ observed'[r] = [j \in Kinds |-> observed'[r][j]]
        /\ observed[r] = [j \in Kinds |-> observed[r][j]]
    BY DEF observed, SavedResults
  <2>2. observed'[r][k] = result
    BY <1>2, <1>3 DEF observed, SavedResults
  <2>3. \A j \in Kinds \ {k} : observed'[r][j] = observed[r][j]
    BY <1>3 DEF observed, SavedResults
  <2>4. QED BY <2>1, <2>2, <2>3
<1>6. /\ observed = [q \in Runs |-> observed[q]]
      /\ observed' = [q \in Runs |-> observed'[q]]
  BY DEF observed
<1>7. QED BY <1>4, <1>5, <1>6, OneUpdate

-----------------------------------------------------------------------------
(* Threads in step                                                         *)

LEMMA IdlersInStep ==
    ASSUME NEW th, NEW s, NEW saved,
           th.pc \in {"Announce", "Claim", "Load", "Finish", "Fail", "CommitFailed"}
    PROVE  InStep(th, s, saved)
BY DEF InStep, Following

LEMMA CommittingInStep ==
    ASSUME NEW th \in ThreadRecord, NEW s, NEW saved, NEW target, NEW event,
           target = "UNKNOWN" \/ LawfulMove(s, saved, target),
           EventRank(event) = StateRank(target)
    PROVE  /\ InStep(Committing(th, target, event), s, saved)
           /\ Committing(th, target, event).run = th.run
<1> DEFINE to == Committing(th, target, event)
<1>1. /\ to.target = target /\ to.event = event
      /\ to.pc = "Commit" /\ to.run = th.run
  BY DEF Committing, ThreadRecord
<1> HIDE DEF to
<1>2. InStep(to, s, saved) BY <1>1 DEF InStep, Following
<1>3. QED BY <1>1, <1>2 DEF to

LEMMA ExpiringInStep ==
    ASSUME NEW th \in ThreadRecord, NEW s, NEW saved
    PROVE  InStep(Expiring(th), s, saved) /\ Expiring(th).run = th.run
<1>1. EventRank("shutdown.recovery.deadline.exceeded") = StateRank("UNKNOWN")
  BY EventRanks, StateRanks DEF TerminalStates
<1>2. QED BY <1>1, CommittingInStep DEF Expiring

LEMMA DispatchInStep ==
    ASSUME NEW th \in ThreadRecord, NEW s \in Phases \cup TerminalStates,
           NEW saved, s = "PROBING" => th.found = saved
    PROVE  InStep(Dispatch(th, s), s, saved) /\ Dispatch(th, s).run = th.run
<1> DEFINE at == [th EXCEPT !.state = s]
<1>1. /\ at \in ThreadRecord /\ at.state = s /\ at.run = th.run
      /\ at.found = th.found
  BY StateFacts DEF ThreadRecord
<1>2. CASE s = "CHILD_DISCOVERY"
  <2>1. Dispatch(th, s) = Committing(at, "PROBING", PhaseEvent["PROBING"])
    BY <1>2, PhaseTables DEF Dispatch, TerminalStates, Advancing, NextPhase
  <2>2. /\ LawfulMove(s, saved, "PROBING")
        /\ EventRank(PhaseEvent["PROBING"]) = StateRank("PROBING")
    BY <1>2, PhaseRanks DEF LawfulMove, NextPhase
  <2> HIDE DEF at
  <2>3. QED BY <1>1, <2>1, <2>2, CommittingInStep
<1>3. CASE s # "CHILD_DISCOVERY"
  <2>1. PICK pc \in {"Renew", "NextProbe", "Finish"} :
            /\ Dispatch(th, s) = [at EXCEPT !.pc = pc]
            /\ pc = "NextProbe" => s = "PROBING"
    BY <1>3, PhaseTables DEF Dispatch, Phases, TerminalStates
  <2> HIDE DEF at
  <2>2. /\ Dispatch(th, s).pc = pc /\ Dispatch(th, s).state = s
        /\ Dispatch(th, s).found = th.found /\ Dispatch(th, s).run = th.run
    BY <1>1, <2>1 DEF ThreadRecord
  <2>3. InStep(Dispatch(th, s), s, saved)
    BY <2>1, <2>2 DEF InStep, Following
  <2>4. QED BY <2>2, <2>3
<1>4. QED BY <1>2, <1>3

\* Beside a thread that acts on a run, others at most wait to claim it.
LEMMA Alone ==
    ASSUME LeaseInv, NEW t \in Threads, NEW r \in Runs, Acting(t, r)
    PROVE  \A u \in Threads \ {t} : RunOf(u) = r => thread[u].pc \in Waiting
BY DEF LeaseInv, OneWorkerPerRun, Acting, Waiting

\* A step of t that changes nothing another thread has read.
LEMMA InStepBecome ==
    ASSUME TypeOK, ThreadsInStep, NEW t \in Threads, NEW th, Become(t, th),
           th.pc # "Idle" => InStep(th, state'[th.run], observed'[th.run]),
           \A u \in Threads \ {t} :
               \/ thread[u].pc \in Waiting
               \/ /\ state'[RunOf(u)] = state[RunOf(u)]
                  /\ observed'[RunOf(u)] = observed[RunOf(u)]
    PROVE  ThreadsInStep'
<1>1. thread'[t] = th /\ \A u \in Threads \ {t} : thread'[u] = thread[u]
  BY DEF Become, TypeOK
<1>2. ASSUME NEW u \in Threads, thread'[u].pc # "Idle"
      PROVE  InStep(thread'[u], state'[thread'[u].run], observed'[thread'[u].run])
  <2>1. CASE u = t BY <1>1, <1>2, <2>1
  <2>2. CASE u # t /\ thread[u].pc \in Waiting
    BY <1>1, <1>2, <2>2, IdlersInStep DEF Waiting
  <2>3. CASE u # t /\ thread[u].pc \notin Waiting
    BY <1>1, <1>2, <2>3 DEF ThreadsInStep, RunOf, Waiting
  <2>4. QED BY <2>1, <2>2, <2>3
<1>3. QED BY <1>2 DEF ThreadsInStep, RunOf

LEMMA InStepReading ==
    ASSUME TypeOK, ThreadsInStep, NEW t \in Threads, NEW th, Become(t, th),
           th.pc # "Idle" => InStep(th, state[th.run], observed[th.run]),
           state' = state, rows' = rows
    PROVE  ThreadsInStep'
<1>1. observed' = observed BY SameRowsSameResults
<1>2. th.pc # "Idle" => InStep(th, state'[th.run], observed'[th.run])
  BY <1>1
<1>3. \A u \in Threads \ {t} :
          \/ thread[u].pc \in Waiting
          \/ /\ state'[RunOf(u)] = state[RunOf(u)]
             /\ observed'[RunOf(u)] = observed[RunOf(u)]
  BY <1>1
<1>4. QED BY <1>2, <1>3, InStepBecome

LEMMA InStepWriting ==
    ASSUME TypeOK, LeaseInv, ThreadsInStep, NEW t \in Threads,
           NEW r \in Runs, Acting(t, r), NEW th, Become(t, th),
           th.run = r, InStep(th, state'[r], observed'[r]),
           \A q \in Runs \ {r} : state'[q] = state[q] /\ observed'[q] = observed[q]
    PROVE  ThreadsInStep'
<1>1. ASSUME NEW u \in Threads \ {t}, thread[u].pc \notin Waiting
      PROVE  RunOf(u) \in Runs \ {r}
  <2>1. RunOf(u) \in Runs BY <1>1, ThreadFacts DEF Waiting
  <2>2. QED BY <1>1, <2>1, Alone
<1>2. \A u \in Threads \ {t} :
          \/ thread[u].pc \in Waiting
          \/ /\ state'[RunOf(u)] = state[RunOf(u)]
             /\ observed'[RunOf(u)] = observed[RunOf(u)]
  BY <1>1
<1>3. th.pc # "Idle" => InStep(th, state'[th.run], observed'[th.run])
  OBVIOUS
<1>4. QED BY <1>2, <1>3, InStepBecome

-----------------------------------------------------------------------------
(* The threads' own steps                                                  *)

\* The steps that only move the program counter, or leave the run.
LEMMA InStepQuietStep ==
    ASSUME TypeOK, StepInv, NEW t \in Threads,
           \/ AnnounceRequest(t) \/ ClaimWork(t) \/ RecordResume(t)
           \/ RenewLease(t) \/ RecordProbe(t) \/ FinishWork(t)
           \/ FailWork(t) \/ RecordFailed(t)
    PROVE  ThreadsInStep'
<1> USE DEF At
<1> DEFINE th == thread[t]
           r == RunOf(t)
<1>1. rows' = rows /\ state' = state
  BY DEF AnnounceRequest, ClaimWork, RecordResume, RenewLease, RecordProbe,
         FinishWork, FailWork, RecordFailed
<1>2. th.pc # "Idle"
  BY DEF AnnounceRequest, ClaimWork, RecordResume, RenewLease, RecordProbe,
         FinishWork, FailWork, RecordFailed
<1>3. th \in ThreadRecord /\ th.run = r /\ r \in Runs
  BY <1>2, ThreadFacts DEF RunOf
<1>4. InStep(th, state[r], observed[r]) /\ ThreadsInStep
  BY <1>2 DEF StepInv, ThreadsInStep
<1> HIDE DEF th
<1>5. ASSUME NEW pc, GoTo(t, pc),
             InStep([th EXCEPT !.pc = pc], state[r], observed[r])
      PROVE  ThreadsInStep'
  <2> DEFINE new == [th EXCEPT !.pc = pc]
  <2>1. Become(t, new) BY <1>5 DEF GoTo, Become, th
  <2>2. new.run = r BY <1>3 DEF ThreadRecord
  <2>3. InStep(new, state[new.run], observed[new.run]) BY <1>5, <2>2
  <2> HIDE DEF new
  <2>4. QED BY <1>1, <1>4, <2>1, <2>3, InStepReading
<1>6. CASE Return(t)
  <2>1. IdleThread.pc = "Idle" BY DEF IdleThread
  <2>2. QED BY <1>1, <1>4, <1>6, <2>1, InStepReading DEF Return
<1>7. CASE AnnounceRequest(t) \/ ClaimWork(t) \/ FailWork(t)
  <2>1. CASE Return(t) BY <1>6, <2>1
  <2>2. CASE ~Return(t)
    <3>1. PICK pc \in {"Claim", "Load", "CommitFailed"} : GoTo(t, pc)
      BY <1>7, <2>2 DEF AnnounceRequest, ClaimWork, FailWork
    <3> DEFINE new == [th EXCEPT !.pc = pc]
    <3>2. new.pc = pc BY <1>3 DEF ThreadRecord
    <3> HIDE DEF new
    <3>3. InStep(new, state[r], observed[r]) BY <3>1, <3>2, IdlersInStep
    <3>4. QED BY <1>5, <3>1, <3>3 DEF new
  <2>3. QED BY <2>1, <2>2
<1>8. CASE RecordResume(t) \/ RenewLease(t) \/ RecordProbe(t)
  <2>1. PICK pc \in {"Check", "Call", "NextProbe"} :
            /\ GoTo(t, pc) /\ th.pc \in {"Resume", "Renew", "RecordProbe"}
            /\ pc = "NextProbe" => th.pc = "RecordProbe"
    BY <1>8 DEF RecordResume, RenewLease, RecordProbe, th
  <2> DEFINE new == [th EXCEPT !.pc = pc]
  <2>2. new.pc = pc /\ new.state = th.state /\ new.found = th.found
    BY <1>3 DEF ThreadRecord
  <2> HIDE DEF new
  <2>3. InStep(new, state[r], observed[r])
    BY <1>4, <2>1, <2>2 DEF InStep, Following
  <2>4. QED BY <1>5, <2>1, <2>3 DEF new
<1>9. QED BY <1>6, <1>7, <1>8 DEF FinishWork, RecordFailed

\* The steps that read the database or their locals and decide how to go on.
LEMMA InStepReadingStep ==
    ASSUME TypeOK, LeaseInv, StepInv, NEW t \in Threads,
           \/ LoadRun(t) \/ CheckDeadline(t) \/ CallAdapter(t) \/ RecordState(t)
           \/ ReloadProbes(t) \/ NextProbe(t) \/ ProbeBoundary(t)
    PROVE  ThreadsInStep'
<1> USE DEF At, database
<1> DEFINE th == thread[t]
           r == RunOf(t)
           s == state[r]
           saved == observed[r]
<1>1. rows' = rows /\ state' = state
  BY DEF LoadRun, CheckDeadline, CallAdapter, RecordState, ReloadProbes,
         NextProbe, ProbeBoundary
<1>2. th.pc # "Idle"
  BY DEF LoadRun, CheckDeadline, CallAdapter, InPhaseCall, RecordState,
         ReloadProbes, NextProbe, ProbeBoundary
<1>3. th \in ThreadRecord /\ th.run = r /\ r \in Runs
  BY <1>2, ThreadFacts DEF RunOf
<1>4. InStep(th, s, saved) /\ ThreadsInStep
  BY <1>2 DEF StepInv, ThreadsInStep
<1>5. saved = SavedResults(r) BY <1>3, ResultOf
<1>6. s \in Phases \cup TerminalStates
  <2>1. key[r] # None BY <1>2, <1>3 DEF LeaseInv
  <2>2. QED BY <1>3, <2>1, StateFacts DEF StepInv, RequestedRuns, TypeOK
<1>7. SUFFICES \E new : Become(t, new) /\ new.run = r /\ InStep(new, s, saved)
  <2>1. ASSUME NEW new, Become(t, new), new.run = r, InStep(new, s, saved)
        PROVE  ThreadsInStep'
    <3>1. InStep(new, state[new.run], observed[new.run]) BY <2>1
    <3>2. QED BY <1>1, <1>4, <2>1, <3>1, InStepReading
  <2>2. QED BY <2>1
<1> HIDE DEF th, s, saved
<1>8. CASE LoadRun(t)
  <2> DEFINE new == [th EXCEPT
          !.pc = IF th.recovering THEN "Resume" ELSE "Check",
          !.state = state[r], !.found = SavedResults(r)]
  <2>1. /\ new.pc \in {"Resume", "Check"} /\ new.run = r
        /\ new.state = s /\ new.found = saved
    BY <1>3, <1>5 DEF ThreadRecord, s
  <2>2. Become(t, new) /\ th.pc = "Load" BY <1>8 DEF LoadRun, th
  <2> HIDE DEF new
  <2>3. InStep(new, s, saved)
    BY <1>4, <2>1, <2>2 DEF InStep, Following
  <2>4. QED BY <2>1, <2>2, <2>3
<1>9. CASE CheckDeadline(t)
  <2>1. PICK new : Become(t, new) /\ (new = Expiring(th) \/ new = Dispatch(th, th.state))
    BY <1>9 DEF CheckDeadline, th
  <2>2. th.pc = "Check" BY <1>9 DEF CheckDeadline, th
  <2>3. th.state = s /\ (s = "PROBING" => th.found = saved)
    BY <1>4, <2>2 DEF InStep, Following
  <2>4. InStep(new, s, saved) /\ new.run = th.run
    BY <1>3, <1>6, <2>1, <2>3, ExpiringInStep, DispatchInStep
  <2>5. QED BY <1>3, <2>1, <2>4
<1>10. CASE CallAdapter(t)
  <2> DEFINE new == Committing(th, NextPhase[s], PhaseEvent[NextPhase[s]])
  <2>1. th.pc = "Call" /\ th.state \in DOMAIN PhaseOperation
    BY <1>10 DEF CallAdapter, InPhaseCall, th
  <2>2. th.state = s BY <1>4, <2>1 DEF InStep, Following
  <2>3. Become(t, new)
    BY <1>10, <2>2 DEF CallAdapter, Advancing, th
  <2>4. /\ LawfulMove(s, saved, NextPhase[s])
        /\ EventRank(PhaseEvent[NextPhase[s]]) = StateRank(NextPhase[s])
    BY <2>1, <2>2, PhaseTables, PhaseRanks DEF LawfulMove
  <2>5. InStep(new, s, saved) /\ new.run = th.run
    BY <1>3, <2>4, CommittingInStep
  <2>6. QED BY <1>3, <2>3, <2>5
<1>11. CASE RecordState(t)
  <2> DEFINE cleared == [th EXCEPT !.target = None, !.event = None]
             reload == [cleared EXCEPT !.pc = "Reload", !.state = "PROBING"]
  <2>1. th.target = s
    <3>1. th.pc = "Record" BY <1>11 DEF RecordState, th
    <3>2. QED BY <1>4, <3>1 DEF InStep
  <2>2. /\ cleared \in ThreadRecord /\ cleared.run = r
        /\ reload.run = r /\ reload.state = "PROBING" /\ reload.pc = "Reload"
    BY <1>3 DEF ThreadRecord
  <2>3. Become(t, IF s = "PROBING" THEN reload ELSE Dispatch(cleared, s))
    BY <1>11, <2>1 DEF RecordState, th
  <2> HIDE DEF cleared, reload
  <2>4. CASE s = "PROBING"
    <3>1. InStep(reload, s, saved)
      BY <2>2, <2>4 DEF InStep, Following
    <3>2. QED BY <2>2, <2>3, <2>4, <3>1
  <2>5. CASE s # "PROBING"
    <3>1. /\ InStep(Dispatch(cleared, s), s, saved)
          /\ Dispatch(cleared, s).run = cleared.run
      BY <1>6, <2>2, <2>5, DispatchInStep
    <3>2. QED BY <2>2, <2>3, <2>5, <3>1
  <2>6. QED BY <2>4, <2>5
<1>12. CASE ReloadProbes(t)
  <2> DEFINE new == [th EXCEPT !.pc = "NextProbe", !.found = SavedResults(r)]
  <2>1. th.pc = "Reload" /\ Become(t, new) BY <1>12 DEF ReloadProbes, th
  <2>2. /\ new.pc = "NextProbe" /\ new.run = r /\ new.state = th.state
        /\ new.found = saved
    BY <1>3, <1>5 DEF ThreadRecord
  <2> HIDE DEF new
  <2>3. InStep(new, s, saved)
    BY <1>4, <2>1, <2>2 DEF InStep, Following
  <2>4. QED BY <2>1, <2>2, <2>3
<1>13. CASE NextProbe(t)
  <2>1. th.pc = "NextProbe" BY <1>13 DEF NextProbe, th
  <2>2. s = "PROBING" /\ th.state = s /\ th.found = saved
    BY <1>4, <2>1 DEF InStep, Following
  <2>3. CASE Become(t, Expiring(th))
    BY <1>3, <2>2, <2>3, ExpiringInStep
  <2>4. CASE Become(t, [th EXCEPT !.pc = "Renew"])
    <3> DEFINE new == [th EXCEPT !.pc = "Renew"]
    <3>1. /\ new.pc = "Renew" /\ new.run = r /\ new.state = th.state
          /\ new.found = th.found
      BY <1>3 DEF ThreadRecord
    <3> HIDE DEF new
    <3>2. InStep(new, s, saved)
      BY <2>2, <3>1 DEF InStep, Following
    <3>3. QED BY <2>4, <3>1, <3>2 DEF new
  <2>5. CASE /\ \A k \in Kinds : th.found[k] # None
             /\ Become(t, Committing(th, Verdict(t), "shutdown.completed"))
    <3>1. Verdict(t) = AggregateProbeResults({saved[k] : k \in Kinds})
      BY <2>2 DEF Verdict, th
    <3>2. LawfulMove(s, saved, Verdict(t))
      BY <2>2, <2>5, <3>1 DEF LawfulMove
    <3>3. EventRank("shutdown.completed") = StateRank(Verdict(t))
      BY EventRanks, StateRanks, VerdictType DEF Verdict
    <3>4. QED BY <1>3, <2>5, <3>2, <3>3, CommittingInStep
  <2>6. QED BY <1>13, <2>3, <2>4, <2>5 DEF NextProbe, th
<1>14. CASE ProbeBoundary(t)
  <2>1. th.state = "PROBING" /\ th.pc = "Call"
    BY <1>14 DEF ProbeBoundary, th
  <2>2. s = "PROBING" /\ th.state = s /\ th.found = saved
    BY <1>4, <2>1 DEF InStep, Following
  <2>3. PICK k \in Kinds, result \in ProbeResults :
            /\ th.found[k] = None
            /\ Become(t, [th EXCEPT !.pc = "SaveProbe", !.kind = k, !.found[k] = result])
    BY <1>14 DEF ProbeBoundary, NextKind, th
  <2> DEFINE new == [th EXCEPT !.pc = "SaveProbe", !.kind = k, !.found[k] = result]
  <2>4. /\ new.run = r /\ new.state = th.state /\ new.pc = "SaveProbe"
        /\ new.kind = k /\ \A j \in Kinds \ {k} : new.found[j] = th.found[j]
    BY <1>3 DEF ThreadRecord
  <2> HIDE DEF new
  <2>5. InStep(new, s, saved)
    BY <2>2, <2>3, <2>4 DEF InStep, Following
  <2>6. QED BY <2>3, <2>4, <2>5 DEF new
<1>15. QED BY <1>8, <1>9, <1>10, <1>11, <1>12, <1>13, <1>14

-----------------------------------------------------------------------------
(* The steps that write                                                    *)

LEMMA CommitInStep ==
    ASSUME TypeOK, LeaseInv, StepInv, NEW t \in Threads, CommitState(t)
    PROVE  StepInv'
<1> DEFINE th == thread[t]
           r == RunOf(t)
           new == [th EXCEPT !.pc = "Record"]
<1>1. th.pc = "Commit" BY DEF CommitState, At
<1>2. th \in ThreadRecord /\ th.run = r /\ r \in Runs
  BY <1>1, ThreadFacts DEF RunOf
<1>3. /\ state' = [state EXCEPT ![r] = th.target] /\ observed' = observed
      /\ Become(t, new) /\ key' = key
  BY SameRowsSameResults DEF CommitState, GoTo, Become
<1>4. th.target \in Phases \cup TerminalStates /\ key[r] # None
  <2>1. th.target = "UNKNOWN" \/ LawfulMove(state[r], observed[r], th.target)
    BY <1>1 DEF StepInv, ThreadsInStep, InStep
  <2>2. QED BY <1>1, <1>2, <2>1, MoveTarget DEF LeaseInv, TerminalStates
<1>5. /\ new.pc = "Record" /\ new.run = r /\ new.target = th.target
      /\ new.event = th.event
  BY <1>2 DEF ThreadRecord
<1>6. /\ state'[r] = th.target
      /\ \A q \in Runs \ {r} : state'[q] = state[q] /\ observed'[q] = observed[q]
  BY <1>2, <1>3 DEF TypeOK
<1>7. Acting(t, r) /\ InStep(th, state[r], observed[r])
  BY <1>1 DEF Acting, StepInv, ThreadsInStep
<1> HIDE DEF th, r, new
<1>8. InStep(new, state'[r], observed'[r])
  BY <1>1, <1>5, <1>6, <1>7 DEF InStep, Following
<1>9. ThreadsInStep'
  BY <1>2, <1>3, <1>5, <1>6, <1>7, <1>8, InStepWriting DEF StepInv
<1>10. RequestedRuns'
  BY <1>3, <1>4, <1>6, StateFacts DEF StepInv, RequestedRuns
<1>11. QED BY <1>9, <1>10 DEF StepInv

LEMMA FailureInStep ==
    ASSUME TypeOK, LeaseInv, StepInv, NEW t \in Threads, CommitFailed(t)
    PROVE  StepInv'
<1> DEFINE th == thread[t]
           r == RunOf(t)
           new == [th EXCEPT !.pc = "RecordFailed"]
<1>1. th.pc = "CommitFailed" BY DEF CommitFailed, At
<1>2. th \in ThreadRecord /\ th.run = r /\ r \in Runs /\ key[r] # None
  BY <1>1, ThreadFacts DEF RunOf, LeaseInv
<1>3. /\ state' = [state EXCEPT ![r] = "FAILED"] /\ observed' = observed
      /\ Become(t, new) /\ key' = key
  BY SameRowsSameResults DEF CommitFailed, GoTo, Become
<1>4. new.pc = "RecordFailed" /\ new.run = r
  BY <1>2 DEF ThreadRecord
<1>5. /\ state'[r] = "FAILED"
      /\ \A q \in Runs \ {r} : state'[q] = state[q] /\ observed'[q] = observed[q]
  BY <1>2, <1>3 DEF TypeOK
<1>6. Acting(t, r) BY <1>1 DEF Acting
<1> HIDE DEF th, r, new
<1>7. InStep(new, state'[r], observed'[r])
  BY <1>4, <1>5 DEF InStep, Following, TerminalStates
<1>8. ThreadsInStep'
  BY <1>2, <1>3, <1>4, <1>5, <1>6, <1>7, InStepWriting DEF StepInv
<1>9. RequestedRuns' BY <1>2, <1>3, <1>5 DEF StepInv, RequestedRuns
<1>10. QED BY <1>8, <1>9 DEF StepInv

\* A result is saved of a kind that has no row yet.
LEMMA ResultInStep ==
    ASSUME TypeOK, LeaseInv, StepInv, NEW t \in Threads, SaveProbe(t)
    PROVE  /\ StepInv'
           /\ \E r \in Runs, k \in Kinds, result \in ProbeResults :
                 /\ state' = state /\ state[r] = "PROBING"
                 /\ observed[r][k] = None
                 /\ observed' = [observed EXCEPT ![r][k] = result]
           /\ ProbeKindsNotRepeated => ProbeKindsNotRepeated'
<1> DEFINE th == thread[t]
           r == RunOf(t)
           k == th.kind
           result == th.found[k]
           new == [th EXCEPT !.pc = "RecordProbe", !.kind = None]
<1>1. th.pc = "SaveProbe" BY DEF SaveProbe, At
<1>2. /\ th \in ThreadRecord /\ th.run = r /\ r \in Runs
      /\ k \in Kinds /\ result \in ProbeResults
  BY <1>1, ThreadFacts DEF RunOf, ThreadType, ThreadRecord
<1>3. /\ rows'[r][k] = Append(rows[r][k], result)
      /\ \A j \in Kinds \ {k} : rows'[r][j] = rows[r][j]
      /\ \A q \in Runs \ {r} : rows'[q] = rows[q]
      /\ state' = state /\ Become(t, new) /\ key' = key
  BY <1>2 DEF SaveProbe, TypeOK
<1>4. InStep(th, state[r], observed[r])
  BY <1>1 DEF StepInv, ThreadsInStep
<1>5. /\ state[r] = "PROBING" /\ th.state = "PROBING" /\ observed[r][k] = None
      /\ \A j \in Kinds \ {k} : th.found[j] = observed[r][j]
  BY <1>1, <1>4 DEF InStep
<1>6. /\ new.pc = "RecordProbe" /\ new.run = r /\ new.state = th.state
      /\ new.found = th.found
  BY <1>2 DEF ThreadRecord
<1>7. Acting(t, r) BY <1>1 DEF Acting
<1>8. th.found = [j \in Kinds |-> th.found[j]] BY <1>2 DEF ThreadRecord
<1>9. th.found[k] = result OBVIOUS
<1> HIDE DEF th, r, k, result, new
<1>10. observed' = [observed EXCEPT ![r][k] = result]
  BY <1>2, <1>3, RowIsResult
<1>11. /\ observed'[r] = th.found
       /\ \A q \in Runs \ {r} : state'[q] = state[q] /\ observed'[q] = observed[q]
  <2>1. /\ observed = [q \in Runs |-> observed[q]]
        /\ observed[r] = [j \in Kinds |-> observed[r][j]]
    BY <1>2 DEF observed, SavedResults
  <2>2. observed'[r] = [observed[r] EXCEPT ![k] = result]
    BY <1>2, <1>10, <2>1
  <2>3. [observed[r] EXCEPT ![k] = result] = th.found
    BY <1>2, <1>5, <1>8, <1>9, <2>1
  <2>4. QED BY <1>3, <1>10, <2>1, <2>2, <2>3
<1>12. ThreadsInStep'
  <2>1. InStep(new, state'[r], observed'[r])
    BY <1>3, <1>5, <1>6, <1>11 DEF InStep, Following
  <2>2. QED
    BY <1>2, <1>3, <1>6, <1>7, <1>11, <2>1, InStepWriting DEF StepInv
<1>13. RequestedRuns' BY <1>3 DEF StepInv, RequestedRuns
<1>14. ASSUME ProbeKindsNotRepeated PROVE ProbeKindsNotRepeated'
  <2>1. rows[r][k] = << >> BY <1>2, <1>5, NoResultNoRow
  <2>2. Len(Append(rows[r][k], result)) = 1 BY <2>1
  <2>3. ASSUME NEW q \in Runs, NEW j \in Kinds
        PROVE  rows'[q][j] = rows[q][j] \/ rows'[q][j] = Append(rows[r][k], result)
    BY <1>3
  <2>4. QED BY <1>14, <2>2, <2>3 DEF ProbeKindsNotRepeated
<1>15. QED BY <1>2, <1>3, <1>5, <1>10, <1>12, <1>13, <1>14 DEF StepInv

-----------------------------------------------------------------------------
(* Every step keeps the threads in step, a transaction that raises included *)

LEMMA StepThreadStep ==
    ASSUME TypeOK, LeaseInv, StepInv, NEW t \in Threads, ThreadStep(t)
    PROVE  StepInv'
<1>1. CASE CommitState(t) \/ CommitFailed(t) \/ SaveProbe(t)
  BY <1>1, CommitInStep, FailureInStep, ResultInStep
<1>2. CASE ~(CommitState(t) \/ CommitFailed(t) \/ SaveProbe(t))
  <2>1. ThreadsInStep'
    BY <1>2, InStepQuietStep, InStepReadingStep DEF ThreadStep
  <2>2. state' = state /\ key' = key
    BY <1>2
       DEF ThreadStep, AnnounceRequest, ClaimWork, LoadRun, RecordResume,
           CheckDeadline, RenewLease, CallAdapter, RecordState, ReloadProbes,
           NextProbe, ProbeBoundary, RecordProbe, FinishWork, FailWork,
           RecordFailed, database
  <2>3. QED BY <2>1, <2>2 DEF StepInv, RequestedRuns
<1>3. QED BY <1>1, <1>2

LEMMA StepRequest ==
    ASSUME TypeOK, LeaseInv, StepInv, NEW w \in Workers, NEW r \in Runs,
           NEW k \in Keys, RequestShutdown(w, r, k)
    PROVE  StepInv'
<1> DEFINE th == NewThread(r, "Announce")
<1>1. th.pc = "Announce" /\ th.run = r BY DEF NewThread, IdleThread
<1>2. /\ w \in Threads /\ key[r] = None /\ k # None /\ Become(w, th)
      /\ key' = [key EXCEPT ![r] = k] /\ rows' = rows
      /\ state' = [state EXCEPT ![r] = "REQUESTED"]
  BY NamesAssumption DEF RequestShutdown, Threads
<1> HIDE DEF th
<1>3. observed' = observed BY <1>2, SameRowsSameResults
<1>4. /\ state'[r] = "REQUESTED" /\ key'[r] # None
      /\ \A q \in Runs \ {r} : state'[q] = state[q] /\ key'[q] = key[q]
  BY <1>2 DEF TypeOK
<1>5. InStep(th, state'[th.run], observed'[th.run]) BY <1>1, IdlersInStep
<1>6. \A u \in Threads \ {w} :
          \/ thread[u].pc \in Waiting
          \/ /\ state'[RunOf(u)] = state[RunOf(u)]
             /\ observed'[RunOf(u)] = observed[RunOf(u)]
  <2>1. ASSUME NEW u \in Threads, thread[u].pc \notin Waiting
        PROVE  RunOf(u) \in Runs \ {r}
    BY <1>2, <2>1, ThreadFacts DEF LeaseInv, Waiting
  <2>2. QED BY <1>3, <1>4, <2>1
<1>7. ThreadsInStep' BY <1>2, <1>5, <1>6, InStepBecome DEF StepInv
<1>8. RequestedRuns' BY <1>4 DEF StepInv, RequestedRuns
<1>9. QED BY <1>7, <1>8 DEF StepInv

\* A thread that waits, recovers a run or fails has nothing to be in step with.
LEMMA StepOtherStep ==
    ASSUME TypeOK, LeaseInv, StepInv, Next, ~ \E t \in Threads : ThreadStep(t)
    PROVE  StepInv'
<1> USE DEF At, database
<1>1. ASSUME NEW w \in Workers, NEW r \in Runs, NEW k \in Keys,
             RequestShutdown(w, r, k)
      PROVE  StepInv'
  BY <1>1, StepRequest
<1>2. CASE ~ \E w \in Workers, r \in Runs, k \in Keys : RequestShutdown(w, r, k)
  <2>1. state' = state /\ rows' = rows /\ key' = key
    BY <1>2 DEF Next, RecoveryStep, StartRound, RecoverBusy, RecoverExpired,
         RecoverResumable, PassDeadline, LapseLease, AdapterRaises, StoreRaises,
         CrashRestart
  <2>2. observed' = observed /\ RequestedRuns'
    BY <2>1, SameRowsSameResults DEF StepInv, RequestedRuns
  <2>3. SUFFICES ThreadsInStep' BY <2>2 DEF StepInv
  <2>4. ASSUME NEW t \in Threads, NEW th, Become(t, th),
               \A s, saved : th.pc # "Idle" => InStep(th, s, saved)
        PROVE  ThreadsInStep'
    BY <2>1, <2>4, InStepReading DEF StepInv
  <2>5. ASSUME NEW r \in Runs, RecoverExpired(r) PROVE ThreadsInStep'
    <3>1. "Commit" \in PCs BY DEF PCs
    <3>2. NewThread(r, "Commit") \in ThreadRecord BY <3>1, NewThreadType
    <3>3. \A s, saved : InStep(Expiring(NewThread(r, "Commit")), s, saved)
      BY <3>2, ExpiringInStep
    <3>4. QED BY <2>4, <2>5, <3>3 DEF RecoverExpired, Threads
  <2>6. ASSUME NEW r \in Runs, NEW w \in Workers, RecoverResumable(r, w)
        PROVE  ThreadsInStep'
    <3> DEFINE th == [NewThread(r, "Load") EXCEPT !.recovering = TRUE]
    <3>1. th.pc = "Load" BY DEF NewThread, IdleThread
    <3>2. Become(w, th) /\ w \in Threads BY <2>6 DEF RecoverResumable, Threads
    <3> HIDE DEF th
    <3>3. \A s, saved : InStep(th, s, saved) BY <3>1, IdlersInStep
    <3>4. QED BY <2>4, <3>2, <3>3
  <2>7. ASSUME NEW t \in Threads, GoTo(t, "Fail"), thread[t].pc # "Idle"
        PROVE  ThreadsInStep'
    <3> DEFINE th == [thread[t] EXCEPT !.pc = "Fail"]
    <3>1. th.pc = "Fail" BY <2>7, ThreadFacts DEF ThreadRecord
    <3>2. Become(t, th) BY <2>7 DEF GoTo, Become
    <3> HIDE DEF th
    <3>3. \A s, saved : InStep(th, s, saved) BY <3>1, IdlersInStep
    <3>4. QED BY <2>4, <3>2, <3>3
  <2>8. ASSUME NEW t \in Threads, Return(t) PROVE ThreadsInStep'
    <3>1. IdleThread.pc = "Idle" BY DEF IdleThread
    <3>2. QED BY <2>4, <2>8, <3>1 DEF Return
  <2>9. ASSUME NEW t \in Threads, AdapterRaises(t) \/ StoreRaises(t)
        PROVE  ThreadsInStep'
    BY <2>7, <2>8, <2>9 DEF AdapterRaises, StoreRaises, TryBlock
  <2>10. CASE CrashRestart
    <3>1. \A t \in Threads : thread'[t].pc = "Idle"
      BY <2>10 DEF CrashRestart, IdleThread
    <3>2. QED BY <3>1 DEF ThreadsInStep
  <2>11. CASE StartRound \/ \E r \in Runs :
                  RecoverBusy(r) \/ PassDeadline(r) \/ LapseLease(r)
    <3>1. thread' = thread
      BY <2>11 DEF StartRound, RecoverBusy, PassDeadline, LapseLease
    <3>2. QED BY <2>1, <2>2, <3>1 DEF StepInv, ThreadsInStep, RunOf
  <2>12. QED
    BY <1>2, <2>5, <2>6, <2>9, <2>10, <2>11 DEF Next, RecoveryStep
<1>3. QED BY <1>1, <1>2

LEMMA StepInvariant ==
    ASSUME MaxOverruns = 0
    PROVE  Spec => []StepInv
<1>1. Init => StepInv
  BY DEF Init, StepInv, ThreadsInStep, RequestedRuns, IdleThread
<1>2. TypeOK /\ LeaseInv /\ StepInv /\ [Next]_vars => StepInv'
  <2>1. ASSUME StepInv, UNCHANGED vars PROVE StepInv'
    <3>1. state' = state /\ rows' = rows /\ key' = key /\ thread' = thread
      BY <2>1 DEF vars
    <3>2. observed' = observed BY <3>1, SameRowsSameResults
    <3>3. QED BY <2>1, <3>1, <3>2 DEF StepInv, ThreadsInStep, RequestedRuns, RunOf
  <2>2. QED BY <2>1, StepThreadStep, StepOtherStep
<1>3. Spec => []LeaseInv BY LeaseInvariant
<1>4. QED BY <1>1, <1>2, <1>3, TypeCorrect, PTL DEF Spec

\* Who writes probe rows, and who the state of a run that was requested.
LEMMA WhoWrites ==
    ASSUME [Next]_vars
    PROVE  /\ rows' = rows \/ \E t \in Threads : SaveProbe(t)
           /\ \/ state' = state
              \/ \E t \in Threads : CommitState(t) \/ CommitFailed(t)
              \/ \E w \in Workers, r \in Runs, k \in Keys : RequestShutdown(w, r, k)
BY DEF Next, RecoveryStep, ThreadStep, RequestShutdown, AnnounceRequest,
       ClaimWork, LoadRun, RecordResume, CheckDeadline, RenewLease, CallAdapter,
       RecordState, ReloadProbes, NextProbe, ProbeBoundary, SaveProbe,
       RecordProbe, FinishWork, FailWork, CommitState, CommitFailed,
       RecordFailed, StartRound, RecoverBusy, RecoverExpired, RecoverResumable,
       PassDeadline, LapseLease, AdapterRaises, StoreRaises, CrashRestart, vars,
       database

\* ProbeKindsNotRepeated: a resumed shutdown goes on after the kinds that are
\* saved (`existing` in _orchestrate), and stores no second row of a kind,
\* whatever raised or restarted before.
THEOREM SavedKindsStay ==
    ASSUME MaxOverruns = 0
    PROVE  Spec => []ProbeKindsNotRepeated
<1>1. Init => ProbeKindsNotRepeated BY DEF Init, ProbeKindsNotRepeated
<1>2. TypeOK /\ LeaseInv /\ StepInv /\ ProbeKindsNotRepeated /\ [Next]_vars
          => ProbeKindsNotRepeated'
  BY WhoWrites, ResultInStep DEF ProbeKindsNotRepeated
<1>3. Spec => []LeaseInv BY LeaseInvariant
<1>4. Spec => []StepInv BY StepInvariant
<1>5. QED BY <1>1, <1>2, <1>3, <1>4, TypeCorrect, PTL DEF Spec

\* UnknownIsNeverVerified: what the violation run refutes with a lease that
\* expires under its thread holds without one: _transition has no condition on
\* the state it replaces, but only a thread of a run in PROBING commits
\* VERIFIED, and nobody else writes the state under it.
THEOREM UnknownStays ==
    ASSUME MaxOverruns = 0
    PROVE  Spec => UnknownIsNeverVerified
<1> DEFINE Kept == \A r \in Runs : state[r] = "UNKNOWN" => state'[r] # "VERIFIED"
<1>1. ASSUME TypeOK, StepInv, [Next]_vars PROVE Kept
  <2>1. SUFFICES ASSUME NEW r \in Runs, state[r] = "UNKNOWN" PROVE state'[r] # "VERIFIED"
    OBVIOUS
  <2>2. CASE state' = state BY <2>1, <2>2
  <2>3. ASSUME NEW w \in Workers, NEW q \in Runs, NEW k \in Keys,
               RequestShutdown(w, q, k)
        PROVE  state'[r] # "VERIFIED"
    BY <1>1, <2>1, <2>3 DEF RequestShutdown, TypeOK
  <2>4. ASSUME NEW t \in Threads, CommitFailed(t) PROVE state'[r] # "VERIFIED"
    BY <1>1, <2>1, <2>4 DEF CommitFailed, TypeOK
  <2>5. ASSUME NEW t \in Threads, CommitState(t) PROVE state'[r] # "VERIFIED"
    <3>1. CASE RunOf(t) # r BY <1>1, <2>1, <2>5, <3>1 DEF CommitState, TypeOK
    <3>2. CASE RunOf(t) = r
      <4>1. thread[t].pc = "Commit" /\ state'[r] = thread[t].target
        BY <1>1, <2>5, <3>2 DEF CommitState, At, TypeOK
      <4>2. \/ thread[t].target = "UNKNOWN"
            \/ LawfulMove("UNKNOWN", observed[r], thread[t].target)
        BY <1>1, <2>1, <3>2, <4>1 DEF StepInv, ThreadsInStep, InStep
      <4>3. "UNKNOWN" \notin Phases BY DEF Phases
      <4>4. QED BY <4>1, <4>2, <4>3, MoveTarget
    <3>3. QED BY <3>1, <3>2
  <2>6. QED BY <1>1, <2>2, <2>3, <2>4, <2>5, WhoWrites
<1>2. Spec => []StepInv BY StepInvariant
<1>3. Spec => [][Kept]_vars
  BY <1>1, <1>2, TypeCorrect, PTL DEF Spec
<1>4. QED BY <1>3 DEF UnknownIsNeverVerified

-----------------------------------------------------------------------------
(* Nobody begins with a run that is over, if no transaction raises         *)

\* Nobody claims the work of a run that is over.
LEMMA ClaimedIsOpen ==
    ASSUME TypeOK, StepInv, LifeInv, NEW r \in Runs,
           Claimable(r), key[r] # None, r \in batch \/ Claimants(r) # {}
    PROVE  state[r] \in Phases
<1>1. ~Settled(r) BY NamesAssumption DEF Claimable, Settled
<1>2. state[r] \notin TerminalStates BY <1>1 DEF LifeInv, OverMeansSettled
<1>3. state[r] # "RUNNING" BY DEF StepInv, RequestedRuns
<1>4. QED BY <1>2, <1>3, StateFacts DEF TypeOK

Beginning == {"Announce", "Claim"}

LEMMA OverKept ==
    ASSUME OverMeansSettled,
           \A r \in Runs : state'[r] \in TerminalStates
               => state[r] \in TerminalStates \/ Settled(r)',
           \A r \in Runs : Settled(r) => Settled(r)',
           \A r \in batch' : r \in batch \/ state'[r] \notin TerminalStates,
           \A r \in Runs : state'[r] \in TerminalStates
               => Claimants(r)' \subseteq Claimants(r)
    PROVE  OverMeansSettled'
BY DEF OverMeansSettled

\* A thread begins with a run only when it is requested.
LEMMA ThreadsMoveOn ==
    ASSUME TypeOK, NEW t \in Threads, ThreadStep(t)
    PROVE  \A r \in Runs : Claimants(r)' \subseteq Claimants(r)
<1> USE DEF At
<1> DEFINE th == thread[t]
<1>0. th.pc # "Idle"
  BY DEF ThreadStep, AnnounceRequest, ClaimWork, LoadRun, RecordResume,
         CheckDeadline, RenewLease, CallAdapter, InPhaseCall, CommitState,
         RecordState, ReloadProbes, NextProbe, ProbeBoundary, SaveProbe,
         RecordProbe, FinishWork, FailWork, CommitFailed, RecordFailed
<1>1. th \in ThreadRecord /\ th.run # None BY <1>0, ThreadFacts
<1>2. SUFFICES ASSUME AnnounceRequest(t) \/ thread'[t].pc \notin Beginning,
                      \A u \in Threads \ {t} : thread'[u] = thread[u]
               PROVE  \A r \in Runs : Claimants(r)' \subseteq Claimants(r)
  <2>1. \A u \in Threads \ {t} : thread'[u] = thread[u]
    BY DEF ThreadStep, AnnounceRequest, ClaimWork, LoadRun, RecordResume,
           CheckDeadline, RenewLease, CallAdapter, InPhaseCall, CommitState,
           RecordState, ReloadProbes, NextProbe, ProbeBoundary, SaveProbe,
           RecordProbe, FinishWork, FailWork, CommitFailed, RecordFailed,
           Become, GoTo, Return, TypeOK
  <2>2. ASSUME NEW pc, GoTo(t, pc), pc \notin Beginning
        PROVE  thread'[t].pc \notin Beginning
    <3>1. thread'[t] = [th EXCEPT !.pc = pc] BY <2>2 DEF GoTo, TypeOK
    <3>2. [th EXCEPT !.pc = pc].pc = pc BY <1>1 DEF ThreadRecord
    <3>3. QED BY <2>2, <3>1, <3>2
  <2>3. ASSUME NEW new, Become(t, new), new.pc \notin Beginning
        PROVE  thread'[t].pc \notin Beginning
    BY <2>3 DEF Become, TypeOK
  <2>4. ASSUME Return(t) PROVE thread'[t].pc \notin Beginning
    <3>1. IdleThread.pc \notin Beginning BY DEF IdleThread, Beginning
    <3>2. QED BY <2>3, <2>4, <3>1 DEF Return
  <2>5. CASE ClaimWork(t) \/ RecordResume(t) \/ RenewLease(t) \/ CommitState(t)
             \/ RecordProbe(t) \/ FinishWork(t) \/ FailWork(t)
             \/ CommitFailed(t) \/ RecordFailed(t)
    <3>1. \/ Return(t)
          \/ \E pc \in {"Load", "Check", "Call", "Record", "NextProbe",
                         "CommitFailed", "RecordFailed"} : GoTo(t, pc)
      BY <2>5 DEF ClaimWork, RecordResume, RenewLease, CommitState,
                  RecordProbe, FinishWork, FailWork, CommitFailed, RecordFailed
    <3>2. thread'[t].pc \notin Beginning
      BY <2>2, <2>4, <3>1 DEF Beginning
    <3>3. QED BY <1>2, <2>1, <3>2
  <2>6. CASE LoadRun(t) \/ ReloadProbes(t) \/ ProbeBoundary(t) \/ SaveProbe(t)
    <3>1. PICK new : /\ Become(t, new)
                     /\ new.pc \in {"Resume", "Check", "NextProbe", "SaveProbe",
                                    "RecordProbe"}
      <4>1. CASE LoadRun(t)
        <5>1. [th EXCEPT !.pc = IF th.recovering THEN "Resume" ELSE "Check",
                         !.state = state[RunOf(t)],
                         !.found = SavedResults(RunOf(t))].pc \in {"Resume", "Check"}
          BY <1>1 DEF ThreadRecord
        <5>2. QED BY <4>1, <5>1 DEF LoadRun
      <4>2. CASE ReloadProbes(t)
        <5>1. [th EXCEPT !.pc = "NextProbe",
                         !.found = SavedResults(RunOf(t))].pc = "NextProbe"
          BY <1>1 DEF ThreadRecord
        <5>2. QED BY <4>2, <5>1 DEF ReloadProbes
      <4>3. CASE ProbeBoundary(t)
        <5>1. PICK k, result :
                  Become(t, [th EXCEPT !.pc = "SaveProbe", !.kind = k,
                                       !.found[k] = result])
          BY <4>3 DEF ProbeBoundary
        <5>2. [th EXCEPT !.pc = "SaveProbe", !.kind = k,
                         !.found[k] = result].pc = "SaveProbe"
          BY <1>1 DEF ThreadRecord
        <5>3. QED BY <5>1, <5>2
      <4>4. CASE SaveProbe(t)
        <5>1. [th EXCEPT !.pc = "RecordProbe", !.kind = None].pc = "RecordProbe"
          BY <1>1 DEF ThreadRecord
        <5>2. QED BY <4>4, <5>1 DEF SaveProbe
      <4>5. QED BY <2>6, <4>1, <4>2, <4>3, <4>4
    <3>2. thread'[t].pc \notin Beginning BY <2>3, <3>1 DEF Beginning
    <3>3. QED BY <1>2, <2>1, <3>2
  <2>7. CASE CheckDeadline(t) \/ CallAdapter(t) \/ RecordState(t) \/ NextProbe(t)
    <3>1. PICK new : Become(t, new) /\ new.pc \in {"Renew", "Commit", "NextProbe",
                                                   "Finish", "Fail", "Reload"}
      <4> HIDE DEF th
      <4>1. ASSUME NEW target, NEW event
            PROVE  Committing(th, target, event).pc = "Commit"
        BY <1>1, CommittingMoves
      <4>2. CASE CheckDeadline(t)
        <5>1. th.pc = "Check" BY <4>2 DEF CheckDeadline, th
        <5>2. th.state \in ShutdownStates
          BY <1>0, <1>1, <5>1, ThreadFacts DEF ThreadType, ThreadRecord, th
        <5>3. Dispatch(th, th.state).pc
                  \in {"Renew", "Commit", "NextProbe", "Finish", "Fail"}
          BY <1>1, <5>2, DispatchStays
        <5>4. \/ Become(t, Expiring(th)) \/ Become(t, Dispatch(th, th.state))
          BY <4>2 DEF CheckDeadline, th
        <5>5. QED BY <4>1, <5>3, <5>4 DEF Expiring
      <4>3. CASE CallAdapter(t)
        BY <4>1, <4>3 DEF CallAdapter, Advancing, th
      <4>4. CASE RecordState(t)
        <5> DEFINE cleared == [th EXCEPT !.target = None, !.event = None]
                   reload == [cleared EXCEPT !.pc = "Reload", !.state = "PROBING"]
        <5>1. th.pc = "Record" BY <4>4 DEF RecordState, th
        <5>2. th.target \in ShutdownStates
          BY <1>0, <1>1, <5>1, ThreadFacts DEF ThreadType, ThreadRecord, th
        <5>3. cleared \in ThreadRecord /\ reload.pc = "Reload"
          BY <1>1 DEF ThreadRecord
        <5>4. \/ Become(t, reload) \/ Become(t, Dispatch(cleared, th.target))
          BY <4>4 DEF RecordState, th
        <5> HIDE DEF cleared, reload
        <5>5. Dispatch(cleared, th.target).pc
                  \in {"Renew", "Commit", "NextProbe", "Finish", "Fail"}
          BY <5>2, <5>3, DispatchStays
        <5>6. QED BY <5>3, <5>4, <5>5
      <4>5. CASE NextProbe(t)
        <5>1. [th EXCEPT !.pc = "Renew"].pc = "Renew" BY <1>1 DEF ThreadRecord
        <5>2. QED BY <4>1, <4>5, <5>1 DEF NextProbe, Expiring, th
      <4>6. QED BY <2>7, <4>2, <4>3, <4>4, <4>5
    <3>2. thread'[t].pc \notin Beginning BY <2>3, <3>1 DEF Beginning
    <3>3. QED BY <1>2, <2>1, <3>2
  <2>8. QED BY <1>2, <2>1, <2>5, <2>6, <2>7 DEF ThreadStep
<1>3. CASE thread'[t].pc \notin Beginning
  BY <1>2, <1>3 DEF Claimants, RunOf, Beginning
<1>4. CASE AnnounceRequest(t)
  <2>1. th.pc = "Announce" /\ thread'[t] = [th EXCEPT !.pc = "Claim"]
    BY <1>4 DEF AnnounceRequest, GoTo, TypeOK
  <2>2. thread'[t].run = th.run BY <1>1, <2>1 DEF ThreadRecord
  <2>3. QED BY <1>2, <2>1, <2>2 DEF Claimants, RunOf
<1>5. QED BY <1>2, <1>3, <1>4

\* A step of a thread leaves settled work settled, and ends a run only while
\* its work is settled.
LEMMA OverThreadStep ==
    ASSUME TypeOK, LeaseInv, LifeInv, NEW t \in Threads, ThreadStep(t)
    PROVE  OverMeansSettled'
<1> USE DEF At, database
<1>0. thread[t].pc # "Idle"
  BY DEF ThreadStep, AnnounceRequest, ClaimWork, LoadRun, RecordResume,
         CheckDeadline, RenewLease, CallAdapter, InPhaseCall, CommitState,
         RecordState, ReloadProbes, NextProbe, ProbeBoundary, SaveProbe,
         RecordProbe, FinishWork, FailWork, CommitFailed, RecordFailed
<1>1. PICK r \in Runs : r = RunOf(t) /\ key[r] # None
  BY <1>0, ThreadFacts DEF LeaseInv
<1>2. batch' = batch /\ key' = key
  BY DEF ThreadStep, AnnounceRequest, ClaimWork, LoadRun, RecordResume,
         CheckDeadline, RenewLease, CallAdapter, CommitState, RecordState,
         ReloadProbes, NextProbe, ProbeBoundary, SaveProbe, RecordProbe,
         FinishWork, FailWork, CommitFailed, RecordFailed, environment
<1>3. \/ work' = work
      \/ Claimable(r) /\ work' = [work EXCEPT ![r] = Claimed(t)]
      \/ work' = Completed(t)
      \/ /\ \A q \in Runs \ {r} : work'[q] = work[q]
         /\ work'[r].status = work[r].status /\ work'[r].owner = work[r].owner
         /\ work[r].lapsed = FALSE => work'[r].lapsed = FALSE
  <2>1. CASE RenewLease(t)
    <3>1. work' = [work EXCEPT ![r].lapsed = @ /\ work[r].owner # t]
      BY <1>1, <2>1 DEF RenewLease
    <3>2. PICK b \in BOOLEAN : /\ b <=> work[r].lapsed /\ work[r].owner # t
                               /\ work' = [work EXCEPT ![r] = [work[r] EXCEPT !.lapsed = b]]
      BY <3>1
    <3>3. work \in [Runs -> WorkRow] /\ work[r] \in WorkRow
      BY <1>1 DEF TypeOK
    <3>4. QED BY <1>1, <3>2, <3>3 DEF WorkRow
  <2>2. CASE ~RenewLease(t)
    BY <1>1, <2>2 DEF ThreadStep, AnnounceRequest, ClaimWork, LoadRun, RecordResume,
         CheckDeadline, CallAdapter, CommitState, RecordState,
         ReloadProbes, NextProbe, ProbeBoundary, SaveProbe, RecordProbe,
         FinishWork, FailWork, CommitFailed, RecordFailed
  <2>3. QED BY <2>1, <2>2
<1>4. \A q \in Runs : Settled(q) => Settled(q)'
  <2>1. CASE work' = Completed(t)
    BY <1>1, <2>1 DEF Completed, Settled, TypeOK
  <2>2. CASE work' = [work EXCEPT ![r] = Claimed(t)]
    BY <1>1, <2>2 DEF Claimed, Settled, TypeOK
  <2>3. CASE work' = work BY <2>3 DEF Settled
  <2>4. CASE /\ \A q \in Runs \ {r} : work'[q] = work[q]
             /\ work'[r].status = work[r].status /\ work'[r].owner = work[r].owner
             /\ work[r].lapsed = FALSE => work'[r].lapsed = FALSE
    <3>1. work[r].lapsed \in BOOLEAN BY <1>1 DEF TypeOK, WorkRow
    <3>2. QED BY <2>4, <3>1 DEF Settled
  <2>5. QED BY <1>3, <2>1, <2>2, <2>3, <2>4
<1>5. CASE state' = state
  BY <1>2, <1>4, <1>5, ThreadsMoveOn, OverKept DEF LifeInv
<1>6. CASE CommitState(t) \/ CommitFailed(t)
  <2>1. Settled(r)'
    <3>1. Settled(r)
      BY <1>1, <1>6
         DEF CommitState, CommitFailed, LeaseInv, Holding, Acting, Settled
    <3>2. QED BY <1>1, <1>4, <3>1
  <2>2. \A q \in Runs \ {r} : state'[q] = state[q]
    BY <1>1, <1>6 DEF CommitState, CommitFailed, TypeOK
  <2>3. \A q \in Runs : state'[q] \in TerminalStates
            => state[q] \in TerminalStates \/ Settled(q)'
    BY <2>1, <2>2
  <2>4. QED BY <1>2, <1>4, <2>3, ThreadsMoveOn, OverKept DEF LifeInv
<1>7. CASE ~CommitState(t) /\ ~CommitFailed(t)
  <2>1. state' = state
    BY <1>7 DEF ThreadStep, AnnounceRequest, ClaimWork, LoadRun, RecordResume,
         CheckDeadline, RenewLease, CallAdapter, RecordState, ReloadProbes,
         NextProbe, ProbeBoundary, SaveProbe, RecordProbe, FinishWork, FailWork,
         RecordFailed
  <2>2. QED BY <1>5, <2>1
<1>8. QED BY <1>6, <1>7

\* A thread goes on with its run until it is idle.
LEMMA StaysWithRun ==
    ASSUME TypeOK, NEW t \in Threads, ThreadStep(t)
    PROVE  thread'[t].pc = "Idle" \/ thread'[t].run = thread[t].run
<1> USE DEF At
<1> DEFINE th == thread[t]
<1>1. th \in ThreadRecord
  <2>1. th.pc # "Idle"
    BY DEF ThreadStep, AnnounceRequest, ClaimWork, LoadRun, RecordResume,
           CheckDeadline, RenewLease, CallAdapter, InPhaseCall, CommitState,
           RecordState, ReloadProbes, NextProbe, ProbeBoundary, SaveProbe,
           RecordProbe, FinishWork, FailWork, CommitFailed, RecordFailed
  <2>2. QED BY <2>1, ThreadFacts
<1>2. ASSUME NEW new, Become(t, new), new.pc = "Idle" \/ new.run = th.run
      PROVE  thread'[t].pc = "Idle" \/ thread'[t].run = thread[t].run
  BY <1>2 DEF Become, TypeOK
<1>3. CASE \/ Return(t)
           \/ \E pc : GoTo(t, pc)
  <2>1. IdleThread.pc = "Idle" BY DEF IdleThread
  <2>2. \A pc : [th EXCEPT !.pc = pc].run = th.run BY <1>1 DEF ThreadRecord
  <2>3. QED BY <1>2, <1>3, <2>1, <2>2 DEF Return, GoTo, Become
<1>4. CASE LoadRun(t) \/ ReloadProbes(t) \/ ProbeBoundary(t) \/ SaveProbe(t)
  <2>1. CASE LoadRun(t)
    <3> DEFINE new == [th EXCEPT
            !.pc = IF th.recovering THEN "Resume" ELSE "Check",
            !.state = state[RunOf(t)], !.found = SavedResults(RunOf(t))]
    <3>1. Become(t, new) BY <2>1 DEF LoadRun
    <3>2. new.run = th.run BY <1>1 DEF ThreadRecord
    <3> HIDE DEF new
    <3>3. QED BY <1>2, <3>1, <3>2
  <2>2. CASE ReloadProbes(t)
    <3> DEFINE new == [th EXCEPT !.pc = "NextProbe", !.found = SavedResults(RunOf(t))]
    <3>1. Become(t, new) BY <2>2 DEF ReloadProbes
    <3>2. new.run = th.run BY <1>1 DEF ThreadRecord
    <3> HIDE DEF new
    <3>3. QED BY <1>2, <3>1, <3>2
  <2>3. CASE ProbeBoundary(t)
    <3>1. PICK k, result :
              Become(t, [th EXCEPT !.pc = "SaveProbe", !.kind = k, !.found[k] = result])
      BY <2>3 DEF ProbeBoundary
    <3> DEFINE new == [th EXCEPT !.pc = "SaveProbe", !.kind = k, !.found[k] = result]
    <3>2. new.run = th.run BY <1>1 DEF ThreadRecord
    <3> HIDE DEF new
    <3>3. QED BY <1>2, <3>1, <3>2 DEF new
  <2>4. CASE SaveProbe(t)
    <3> DEFINE new == [th EXCEPT !.pc = "RecordProbe", !.kind = None]
    <3>1. Become(t, new) BY <2>4 DEF SaveProbe
    <3>2. new.run = th.run BY <1>1 DEF ThreadRecord
    <3> HIDE DEF new
    <3>3. QED BY <1>2, <3>1, <3>2
  <2>5. QED BY <1>4, <2>1, <2>2, <2>3, <2>4
<1>5. CASE CheckDeadline(t) \/ CallAdapter(t) \/ RecordState(t) \/ NextProbe(t)
  <2> DEFINE cleared == [th EXCEPT !.target = None, !.event = None]
             reload == [cleared EXCEPT !.pc = "Reload", !.state = "PROBING"]
             renewing == [th EXCEPT !.pc = "Renew"]
  <2>1. /\ cleared \in ThreadRecord /\ cleared.run = th.run
        /\ reload.run = th.run /\ renewing.run = th.run
    BY <1>1 DEF ThreadRecord
  <2>2. /\ CheckDeadline(t) => th.state \in ShutdownStates
        /\ RecordState(t) => th.target \in ShutdownStates
    BY ThreadFacts DEF CheckDeadline, RecordState, ThreadType, ThreadRecord
  <2>3. \/ Become(t, renewing)
        \/ \E target, event : Become(t, Committing(th, target, event))
        \/ CheckDeadline(t) /\ Become(t, Dispatch(th, th.state))
        \/ Become(t, reload)
        \/ RecordState(t) /\ Become(t, Dispatch(cleared, th.target))
    BY <1>5 DEF CheckDeadline, CallAdapter, NextProbe, RecordState, Expiring, Advancing
  <2> HIDE DEF cleared, reload, renewing, th
  <2>4. QED
    BY <1>1, <1>2, <2>1, <2>2, <2>3, CommittingMoves, DispatchStays
<1>6. QED
  BY <1>3, <1>4, <1>5
     DEF ThreadStep, AnnounceRequest, ClaimWork, RecordResume, RenewLease,
         CommitState, RecordProbe, FinishWork, FailWork, CommitFailed, RecordFailed

\* A thread that goes on is at work on a run that is not over.
LEMMA OpenThreadStep ==
    ASSUME TypeOK, LeaseInv, StepInv, LifeInv, NEW t \in Threads, ThreadStep(t)
    PROVE  ThreadsOpen'
<1> USE DEF At, database
<1> DEFINE th == thread[t]
<1>1. th.pc # "Idle" /\ \A u \in Threads \ {t} : thread'[u] = thread[u]
  BY DEF ThreadStep, AnnounceRequest, ClaimWork, LoadRun, RecordResume,
         CheckDeadline, RenewLease, CallAdapter, InPhaseCall, CommitState,
         RecordState, ReloadProbes, NextProbe, ProbeBoundary, SaveProbe,
         RecordProbe, FinishWork, FailWork, CommitFailed, RecordFailed,
         Become, GoTo, Return, TypeOK
<1>2. PICK r \in Runs : r = RunOf(t) /\ r = th.run /\ key[r] # None
  BY <1>1, ThreadFacts DEF LeaseInv, RunOf
<1>3. th \in ThreadRecord /\ InStep(th, state[r], observed[r])
  BY <1>1, <1>2, ThreadFacts DEF StepInv, ThreadsInStep
<1>4. \/ state' = state
      \/ /\ CommitState(t) \/ CommitFailed(t)
         /\ \A q \in Runs \ {r} : state'[q] = state[q]
  BY <1>2
     DEF ThreadStep, AnnounceRequest, ClaimWork, LoadRun, RecordResume,
         CheckDeadline, RenewLease, CallAdapter, CommitState,
         RecordState, ReloadProbes, NextProbe, ProbeBoundary, SaveProbe,
         RecordProbe, FinishWork, FailWork, CommitFailed, RecordFailed, TypeOK
<1>5. ASSUME NEW u \in Threads \ {t}, thread[u].pc \in Active
      PROVE  state'[RunOf(u)] \in Phases
  <2>1. state[RunOf(u)] \in Phases BY <1>5 DEF LifeInv, ThreadsOpen
  <2>2. CASE state' = state BY <2>1, <2>2
  <2>3. CASE CommitState(t) \/ CommitFailed(t)
    <3>1. Acting(t, r) BY <1>2, <2>3 DEF Acting, CommitState, CommitFailed
    <3>2. thread[u].pc \notin Waiting BY <1>5 DEF Active, Waiting
    <3>3. RunOf(u) \in Runs \ {r}
      BY <1>2, <3>1, <3>2, Alone, ThreadFacts DEF Waiting
    <3>4. QED BY <1>4, <2>1, <3>3
  <2>4. QED BY <1>4, <2>2, <2>3
<1>6. thread'[t].pc \in Active => thread'[t].run = r /\ state'[r] \in Phases
  <2>1. SUFFICES ASSUME thread'[t].pc \in Active
                 PROVE  state'[r] \in Phases
    BY <1>2, StaysWithRun DEF Active
  <2>2. ASSUME NEW pc, GoTo(t, pc) PROVE thread'[t].pc = pc
    <3>1. thread'[t] = [th EXCEPT !.pc = pc] BY <2>2 DEF GoTo, TypeOK
    <3>2. [th EXCEPT !.pc = pc].pc = pc BY <1>3 DEF ThreadRecord
    <3>3. QED BY <3>1, <3>2
  <2>3. ASSUME Return(t) PROVE FALSE
    BY <2>1, <2>3 DEF Return, Become, TypeOK, IdleThread, Active
  <2>4. CASE \/ AnnounceRequest(t) \/ FinishWork(t) \/ RecordFailed(t)
             \/ CommitState(t) \/ CommitFailed(t)
    <3>1. PICK pc \in {"Claim", "Record", "RecordFailed"} : GoTo(t, pc)
      BY <2>3, <2>4
         DEF AnnounceRequest, FinishWork, RecordFailed, CommitState, CommitFailed
    <3>2. QED BY <2>1, <2>2, <3>1 DEF Active
  <2>5. CASE ClaimWork(t)
    <3>1. Claimable(r) /\ state' = state BY <1>2, <2>3, <2>5 DEF ClaimWork
    <3>2. t \in Claimants(r) BY <1>2, <2>5 DEF ClaimWork, Claimants
    <3>3. QED BY <1>2, <3>1, <3>2, ClaimedIsOpen
  <2>6. CASE RecordState(t)
    <3> DEFINE s == state[r]
               cleared == [th EXCEPT !.target = None, !.event = None]
               reload == [cleared EXCEPT !.pc = "Reload", !.state = "PROBING"]
    <3>1. th.pc = "Record" /\ th.target = s /\ state' = state
      BY <1>3, <2>6 DEF RecordState, InStep
    <3>2. s \in Phases \cup TerminalStates
      BY <1>2, StateFacts DEF StepInv, RequestedRuns, TypeOK
    <3>3. CASE s \in Phases BY <3>1, <3>3
    <3>4. CASE s \in TerminalStates
      <4>1. s # "PROBING" BY <3>4, StateFacts DEF Phases
      <4>2. thread'[t] = Dispatch(cleared, s)
        BY <2>6, <3>1, <4>1 DEF RecordState, Become, TypeOK
      <4>3. cleared \in ThreadRecord BY <1>3 DEF ThreadRecord
      <4> HIDE DEF cleared
      <4>4. Dispatch(cleared, s).pc = "Finish"
        BY <3>4, <4>3, PhaseTables
           DEF Dispatch, TerminalStates, ThreadRecord
      <4>5. QED BY <2>1, <4>2, <4>4 DEF Active
    <3>5. QED BY <3>2, <3>3, <3>4
  <2>7. CASE \/ LoadRun(t) \/ RecordResume(t) \/ CheckDeadline(t) \/ RenewLease(t)
             \/ CallAdapter(t) \/ ReloadProbes(t) \/ NextProbe(t)
             \/ ProbeBoundary(t) \/ SaveProbe(t) \/ RecordProbe(t) \/ FailWork(t)
    <3>1. th.pc \in Active /\ state' = state
      BY <2>7
         DEF LoadRun, RecordResume, CheckDeadline, RenewLease, CallAdapter,
             InPhaseCall, ReloadProbes, NextProbe, ProbeBoundary, SaveProbe,
             RecordProbe, FailWork, Active
    <3>2. QED BY <1>2, <3>1 DEF LifeInv, ThreadsOpen
  <2>8. QED BY <2>4, <2>5, <2>6, <2>7 DEF ThreadStep
<1>7. QED BY <1>1, <1>5, <1>6 DEF ThreadsOpen, RunOf

-----------------------------------------------------------------------------
(* What the steps are to the abstract lifecycle                            *)

LEMMA AbstractTables ==
    /\ Lifecycle!NextPhase = NextPhase
    /\ Lifecycle!Phases = Phases
    /\ Lifecycle!Kinds = Kinds
    /\ Lifecycle!ProbeResults = ProbeResults
    /\ \A results : Lifecycle!AggregateProbeResults(results)
                       = AggregateProbeResults(results)
BY DEF Lifecycle!NextPhase, NextPhase, Lifecycle!Phases, Phases,
       Lifecycle!Kinds, Kinds, Lifecycle!ProbeResults, ProbeResults,
       Lifecycle!AggregateProbeResults, AggregateProbeResults

\* CommitState is Advance, GiveUp or Conclude.
LEMMA CommitIsLawful ==
    ASSUME StepInv, ThreadsOpen, TypeOK, NEW t \in Threads, CommitState(t)
    PROVE  Lifecycle!Next
<1> DEFINE th == thread[t]
           r == RunOf(t)
<1>1. th.pc = "Commit" BY DEF CommitState, At
<1>2. r \in Runs BY <1>1, ThreadFacts
<1>3. state' = [state EXCEPT ![r] = th.target] /\ observed' = observed
  BY SameRowsSameResults DEF CommitState
<1>4. state[r] \in Phases BY <1>1 DEF ThreadsOpen, Active
<1>5. LawfulMove(state[r], observed[r], th.target)
  BY <1>1, <1>4 DEF StepInv, ThreadsInStep, InStep, LawfulMove
<1> HIDE DEF th, r
<1>6. CASE state[r] \in DOMAIN NextPhase /\ th.target = NextPhase[state[r]]
  <2>1. Lifecycle!Advance(r)
    BY <1>3, <1>6, AbstractTables DEF Lifecycle!Advance, Lifecycle!MoveTo
  <2>2. QED BY <1>2, <2>1 DEF Lifecycle!Next
<1>7. CASE state[r] \in Phases /\ th.target = "UNKNOWN"
  <2>1. Lifecycle!GiveUp(r)
    BY <1>3, <1>7, AbstractTables DEF Lifecycle!GiveUp, Lifecycle!MoveTo
  <2>2. QED BY <1>2, <2>1 DEF Lifecycle!Next
<1>8. CASE /\ state[r] = "PROBING"
           /\ \A k \in Kinds : observed[r][k] # None
           /\ th.target = AggregateProbeResults({observed[r][k] : k \in Kinds})
  <2>1. Lifecycle!Conclude(r)
    BY <1>3, <1>8, AbstractTables DEF Lifecycle!Conclude, Lifecycle!MoveTo
  <2>2. QED BY <1>2, <2>1 DEF Lifecycle!Next
<1>9. QED BY <1>5, <1>6, <1>7, <1>8 DEF LawfulMove

\* CommitFailed is Break.
LEMMA FailureIsLawful ==
    ASSUME ThreadsOpen, TypeOK, NEW t \in Threads, CommitFailed(t)
    PROVE  Lifecycle!Next
<1> DEFINE r == RunOf(t)
<1>1. thread[t].pc = "CommitFailed" BY DEF CommitFailed, At
<1>2. r \in Runs BY <1>1, ThreadFacts
<1>3. state' = [state EXCEPT ![r] = "FAILED"] /\ observed' = observed
  BY SameRowsSameResults DEF CommitFailed
<1>4. state[r] \in Phases BY <1>1 DEF ThreadsOpen, Active
<1>5. Lifecycle!Break(r)
  BY <1>3, <1>4, AbstractTables DEF Lifecycle!Break, Lifecycle!MoveTo
<1>6. QED BY <1>2, <1>5 DEF Lifecycle!Next

\* SaveProbe is Observe, of a kind that has no row yet.
LEMMA ResultIsLawful ==
    ASSUME TypeOK, LeaseInv, StepInv, NEW t \in Threads, SaveProbe(t)
    PROVE  Lifecycle!Next
<1>1. PICK r \in Runs, k \in Kinds, result \in ProbeResults :
          /\ state' = state /\ state[r] = "PROBING"
          /\ observed[r][k] = None
          /\ observed' = [observed EXCEPT ![r][k] = result]
  BY ResultInStep
<1>2. Lifecycle!Observe(r, k, result) BY <1>1 DEF Lifecycle!Observe
<1>3. QED BY <1>2, AbstractTables DEF Lifecycle!Next

LEMMA LifeThreadStep ==
    ASSUME TypeOK, LeaseInv, StepInv, LifeInv, NEW t \in Threads, ThreadStep(t)
    PROVE  LifeInv' /\ (Lifecycle!Next \/ UNCHANGED <<state, observed>>)
<1>1. LifeInv' BY OverThreadStep, OpenThreadStep DEF LifeInv
<1>2. CASE CommitState(t) \/ CommitFailed(t) \/ SaveProbe(t)
  BY <1>1, <1>2, CommitIsLawful, FailureIsLawful, ResultIsLawful DEF LifeInv
<1>3. CASE ~(CommitState(t) \/ CommitFailed(t) \/ SaveProbe(t))
  <2>1. rows' = rows /\ state' = state
    BY <1>3
       DEF ThreadStep, AnnounceRequest, ClaimWork, LoadRun, RecordResume,
           CheckDeadline, RenewLease, CallAdapter, RecordState, ReloadProbes,
           NextProbe, ProbeBoundary, RecordProbe, FinishWork, FailWork,
           RecordFailed, database
  <2>2. QED BY <1>1, <2>1, SameRowsSameResults
<1>4. QED BY <1>2, <1>3

-----------------------------------------------------------------------------
(* Requests, recovery, time, faults and restarts                           *)

\* A thread begins or goes on with a run that is not over.
LEMMA LifeStarted ==
    ASSUME TypeOK, LifeInv, NEW t \in Threads, NEW r \in Runs, NEW th,
           Become(t, th), th.run = r, th.pc \notin Beginning, state[r] \in Phases,
           state' = state, batch' \subseteq batch,
           work' = work \/ work' = [work EXCEPT ![r] = Claimed(t)]
    PROVE  LifeInv'
<1>1. thread'[t] = th /\ \A u \in Threads \ {t} : thread'[u] = thread[u]
  BY DEF Become, TypeOK
<1>2. ThreadsOpen' BY <1>1 DEF LifeInv, ThreadsOpen, RunOf
<1>3. \A q \in Runs : Settled(q) => Settled(q)'
  <2>1. CASE work' = work BY <2>1 DEF Settled
  <2>2. CASE work' = [work EXCEPT ![r] = Claimed(t)]
    <3>1. Claimed(t).owner = t /\ Claimed(t).lapsed = FALSE BY DEF Claimed
    <3>2. work'[r] = Claimed(t) /\ \A q \in Runs \ {r} : work'[q] = work[q]
      BY <2>2 DEF TypeOK
    <3>3. QED BY <3>1, <3>2 DEF Settled
  <2>3. QED BY <2>1, <2>2
<1>4. \A q \in Runs : Claimants(q)' \subseteq Claimants(q)
  BY <1>1 DEF Claimants, Beginning, RunOf
<1>5. OverMeansSettled' BY <1>3, <1>4, OverKept DEF LifeInv
<1>6. QED BY <1>2, <1>5 DEF LifeInv

LEMMA LifeRequest ==
    ASSUME TypeOK, LeaseInv, StepInv, LifeInv, NEW w \in Workers,
           NEW r \in Runs, NEW k \in Keys, RequestShutdown(w, r, k)
    PROVE  LifeInv' /\ Lifecycle!Next
<1> USE DEF At
<1> DEFINE th == NewThread(r, "Announce")
<1>1. th.pc = "Announce" /\ th.run = r BY DEF NewThread, IdleThread
<1>2. /\ w \in Threads /\ key[r] = None /\ Become(w, th)
      /\ rows' = rows /\ batch' = batch
      /\ state' = [state EXCEPT ![r] = "REQUESTED"]
      /\ work' = [work EXCEPT ![r].status = "PENDING"]
  BY DEF RequestShutdown, Threads
<1> HIDE DEF th
<1>3. observed' = observed BY <1>2, SameRowsSameResults
<1>4. /\ state'[r] = "REQUESTED"
      /\ \A q \in Runs \ {r} : state'[q] = state[q] /\ work'[q] = work[q]
  BY <1>2 DEF TypeOK
<1>5. thread'[w] = th /\ \A u \in Threads \ {w} : thread'[u] = thread[u]
  BY <1>2 DEF Become, TypeOK
<1>6. ThreadsOpen'
  <2>1. ASSUME NEW u \in Threads, thread'[u].pc \in Active
        PROVE  state'[RunOf(u)'] \in Phases
    <3>1. u # w BY <1>1, <1>5, <2>1 DEF Active
    <3>2. thread'[u] = thread[u] /\ thread[u].pc \in Active BY <1>5, <2>1, <3>1
    <3>3. RunOf(u) \in Runs \ {r}
      BY <1>2, <3>2, ThreadFacts DEF LeaseInv, Active
    <3>4. QED BY <1>4, <3>2, <3>3 DEF LifeInv, ThreadsOpen, RunOf
  <2>2. QED BY <2>1 DEF ThreadsOpen
<1>7. OverMeansSettled'
  <2>1. \A q \in Runs \ {r} : Claimants(q)' \subseteq Claimants(q)
    BY <1>1, <1>5 DEF Claimants, RunOf
  <2>2. \A q \in Runs \ {r} : Settled(q) => Settled(q)'
    BY <1>4 DEF Settled
  <2>3. "REQUESTED" \notin TerminalStates BY DEF TerminalStates
  <2>4. QED BY <1>2, <1>4, <2>1, <2>2, <2>3 DEF LifeInv, OverMeansSettled
<1>8. Lifecycle!Next
  <2>1. state[r] = "RUNNING" BY <1>2 DEF StepInv, RequestedRuns
  <2>2. Lifecycle!Request(r)
    BY <1>2, <1>3, <2>1 DEF Lifecycle!Request, Lifecycle!MoveTo
  <2>3. QED BY <2>2 DEF Lifecycle!Next
<1>9. QED BY <1>6, <1>7, <1>8 DEF LifeInv

LEMMA LifeRecovery ==
    ASSUME TypeOK, LeaseInv, StepInv, LifeInv, NEW r \in Runs,
           RecoverExpired(r) \/ \E w \in Workers : RecoverResumable(r, w)
    PROVE  LifeInv' /\ UNCHANGED <<state, observed>>
<1> USE DEF At
<1>1. /\ r \in batch /\ Claimable(r) /\ state' = state /\ rows' = rows
      /\ batch' \subseteq batch
  BY DEF RecoverExpired, RecoverResumable, RecoverRun
<1>2. state[r] \in Phases
  <2>1. key[r] # None BY <1>1 DEF LeaseInv
  <2>2. QED BY <1>1, <2>1, ClaimedIsOpen
<1>3. CASE RecoverExpired(r)
  <2> DEFINE new == NewThread(r, "Commit")
             th == Expiring(new)
  <2>1. new \in ThreadRecord /\ new.run = r
    <3>1. "Commit" \in PCs BY DEF PCs
    <3>2. QED BY <3>1, NewThreadType
  <2>2. /\ Become(Recovery, th) /\ Recovery \in Threads
        /\ work' = [work EXCEPT ![r] = Claimed(Recovery)]
    BY <1>3 DEF RecoverExpired, Threads
  <2> HIDE DEF new
  <2>3. th.pc \notin Beginning /\ th.run = r
    BY <2>1, CommittingMoves DEF Expiring, Beginning
  <2> HIDE DEF th
  <2>4. QED BY <1>1, <1>2, <2>2, <2>3, LifeStarted, SameRowsSameResults
<1>4. ASSUME NEW w \in Workers, RecoverResumable(r, w) PROVE LifeInv'
  <2> DEFINE th == [NewThread(r, "Load") EXCEPT !.recovering = TRUE]
  <2>1. th.pc = "Load" /\ th.run = r BY DEF NewThread, IdleThread
  <2>2. /\ Become(w, th) /\ w \in Threads
        /\ work' = [work EXCEPT ![r] = Claimed(w)]
    BY <1>4 DEF RecoverResumable, Threads
  <2> HIDE DEF th
  <2>3. th.pc \notin Beginning BY <2>1 DEF Beginning
  <2>4. QED BY <1>1, <1>2, <2>1, <2>2, <2>3, LifeStarted
<1>5. QED BY <1>1, <1>3, <1>4, SameRowsSameResults

LEMMA LifeEnvironment ==
    ASSUME MaxOverruns = 0, MaxStoreFaults = 0, TypeOK, LeaseInv, LifeInv,
           \/ StartRound \/ CrashRestart
           \/ \E r \in Runs : RecoverBusy(r) \/ PassDeadline(r) \/ LapseLease(r)
           \/ \E t \in Threads : AdapterRaises(t) \/ StoreRaises(t)
    PROVE  LifeInv' /\ UNCHANGED <<state, observed>>
<1> USE DEF At, database
<1>1. state' = state /\ rows' = rows
  BY DEF StartRound, CrashRestart, RecoverBusy, PassDeadline, LapseLease,
         AdapterRaises, StoreRaises
<1>2. observed' = observed BY <1>1, SameRowsSameResults
<1>3. CASE StartRound \/ \E r \in Runs : RecoverBusy(r) \/ PassDeadline(r)
  <2>1. thread' = thread /\ work' = work
    BY <1>3 DEF StartRound, RecoverBusy, PassDeadline
  <2>2. \A r \in batch' : r \in batch \/ state'[r] \notin TerminalStates
    BY <1>1, <1>3 DEF StartRound, Incomplete, RecoverBusy, RecoverRun, PassDeadline
  <2>3. \A r \in Runs : Claimants(r)' = Claimants(r) /\ (Settled(r)' <=> Settled(r))
    BY <2>1 DEF Claimants, RunOf, Settled
  <2>4. OverMeansSettled' BY <1>1, <2>2, <2>3, OverKept DEF LifeInv
  <2>5. ThreadsOpen' BY <1>1, <2>1 DEF LifeInv, ThreadsOpen, RunOf
  <2>6. QED BY <1>1, <1>2, <2>4, <2>5 DEF LifeInv
<1>4. ASSUME NEW r \in Runs, LapseLease(r)
      PROVE  LifeInv' /\ UNCHANGED <<state, observed>>
  <2>1. work[r].owner = Dead
    BY <1>4, ConfigAssumption DEF LapseLease, TypeOK
  <2>2. /\ thread' = thread /\ batch' = batch
        /\ work' = [work EXCEPT ![r] = [work[r] EXCEPT !.lapsed = TRUE]]
    BY <1>4 DEF LapseLease
  <2>3. /\ work \in [Runs -> WorkRow] /\ work[r] \in WorkRow BY DEF TypeOK
  <2>4. /\ work'[r].status = work[r].status
        /\ \A q \in Runs \ {r} : work'[q] = work[q]
    BY <2>2, <2>3 DEF WorkRow
  <2>5. \A q \in Runs : Settled(q) => Settled(q)'
    BY <2>1, <2>4, NamesAssumption DEF Settled
  <2>6. \A q \in Runs : Claimants(q)' = Claimants(q)
    BY <2>2 DEF Claimants, RunOf
  <2>7. OverMeansSettled' BY <1>1, <2>2, <2>5, <2>6, OverKept DEF LifeInv
  <2>8. ThreadsOpen' BY <1>1, <2>2 DEF LifeInv, ThreadsOpen, RunOf
  <2>9. QED BY <1>1, <1>2, <2>7, <2>8 DEF LifeInv
<1>5. ASSUME NEW t \in Threads, AdapterRaises(t)
      PROVE  LifeInv' /\ UNCHANGED <<state, observed>>
  <2> DEFINE th == [thread[t] EXCEPT !.pc = "Fail"]
  <2>1. thread[t].pc = "Call" BY <1>5 DEF AdapterRaises
  <2>2. PICK r \in Runs : r = RunOf(t) BY <2>1, ThreadFacts
  <2>3. th.pc = "Fail" /\ th.run = r
    BY <2>1, <2>2, ThreadFacts DEF ThreadRecord, RunOf
  <2>4. Become(t, th) /\ work' = work /\ batch' = batch
    BY <1>5 DEF AdapterRaises, GoTo, Become
  <2>5. state[r] \in Phases BY <2>1, <2>2 DEF LifeInv, ThreadsOpen, Active
  <2> HIDE DEF th
  <2>6. th.pc \notin Beginning BY <2>3 DEF Beginning
  <2>7. batch' \subseteq batch BY <2>4
  <2>8. LifeInv' BY <1>1, <2>3, <2>4, <2>5, <2>6, <2>7, LifeStarted
  <2>9. QED BY <1>1, <1>2, <2>8
<1>6. ASSUME NEW t \in Threads, StoreRaises(t) PROVE FALSE
  BY <1>6, ConfigAssumption DEF StoreRaises, TypeOK
<1>7. CASE CrashRestart
  <2>1. batch' = {} /\ \A t \in Threads : thread'[t].pc = "Idle"
    BY <1>7 DEF CrashRestart, IdleThread
  <2>2. ThreadsOpen' /\ OverMeansSettled'
    BY <2>1 DEF ThreadsOpen, Active, OverMeansSettled, Claimants
  <2>3. QED BY <1>1, <1>2, <2>2 DEF LifeInv
<1>8. QED BY <1>3, <1>4, <1>5, <1>6, <1>7

-----------------------------------------------------------------------------
(* The refinement                                                          *)

LEMMA LifeInit == Init => LifeInv /\ Lifecycle!Init
<1> SUFFICES ASSUME Init PROVE LifeInv /\ Lifecycle!Init
  OBVIOUS
<1>1. ThreadsOpen BY DEF Init, ThreadsOpen, Active, IdleThread
<1>2. OverMeansSettled
  BY StateFacts DEF Init, OverMeansSettled
<1>3. Lifecycle!Init
  BY AbstractTables DEF Init, Lifecycle!Init, observed, SavedResults
<1>4. QED BY <1>1, <1>2, <1>3 DEF LifeInv

LEMMA LifeStep ==
    ASSUME MaxOverruns = 0, MaxStoreFaults = 0, TypeOK, LeaseInv, StepInv,
           LifeInv, [Next]_vars
    PROVE  LifeInv' /\ (Lifecycle!Next \/ UNCHANGED <<state, observed>>)
<1>1. CASE UNCHANGED vars
  <2>1. state' = state /\ rows' = rows /\ work' = work
        /\ batch' = batch /\ thread' = thread
    BY <1>1 DEF vars
  <2>2. observed' = observed BY <2>1, SameRowsSameResults
  <2>3. QED BY <2>1, <2>2
            DEF LifeInv, ThreadsOpen, OverMeansSettled, Settled, Claimants, RunOf
<1>2. CASE Next
  BY <1>2, LifeRequest, LifeThreadStep, LifeRecovery, LifeEnvironment
     DEF Next, RecoveryStep
<1>3. QED BY <1>1, <1>2

LEMMA LifeInvariant ==
    ASSUME MaxOverruns = 0, MaxStoreFaults = 0
    PROVE  Spec => []LifeInv
<1>1. TypeOK /\ LeaseInv /\ StepInv /\ LifeInv /\ [Next]_vars => LifeInv'
  BY LifeStep
<1>2. Spec => []LeaseInv BY LeaseInvariant
<1>3. Spec => []StepInv BY StepInvariant
<1>4. QED BY <1>1, <1>2, <1>3, LifeInit, TypeCorrect, PTL DEF Spec

\* ImplementsLifecycle: whoever recovers a shutdown, and however often the
\* process restarts, its stored state and its saved results go through the
\* phases of one sequential shutdown, as long as each worker keeps its lease
\* and no transaction of _orchestrate raises.
THEOREM OneSequentialShutdown ==
    ASSUME MaxOverruns = 0, MaxStoreFaults = 0
    PROVE  Spec => ImplementsLifecycle
<1>1. TypeOK /\ LeaseInv /\ StepInv /\ LifeInv /\ [Next]_vars
          => [Lifecycle!Next]_<<state, observed>>
  BY LifeStep
<1>2. Spec => []LeaseInv BY LeaseInvariant
<1>3. Spec => []StepInv BY StepInvariant
<1>4. Spec => []LifeInv BY LifeInvariant
<1>5. Spec => Lifecycle!Init /\ [][Lifecycle!Next]_<<state, observed>>
  BY <1>1, <1>2, <1>3, <1>4, LifeInit, TypeCorrect, PTL DEF Spec
<1>6. QED BY <1>5 DEF ImplementsLifecycle, Lifecycle!Spec, Lifecycle!vars

=============================================================================
