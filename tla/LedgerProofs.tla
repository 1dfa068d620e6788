---------------------------- MODULE LedgerProofs ----------------------------
(***************************************************************************)
(* The evidence of a run reports its phases in order, each at most once,   *)
(* before its outcome, as long as each worker keeps its lease: a phase is  *)
(* stored and its event is appended in two transactions, and a recovery    *)
(* may set in between them, with the phase stored and its event lost. If   *)
(* no transaction raises either, there is one outcome.                     *)
(*                                                                         *)
(* The rank of the stored state bounds the ranks of the events, strictly   *)
(* while the event of that state is owed; the state only moves up, or from *)
(* one outcome to another.                                                 *)
(***************************************************************************)
EXTENDS LifecycleProofs, FiniteSetTheorems

\* What has rank m may be reported before what has rank n: the except clause
\* reports an outcome after another one, if what it excepts is a transaction.
Precedes(m, n) == m < n \/ (MaxStoreFaults > 0 /\ m = 5 /\ n = 5)

\* All that the events report may come before something of rank n.
Below(events, n) ==
    \A i \in DOMAIN events :
        EventRank(events[i]) = 0 \/ Precedes(EventRank(events[i]), n)

UpTo(events, n) == \A i \in DOMAIN events : EventRank(events[i]) <= n

InOrder(events) ==
    \A i, j \in DOMAIN events :
        i < j /\ EventRank(events[i]) > 0 /\ EventRank(events[j]) > 0
            => Precedes(EventRank(events[i]), EventRank(events[j]))

\* The event of state s is still owed by th.
Owing(th, s, events) ==
    th.pc \in {"Record", "RecordFailed"} => Below(events, StateRank(s))

ThreadsOwing ==
    \A t \in Threads : thread[t].pc # "Idle" =>
        Owing(thread[t], state[RunOf(t)], ledger[RunOf(t)])

RunsInOrder ==
    \A r \in Runs : InOrder(ledger[r]) /\ UpTo(ledger[r], StateRank(state[r]))

LedgerInv == ThreadsOwing /\ RunsInOrder

-----------------------------------------------------------------------------
(* Ranks                                                                   *)

\* The state moves up.
LEMMA MovesUp ==
    ASSUME NEW s, NEW saved, NEW target, LawfulMove(s, saved, target)
    PROVE  StateRank(s) < StateRank(target)
<1>1. "PROBING" \in Phases /\ "UNKNOWN" \in TerminalStates
  BY DEF Phases, TerminalStates
<1>2. QED BY <1>1, PhaseRanks, StateRanks, VerdictType DEF LawfulMove

\* Where a transaction may raise, an outcome may come after anything.
LEMMA FaultyOutcome ==
    ASSUME MaxStoreFaults # 0, NEW n \in 0 .. 5, NEW s \in TerminalStates
    PROVE  Precedes(n, StateRank(s))
BY StateRanks, ConfigAssumption DEF Precedes

-----------------------------------------------------------------------------
(* One more event                                                          *)

LEMMA AppendedEvents ==
    ASSUME NEW events \in Seq(EventTypes), NEW e \in EventTypes,
           NEW i \in DOMAIN Append(events, e)
    PROVE  \/ Append(events, e)[i] = e
           \/ i \in DOMAIN events /\ Append(events, e)[i] = events[i]
<1>1. /\ DOMAIN Append(events, e) = 1 .. Len(events) + 1
      /\ DOMAIN events = 1 .. Len(events) /\ Len(events) \in Nat
  BY AppendProperties, LenProperties
<1>2. QED BY <1>1, AppendProperties

LEMMA AppendedBelow ==
    ASSUME NEW events \in Seq(EventTypes), NEW e \in EventTypes, NEW n \in Nat,
           Below(events, n), EventRank(e) = 0
    PROVE  Below(Append(events, e), n)
BY AppendedEvents DEF Below

LEMMA AppendedUpTo ==
    ASSUME NEW events \in Seq(EventTypes), NEW e \in EventTypes, NEW n \in Nat,
           UpTo(events, n), EventRank(e) <= n
    PROVE  UpTo(Append(events, e), n)
BY AppendedEvents DEF UpTo

LEMMA AppendedInOrder ==
    ASSUME NEW events \in Seq(EventTypes), NEW e \in EventTypes,
           InOrder(events), EventRank(e) = 0 \/ Below(events, EventRank(e))
    PROVE  InOrder(Append(events, e))
<1> DEFINE more == Append(events, e)
<1>1. /\ more \in Seq(EventTypes) /\ Len(more) = Len(events) + 1
      /\ \A i \in 1 .. Len(events) : more[i] = events[i]
      /\ more[Len(events) + 1] = e
  BY AppendProperties
<1>2. DOMAIN more = 1 .. Len(events) + 1 /\ DOMAIN events = 1 .. Len(events)
      /\ Len(events) \in Nat
  BY <1>1, LenProperties
<1> HIDE DEF more
<1>3. ASSUME NEW i \in DOMAIN more, NEW j \in DOMAIN more, i < j,
             EventRank(more[i]) > 0, EventRank(more[j]) > 0
      PROVE  Precedes(EventRank(more[i]), EventRank(more[j]))
  <2>1. i \in DOMAIN events /\ more[i] = events[i] BY <1>1, <1>2, <1>3
  <2>2. CASE j \in DOMAIN events
    BY <1>1, <1>2, <1>3, <2>1, <2>2 DEF InOrder
  <2>3. CASE j = Len(events) + 1
    BY <1>1, <1>3, <2>1, <2>3, RankTypes DEF Below
  <2>4. QED BY <1>2, <2>2, <2>3
<1>4. QED BY <1>3 DEF InOrder, more

-----------------------------------------------------------------------------
(* Threads and what they owe                                               *)

LEMMA OwingNothing ==
    ASSUME NEW th, th.pc \notin {"Record", "RecordFailed"}, NEW s, NEW events
    PROVE  Owing(th, s, events)
BY DEF Owing

\* The state of r stays, and its evidence, but for an event without a rank.
Unranked(r) ==
    /\ state'[r] = state[r]
    /\ \/ ledger'[r] = ledger[r]
       \/ \E e \in EventTypes : EventRank(e) = 0 /\ ledger'[r] = Append(ledger[r], e)

LEMMA UnrankedKeeps ==
    ASSUME TypeOK, NEW r \in Runs, Unranked(r), NEW n \in Nat, Below(ledger[r], n)
    PROVE  Below(ledger'[r], n)
<1>1. ledger[r] \in Seq(EventTypes) BY DEF TypeOK
<1>2. QED BY <1>1, AppendedBelow DEF Unranked

LEMMA OwingKept ==
    ASSUME TypeOK, ThreadsOwing, NEW u \in Threads, thread[u].pc # "Idle",
           Unranked(RunOf(u))
    PROVE  Owing(thread[u], state'[RunOf(u)], ledger'[RunOf(u)])
<1>1. RunOf(u) \in Runs BY ThreadFacts
<1>2. Owing(thread[u], state[RunOf(u)], ledger[RunOf(u)]) BY DEF ThreadsOwing
<1>3. StateRank(state[RunOf(u)]) \in Nat BY RankTypes
<1>4. state'[RunOf(u)] = state[RunOf(u)] BY DEF Unranked
<1>5. Below(ledger[RunOf(u)], StateRank(state[RunOf(u)]))
          => Below(ledger'[RunOf(u)], StateRank(state[RunOf(u)]))
  BY <1>1, <1>3, UnrankedKeeps
<1>6. QED BY <1>2, <1>4, <1>5 DEF Owing

LEMMA InOrderKept ==
    ASSUME TypeOK, RunsInOrder, NEW r \in Runs, Unranked(r)
    PROVE  InOrder(ledger'[r]) /\ UpTo(ledger'[r], StateRank(state'[r]))
<1>1. ledger[r] \in Seq(EventTypes) BY DEF TypeOK
<1>2. InOrder(ledger[r]) /\ UpTo(ledger[r], StateRank(state[r]))
  BY DEF RunsInOrder
<1>3. StateRank(state[r]) \in Nat BY RankTypes
<1>4. UpTo(ledger'[r], StateRank(state[r]))
  <2>1. ASSUME NEW e \in EventTypes, EventRank(e) = 0
        PROVE  UpTo(Append(ledger[r], e), StateRank(state[r]))
    <3>1. EventRank(e) <= StateRank(state[r]) BY <1>3, <2>1
    <3>2. QED BY <1>1, <1>2, <1>3, <3>1, AppendedUpTo
  <2>2. QED BY <1>2, <2>1 DEF Unranked
<1>5. InOrder(ledger'[r]) BY <1>1, <1>2, AppendedInOrder DEF Unranked
<1>6. state'[r] = state[r] BY DEF Unranked
<1>7. QED BY <1>4, <1>5, <1>6

\* A step of t that reports no phase and stores no state.
LEMMA LedgerBecome ==
    ASSUME TypeOK, LedgerInv, NEW t \in Threads, NEW th, Become(t, th),
           th.pc # "Idle" => Owing(th, state'[th.run], ledger'[th.run]),
           \A r \in Runs : Unranked(r)
    PROVE  LedgerInv'
<1>1. thread'[t] = th /\ \A u \in Threads \ {t} : thread'[u] = thread[u]
  BY DEF Become, TypeOK
<1>2. ASSUME NEW u \in Threads, thread'[u].pc # "Idle"
      PROVE  Owing(thread'[u], state'[thread'[u].run], ledger'[thread'[u].run])
  <2>1. CASE u = t BY <1>1, <1>2, <2>1
  <2>2. CASE u # t
    <3>1. thread'[u] = thread[u] /\ thread[u].pc # "Idle" BY <1>1, <1>2, <2>2
    <3>2. RunOf(u) \in Runs BY <3>1, ThreadFacts
    <3>3. QED BY <3>1, <3>2, OwingKept DEF LedgerInv, RunOf
  <2>3. QED BY <2>1, <2>2
<1>3. ThreadsOwing' BY <1>2 DEF ThreadsOwing, RunOf
<1>4. RunsInOrder' BY InOrderKept DEF LedgerInv, RunsInOrder
<1>5. QED BY <1>3, <1>4 DEF LedgerInv

\* A step of t that stores the state of its run or reports it.
LEMMA LedgerWrite ==
    ASSUME TypeOK, LeaseInv, LedgerInv, NEW t \in Threads, NEW r \in Runs,
           Acting(t, r), NEW th, Become(t, th),
           th.pc # "Idle" => th.run = r /\ Owing(th, state'[r], ledger'[r]),
           \A q \in Runs \ {r} : state'[q] = state[q] /\ ledger'[q] = ledger[q],
           InOrder(ledger'[r]), UpTo(ledger'[r], StateRank(state'[r]))
    PROVE  LedgerInv'
<1>1. thread'[t] = th /\ \A u \in Threads \ {t} : thread'[u] = thread[u]
  BY DEF Become, TypeOK
<1>2. ASSUME NEW u \in Threads, thread'[u].pc # "Idle"
      PROVE  Owing(thread'[u], state'[thread'[u].run], ledger'[thread'[u].run])
  <2>1. CASE u = t BY <1>1, <1>2, <2>1
  <2>2. CASE u # t
    <3>1. thread'[u] = thread[u] /\ thread[u].pc # "Idle" BY <1>1, <1>2, <2>2
    <3>2. RunOf(u) \in Runs BY <3>1, ThreadFacts
    <3>3. CASE RunOf(u) = r
      <4>1. thread[u].pc \in Waiting BY <2>2, <3>3, Alone
      <4>2. QED BY <3>1, <4>1, OwingNothing DEF Waiting
    <3>4. CASE RunOf(u) # r
      <4>1. Unranked(RunOf(u)) BY <3>2, <3>4 DEF Unranked
      <4>2. QED BY <3>1, <4>1, OwingKept DEF LedgerInv, RunOf
    <3>5. QED BY <3>3, <3>4
  <2>3. QED BY <2>1, <2>2
<1>3. ThreadsOwing' BY <1>2 DEF ThreadsOwing, RunOf
<1>4. RunsInOrder'
  <2>1. \A q \in Runs \ {r} : Unranked(q) BY DEF Unranked
  <2>2. \A q \in Runs \ {r} :
            InOrder(ledger'[q]) /\ UpTo(ledger'[q], StateRank(state'[q]))
    BY <2>1, InOrderKept DEF LedgerInv
  <2>3. QED BY <2>2 DEF RunsInOrder
<1>5. QED BY <1>3, <1>4 DEF LedgerInv

-----------------------------------------------------------------------------
(* The threads' own steps                                                  *)

\* The steps of a thread that leave the states alone and report no phase.
LEMMA LedgerQuietStep ==
    ASSUME TypeOK, LedgerInv, NEW t \in Threads, ThreadStep(t),
           ~CommitState(t), ~RecordState(t), ~CommitFailed(t), ~RecordFailed(t)
    PROVE  LedgerInv'
<1> USE DEF At, database
<1> DEFINE th == thread[t]
<1>1. th.pc # "Idle"
  BY DEF ThreadStep, AnnounceRequest, ClaimWork, LoadRun, RecordResume,
         CheckDeadline, RenewLease, CallAdapter, InPhaseCall, ReloadProbes,
         NextProbe, ProbeBoundary, SaveProbe, RecordProbe, FinishWork, FailWork
<1>2. th \in ThreadRecord BY <1>1, ThreadFacts
<1>3. \A q \in Runs : Unranked(q)
  <2>1. state' = state
    BY DEF ThreadStep, AnnounceRequest, ClaimWork, LoadRun, RecordResume,
           CheckDeadline, RenewLease, CallAdapter, ReloadProbes, NextProbe,
           ProbeBoundary, SaveProbe, RecordProbe, FinishWork, FailWork
  <2>2. \/ ledger' = ledger
        \/ \E r, e : Append_event(r, e) /\ e \in {"shutdown.requested",
                       "shutdown.recovery.resumed", "shutdown.probe.result"}
    BY DEF ThreadStep, AnnounceRequest, ClaimWork, LoadRun, RecordResume,
           CheckDeadline, RenewLease, CallAdapter, ReloadProbes, NextProbe,
           ProbeBoundary, SaveProbe, RecordProbe, FinishWork, FailWork
  <2>3. \A e \in {"shutdown.requested", "shutdown.recovery.resumed",
                  "shutdown.probe.result"} : EventRank(e) = 0 /\ e \in EventTypes
    BY EventRanks DEF EventTypes
  <2>4. QED BY <2>1, <2>2, <2>3 DEF Append_event, Unranked, TypeOK
<1>4. SUFFICES \E new : Become(t, new) /\ new.pc \notin {"Record", "RecordFailed"}
  <2>1. ASSUME NEW new, Become(t, new), new.pc \notin {"Record", "RecordFailed"}
        PROVE  LedgerInv'
    <3>1. Owing(new, state'[new.run], ledger'[new.run]) BY <2>1, OwingNothing
    <3>2. QED BY <1>3, <2>1, <3>1, LedgerBecome
  <2>2. QED BY <2>1
<1>5. CASE \/ Return(t)
           \/ \E pc \in {"Claim", "Load", "Check", "Call", "NextProbe", "CommitFailed"} :
                  GoTo(t, pc)
  <2>1. IdleThread.pc = "Idle" BY DEF IdleThread
  <2>2. \A pc : [th EXCEPT !.pc = pc].pc = pc BY <1>2 DEF ThreadRecord
  <2>3. QED BY <1>5, <2>1, <2>2 DEF Return, GoTo, Become
<1>6. CASE LoadRun(t)
  <2>1. [th EXCEPT !.pc = IF th.recovering THEN "Resume" ELSE "Check",
                   !.state = state[RunOf(t)],
                   !.found = SavedResults(RunOf(t))].pc \in {"Resume", "Check"}
    BY <1>2 DEF ThreadRecord
  <2>2. QED BY <1>6, <2>1 DEF LoadRun
<1>7. CASE ReloadProbes(t)
  <2>1. [th EXCEPT !.pc = "NextProbe",
                   !.found = SavedResults(RunOf(t))].pc = "NextProbe"
    BY <1>2 DEF ThreadRecord
  <2>2. QED BY <1>7, <2>1 DEF ReloadProbes
<1>8. CASE ProbeBoundary(t)
  <2>1. PICK k, result :
            Become(t, [th EXCEPT !.pc = "SaveProbe", !.kind = k, !.found[k] = result])
    BY <1>8 DEF ProbeBoundary
  <2>2. [th EXCEPT !.pc = "SaveProbe", !.kind = k, !.found[k] = result].pc
            = "SaveProbe"
    BY <1>2 DEF ThreadRecord
  <2>3. QED BY <2>1, <2>2
<1>9. CASE SaveProbe(t)
  <2>1. [th EXCEPT !.pc = "RecordProbe", !.kind = None].pc = "RecordProbe"
    BY <1>2 DEF ThreadRecord
  <2>2. QED BY <1>9, <2>1 DEF SaveProbe
<1>10. CASE CheckDeadline(t) \/ CallAdapter(t) \/ NextProbe(t)
  <2> DEFINE renewing == [th EXCEPT !.pc = "Renew"]
  <2>1. renewing.pc = "Renew" BY <1>2 DEF ThreadRecord
  <2>2. CheckDeadline(t) => th.state \in ShutdownStates
    BY ThreadFacts DEF CheckDeadline, ThreadType, ThreadRecord
  <2>3. \/ Become(t, renewing)
        \/ \E target, event : Become(t, Committing(th, target, event))
        \/ CheckDeadline(t) /\ Become(t, Dispatch(th, th.state))
    BY <1>10 DEF CheckDeadline, CallAdapter, NextProbe, Expiring, Advancing
  <2> HIDE DEF renewing, th
  <2>4. QED BY <1>2, <2>1, <2>2, <2>3, CommittingMoves, DispatchStays
<1>11. QED
  BY <1>5, <1>6, <1>7, <1>8, <1>9, <1>10
     DEF ThreadStep, AnnounceRequest, ClaimWork, RecordResume, RenewLease,
         RecordProbe, FinishWork, FailWork

\* The steps that store a state or report it.
LEMMA LedgerWritingStep ==
    ASSUME TypeOK, LeaseInv, StepInv, MaxStoreFaults = 0 => LifeInv, LedgerInv,
           NEW t \in Threads,
           \/ CommitState(t) \/ RecordState(t) \/ CommitFailed(t) \/ RecordFailed(t)
    PROVE  LedgerInv'
<1> USE DEF At, database
<1> DEFINE th == thread[t]
<1>1. th.pc \in {"Commit", "Record", "CommitFailed", "RecordFailed"}
  BY DEF CommitState, RecordState, CommitFailed, RecordFailed
<1>2. PICK r \in Runs : r = RunOf(t) BY <1>1, ThreadFacts
<1>3. /\ th \in ThreadRecord /\ th \in ThreadType /\ th.run = r /\ Acting(t, r)
  BY <1>1, <1>2, ThreadFacts DEF RunOf, Acting
<1> DEFINE s == state[r]
           events == ledger[r]
<1>4. /\ InStep(th, s, observed[r]) /\ Owing(th, s, events)
      /\ InOrder(events) /\ UpTo(events, StateRank(s))
      /\ MaxStoreFaults = 0 /\ th.pc \in Active => s \in Phases
  BY <1>1, <1>2 DEF StepInv, ThreadsInStep, LedgerInv, ThreadsOwing, RunsInOrder,
                      LifeInv, ThreadsOpen
<1>5. events \in Seq(EventTypes) /\ StateRank(s) \in 0 .. 5
  BY RankTypes DEF TypeOK
<1> HIDE DEF th, s, events
<1>6. ASSUME NEW target, NEW pc, Precedes(StateRank(s), StateRank(target)),
             state' = [state EXCEPT ![r] = target], ledger' = ledger, GoTo(t, pc)
      PROVE  LedgerInv'
  <2> DEFINE new == [th EXCEPT !.pc = pc]
  <2>1. new.pc = pc /\ new.run = r BY <1>3 DEF ThreadRecord
  <2>2. Become(t, new) BY <1>6 DEF GoTo, Become, th
  <2>3. /\ state'[r] = target /\ ledger'[r] = events
        /\ \A q \in Runs \ {r} : state'[q] = state[q] /\ ledger'[q] = ledger[q]
    BY <1>6 DEF TypeOK, events
  <2>4. Below(events, StateRank(target)) /\ UpTo(events, StateRank(target))
    BY <1>4, <1>5, <1>6, RankTypes DEF Below, UpTo, Precedes
  <2> HIDE DEF new
  <2>5. Owing(new, state'[r], ledger'[r])
    BY <2>3, <2>4 DEF Owing
  <2>6. InOrder(ledger'[r]) /\ UpTo(ledger'[r], StateRank(state'[r]))
    BY <1>4, <2>3, <2>4
  <2>7. QED BY <1>3, <2>1, <2>2, <2>3, <2>5, <2>6, LedgerWrite
<1>7. ASSUME NEW new, NEW e \in EventTypes, Become(t, new),
             new.pc # "Idle" => new.run = r /\ new.pc \notin {"Record", "RecordFailed"},
             state' = state, Append_event(r, e), EventRank(e) = StateRank(s),
             th.pc \in {"Record", "RecordFailed"}
      PROVE  LedgerInv'
  <2>1. /\ state'[r] = s /\ ledger'[r] = Append(events, e)
        /\ \A q \in Runs \ {r} : state'[q] = state[q] /\ ledger'[q] = ledger[q]
    BY <1>7 DEF Append_event, TypeOK, s, events
  <2>2. Below(events, EventRank(e)) BY <1>4, <1>7 DEF Owing
  <2>3. InOrder(Append(events, e)) BY <1>4, <1>5, <2>2, AppendedInOrder
  <2>4. UpTo(Append(events, e), StateRank(s))
    BY <1>4, <1>5, <1>7, AppendedUpTo
  <2>5. InOrder(ledger'[r]) /\ UpTo(ledger'[r], StateRank(state'[r]))
    BY <2>1, <2>3, <2>4
  <2>6. new.pc # "Idle" => new.run = r /\ Owing(new, state'[r], ledger'[r])
    BY <1>7, OwingNothing
  <2>7. QED BY <1>3, <1>7, <2>1, <2>5, <2>6, LedgerWrite
<1>8. CASE CommitState(t)
  <2>1. th.pc = "Commit" BY <1>8 DEF CommitState, th
  <2>2. Precedes(StateRank(s), StateRank(th.target))
    <3>1. CASE LawfulMove(s, observed[r], th.target)
      BY <3>1, MovesUp DEF Precedes
    <3>2. CASE ~LawfulMove(s, observed[r], th.target)
      <4>1. th.target = "UNKNOWN" /\ s \notin Phases
        BY <1>4, <2>1, <3>2 DEF InStep, LawfulMove
      <4>2. MaxStoreFaults # 0 BY <1>4, <2>1, <4>1 DEF Active
      <4>3. QED BY <1>5, <4>1, <4>2, FaultyOutcome DEF TerminalStates
    <3>3. QED BY <3>1, <3>2
  <2>3. /\ state' = [state EXCEPT ![r] = th.target] /\ ledger' = ledger
        /\ GoTo(t, "Record")
    BY <1>2, <1>8 DEF CommitState, th
  <2>4. QED BY <1>6, <2>2, <2>3
<1>9. CASE CommitFailed(t)
  <2>1. th.pc = "CommitFailed" BY <1>9 DEF CommitFailed, th
  <2>2. "FAILED" \in TerminalStates BY DEF TerminalStates
  <2>3. MaxStoreFaults = 0 => s \in Phases BY <1>4, <2>1 DEF Active
  <2>4. Precedes(StateRank(s), StateRank("FAILED"))
    <3>1. CASE s \in Phases BY <2>2, <3>1, StateRanks DEF Precedes
    <3>2. CASE MaxStoreFaults # 0 BY <1>5, <2>2, <3>2, FaultyOutcome
    <3>3. QED BY <2>3, <3>1, <3>2
  <2>5. /\ state' = [state EXCEPT ![r] = "FAILED"] /\ ledger' = ledger
        /\ GoTo(t, "RecordFailed")
    BY <1>2, <1>9 DEF CommitFailed
  <2>6. QED BY <1>6, <2>4, <2>5
<1>10. CASE RecordState(t)
  <2> DEFINE cleared == [th EXCEPT !.target = None, !.event = None]
             reload == [cleared EXCEPT !.pc = "Reload", !.state = "PROBING"]
  <2>1. th.pc = "Record" BY <1>10 DEF RecordState, th
  <2>2. /\ th.target = s /\ th.target \in ShutdownStates
        /\ th.event \in EventTypes /\ EventRank(th.event) = StateRank(s)
    BY <1>3, <1>4, <2>1 DEF InStep, ThreadType, ThreadRecord
  <2>3. /\ cleared \in ThreadRecord /\ cleared.run = r
        /\ reload.run = r /\ reload.pc = "Reload"
    BY <1>3 DEF ThreadRecord
  <2>4. /\ Become(t, IF th.target = "PROBING" THEN reload
                     ELSE Dispatch(cleared, th.target))
        /\ state' = state /\ Append_event(r, th.event)
    BY <1>2, <1>10 DEF RecordState, th
  <2> HIDE DEF cleared, reload
  <2>5. PICK new : /\ Become(t, new) /\ new.run = r
                   /\ new.pc \notin {"Record", "RecordFailed"}
    BY <2>2, <2>3, <2>4, DispatchStays
  <2>6. QED BY <1>7, <2>1, <2>2, <2>4, <2>5
<1>11. CASE RecordFailed(t)
  <2>1. th.pc = "RecordFailed" /\ IdleThread.pc = "Idle"
    BY <1>11 DEF RecordFailed, IdleThread, th
  <2>2. EventRank("shutdown.completed") = StateRank(s)
    BY <1>4, <2>1, EventRanks, StateRanks DEF InStep
  <2>3. /\ Become(t, IdleThread) /\ state' = state
        /\ Append_event(r, "shutdown.completed")
    BY <1>2, <1>11 DEF RecordFailed, Return
  <2>4. "shutdown.completed" \in EventTypes BY DEF EventTypes
  <2>5. QED BY <1>7, <2>1, <2>2, <2>3, <2>4
<1>12. QED BY <1>8, <1>9, <1>10, <1>11

-----------------------------------------------------------------------------
(* Requests, recovery, time, faults and restarts                           *)

LEMMA LedgerOtherStep ==
    ASSUME TypeOK, LeaseInv, StepInv, LedgerInv, Next,
           ~ \E t \in Threads : ThreadStep(t)
    PROVE  LedgerInv'
<1> USE DEF At, database, environment
<1>1. ASSUME NEW w \in Workers, NEW r \in Runs, NEW k \in Keys,
             RequestShutdown(w, r, k)
      PROVE  LedgerInv'
  <2> DEFINE th == NewThread(r, "Announce")
  <2>1. th.pc = "Announce" BY DEF NewThread, IdleThread
  <2>2. /\ Become(w, th) /\ ledger' = ledger /\ w \in Threads
        /\ state' = [state EXCEPT ![r] = "REQUESTED"]
        /\ key[r] = None
    BY <1>1 DEF RequestShutdown, Threads
  <2>3. state[r] = "RUNNING" BY <2>2 DEF StepInv, RequestedRuns
  <2> HIDE DEF th
  <2>4. StateRank("REQUESTED") = 0 /\ StateRank("RUNNING") = 0
    BY DEF StateRank, TerminalStates
  <2>5. thread'[w] = th /\ \A u \in Threads \ {w} : thread'[u] = thread[u]
    BY <2>2 DEF Become, TypeOK
  <2>6. \A q \in Runs : q # r => state'[q] = state[q]
    BY <2>2 DEF TypeOK
  <2>7. state'[r] = "REQUESTED" BY <2>2 DEF TypeOK
  <2>8. RunsInOrder'
    BY <2>2, <2>3, <2>4, <2>6, <2>7 DEF LedgerInv, RunsInOrder
  <2>9. ASSUME NEW u \in Threads, thread'[u].pc # "Idle"
        PROVE  Owing(thread'[u], state'[thread'[u].run], ledger'[thread'[u].run])
    <3>1. CASE u = w BY <2>1, <2>5, <3>1, OwingNothing
    <3>2. CASE u # w
      <4>1. thread'[u] = thread[u] /\ thread[u].pc # "Idle" BY <2>5, <2>9, <3>2
      <4>2. RunOf(u) \in Runs /\ RunOf(u) # r
        BY <2>2, <4>1, ThreadFacts DEF LeaseInv
      <4>3. Unranked(RunOf(u)) BY <2>2, <2>6, <4>2 DEF Unranked
      <4>4. QED BY <4>1, <4>3, OwingKept DEF LedgerInv, RunOf
    <3>3. QED BY <3>1, <3>2
  <2>10. ThreadsOwing' BY <2>9 DEF ThreadsOwing, RunOf
  <2>11. QED BY <2>8, <2>10 DEF LedgerInv
<1>2. ASSUME NEW t \in Threads, NEW th, Become(t, th),
             \A s, events : Owing(th, s, events), state' = state, ledger' = ledger
      PROVE  LedgerInv'
  <2>1. \A q \in Runs : Unranked(q) BY <1>2 DEF Unranked
  <2>2. QED BY <1>2, <2>1, LedgerBecome
<1>3. ASSUME NEW r \in Runs, RecoverExpired(r) PROVE LedgerInv'
  <2>1. "Commit" \in PCs BY DEF PCs
  <2>2. NewThread(r, "Commit") \in ThreadRecord BY <2>1, NewThreadType
  <2>3. \A s, events : Owing(Expiring(NewThread(r, "Commit")), s, events)
    BY <2>2, CommittingMoves, OwingNothing DEF Expiring
  <2>4. QED BY <1>2, <1>3, <2>3 DEF RecoverExpired, Threads
<1>4. ASSUME NEW r \in Runs, NEW w \in Workers, RecoverResumable(r, w)
      PROVE  LedgerInv'
  <2> DEFINE th == [NewThread(r, "Load") EXCEPT !.recovering = TRUE]
  <2>1. th.pc = "Load" BY DEF NewThread, IdleThread
  <2>2. /\ Become(w, th) /\ state' = state /\ ledger' = ledger /\ w \in Threads
    BY <1>4 DEF RecoverResumable, Threads
  <2> HIDE DEF th
  <2>3. \A s, events : Owing(th, s, events) BY <2>1, OwingNothing
  <2>4. QED BY <1>2, <2>2, <2>3
<1>5. ASSUME NEW t \in Threads, thread[t].pc # "Idle", GoTo(t, "Fail"),
             state' = state, ledger' = ledger
      PROVE  LedgerInv'
  <2> DEFINE th == [thread[t] EXCEPT !.pc = "Fail"]
  <2>1. th.pc = "Fail" BY <1>5, ThreadFacts DEF ThreadRecord
  <2>2. Become(t, th) BY <1>5 DEF GoTo, Become
  <2> HIDE DEF th
  <2>3. \A s, events : Owing(th, s, events) BY <2>1, OwingNothing
  <2>4. QED BY <1>2, <1>5, <2>2, <2>3
<1>6. ASSUME NEW t \in Threads, AdapterRaises(t) \/ StoreRaises(t) PROVE LedgerInv'
  <2>1. \A s, events : Owing(IdleThread, s, events)
    BY OwingNothing DEF IdleThread
  <2>2. /\ state' = state /\ ledger' = ledger
        /\ (thread[t].pc # "Idle" /\ GoTo(t, "Fail")) \/ Return(t)
    BY <1>6 DEF AdapterRaises, StoreRaises, TryBlock
  <2>3. QED BY <1>2, <1>5, <2>1, <2>2 DEF Return
<1>7. ASSUME state' = state, ledger' = ledger,
             thread' = thread \/ \A t \in Threads : thread'[t].pc = "Idle"
      PROVE  LedgerInv'
  BY <1>7 DEF LedgerInv, ThreadsOwing, RunsInOrder, RunOf
<1>8. CASE CrashRestart
  <2>1. \A t \in Threads : thread'[t].pc = "Idle"
    BY <1>8 DEF CrashRestart, IdleThread
  <2>2. QED BY <1>7, <1>8, <2>1 DEF CrashRestart
<1>9. CASE StartRound BY <1>7, <1>9 DEF StartRound
<1>10. ASSUME NEW r \in Runs, RecoverBusy(r) \/ PassDeadline(r) \/ LapseLease(r)
       PROVE  LedgerInv'
  BY <1>7, <1>10 DEF RecoverBusy, PassDeadline, LapseLease
<1>11. QED
  BY <1>1, <1>3, <1>4, <1>6, <1>8, <1>9, <1>10 DEF Next, RecoveryStep

-----------------------------------------------------------------------------
(* The theorems                                                            *)

LEMMA LedgerInit == Init => LedgerInv
<1> SUFFICES ASSUME Init PROVE LedgerInv OBVIOUS
<1>1. ThreadsOwing BY DEF Init, ThreadsOwing, IdleThread
<1>2. EventRank("agent.run.started") = 0 BY DEF EventRank
<1>3. RunsInOrder
  <2>1. \A r \in Runs : \A i \in DOMAIN ledger[r] : EventRank(ledger[r][i]) = 0
    BY <1>2 DEF Init
  <2>2. \A s : 0 <= StateRank(s) BY RankTypes
  <2>3. QED BY <2>1, <2>2 DEF RunsInOrder, InOrder, UpTo
<1>4. QED BY <1>1, <1>3 DEF LedgerInv

LEMMA LedgerStep ==
    ASSUME TypeOK, LeaseInv, StepInv, MaxStoreFaults = 0 => LifeInv, LedgerInv,
           [Next]_vars
    PROVE  LedgerInv'
<1>1. CASE \E t \in Threads : ThreadStep(t)
  BY <1>1, LedgerQuietStep, LedgerWritingStep
<1>2. CASE Next /\ ~ \E t \in Threads : ThreadStep(t)
  BY <1>2, LedgerOtherStep
<1>3. CASE UNCHANGED vars
  BY <1>3 DEF vars, LedgerInv, ThreadsOwing, RunsInOrder, RunOf
<1>4. QED BY <1>1, <1>2, <1>3

LEMMA LedgerInvariant ==
    ASSUME MaxOverruns = 0
    PROVE  Spec => []LedgerInv
<1>1. Spec => []LeaseInv BY LeaseInvariant
<1>2. Spec => []StepInv BY StepInvariant
<1>3. CASE MaxStoreFaults = 0
  <2>1. TypeOK /\ LeaseInv /\ StepInv /\ LifeInv /\ LedgerInv /\ [Next]_vars
            => LedgerInv'
    BY LedgerStep
  <2>2. Spec => []LifeInv BY <1>3, LifeInvariant
  <2>3. QED BY <1>1, <1>2, <2>1, <2>2, LedgerInit, TypeCorrect, PTL DEF Spec
<1>4. CASE MaxStoreFaults # 0
  <2>1. TypeOK /\ LeaseInv /\ StepInv /\ LedgerInv /\ [Next]_vars => LedgerInv'
    BY <1>4, LedgerStep
  <2>2. QED BY <1>1, <1>2, <2>1, LedgerInit, TypeCorrect, PTL DEF Spec
<1>5. QED BY <1>3, <1>4

\* Each phase is reported at most once, in order, and before any outcome.
PhasesBeforeOutcome ==
    \A r \in Runs : \A i, j \in DOMAIN ledger[r] :
        i < j /\ EventRank(ledger[r][i]) > 0 /\ EventRank(ledger[r][j]) \in 1 .. 4
            => EventRank(ledger[r][i]) < EventRank(ledger[r][j])

\* Whatever raises between the transactions of _transition, and however often
\* the process restarts there: no phase is reported twice, too late, or after
\* the shutdown is reported over. The except clause only adds outcomes.
THEOREM PhasesNeverRepeated ==
    ASSUME MaxOverruns = 0
    PROVE  Spec => []PhasesBeforeOutcome
<1>1. LedgerInv => PhasesBeforeOutcome
  <2> SUFFICES ASSUME LedgerInv, NEW r \in Runs,
                      NEW i \in DOMAIN ledger[r], NEW j \in DOMAIN ledger[r],
                      i < j, EventRank(ledger[r][i]) > 0,
                      EventRank(ledger[r][j]) \in 1 .. 4
               PROVE  EventRank(ledger[r][i]) < EventRank(ledger[r][j])
    BY DEF PhasesBeforeOutcome
  <2>1. EventRank(ledger[r][j]) > 0 /\ EventRank(ledger[r][j]) # 5 OBVIOUS
  <2>2. Precedes(EventRank(ledger[r][i]), EventRank(ledger[r][j]))
    BY <2>1 DEF LedgerInv, RunsInOrder, InOrder
  <2>3. QED BY <2>1, <2>2 DEF Precedes
<1>2. QED BY <1>1, LedgerInvariant, PTL

\* EvidenceInPhaseOrder: however often a shutdown is resumed, between whichever
\* two transactions of _transition, its evidence reports each phase at most
\* once and in order, and one outcome.
THEOREM PhasesReportedInOrder ==
    ASSUME MaxOverruns = 0, MaxStoreFaults = 0
    PROVE  Spec => []EvidenceInPhaseOrder
<1>1. LedgerInv => EvidenceInPhaseOrder
  BY DEF LedgerInv, RunsInOrder, InOrder, Precedes, EvidenceInPhaseOrder
<1>2. QED BY <1>1, LedgerInvariant, PTL

-----------------------------------------------------------------------------
(* What a restart or a transaction that raises costs                       *)

\* t has stored a result or the outcome of r that it has still to report.
Behind(t, r) ==
    /\ RunOf(t) = r
    /\ \/ thread[t].pc = "RecordProbe"
       \/ thread[t].pc \in {"Record", "RecordFailed"} /\ Ended(r) /\ ~Reported(r)

Pending(r) == \E t \in Threads : Behind(t, r)

\* The restarts and the failed transactions so far.
Losses == crashes + storeFaults

\* Each event that is missing is owed by the thread of the run, or went with
\* a thread that a restart or a failed transaction took from its path.
LossAt(r) ==
    /\ Reported(r) => Ended(r)
    /\ Stored(r) <= Recorded(r) + Losses + (IF Pending(r) THEN 1 ELSE 0)

LossInv == \A r \in Runs : LossAt(r)

LEMMA KindsFinite == IsFiniteSet(Kinds)
<1> DEFINE f == [i \in DOMAIN PROBE_KINDS |-> PROBE_KINDS[i]]
<1>1. f \in Surjection(DOMAIN PROBE_KINDS, Kinds)
  BY DEF Surjection, Kinds
<1>2. DOMAIN PROBE_KINDS = 1 .. Len(PROBE_KINDS) /\ Len(PROBE_KINDS) \in Nat
  BY ConfigAssumption, LenProperties
<1>3. IsFiniteSet(DOMAIN PROBE_KINDS)
  BY <1>2, FS_Interval, 1 \in Int, Len(PROBE_KINDS) \in Int
<1>4. QED BY <1>1, <1>3, FS_Surjection

LEMMA RowsFinite ==
    ASSUME TypeOK, NEW r \in Runs
    PROVE  IsFiniteSet(ProbeRows(r)) /\ Cardinality(ProbeRows(r)) \in Nat
<1> DEFINE Of(k) == {k} \X DOMAIN rows[r][k]
           Sets == {Of(k) : k \in Kinds}
           f == [k \in Kinds |-> Of(k)]
<1>1. f \in Surjection(Kinds, Sets) BY DEF Surjection
<1>2. IsFiniteSet(Sets) BY <1>1, KindsFinite, FS_Surjection
<1>3. ASSUME NEW k \in Kinds PROVE IsFiniteSet(Of(k))
  <2>1. rows[r][k] \in Seq(ProbeResults) BY DEF TypeOK
  <2>2. DOMAIN rows[r][k] = 1 .. Len(rows[r][k]) /\ Len(rows[r][k]) \in Nat
    BY <2>1, LenProperties
  <2>3. IsFiniteSet(DOMAIN rows[r][k])
    BY <2>2, FS_Interval, 1 \in Int, Len(rows[r][k]) \in Int
  <2>4. IsFiniteSet({k}) BY FS_Singleton
  <2>5. QED BY <2>3, <2>4, FS_Product
<1>4. \A T \in Sets : IsFiniteSet(T) BY <1>3
<1> HIDE DEF Sets
<1>5. IsFiniteSet(UNION Sets) BY <1>2, <1>4, FS_UNION
<1>6. QED BY <1>5, FS_CardinalityType DEF Sets, ProbeRows

LEMMA EventsFinite ==
    ASSUME TypeOK, NEW r \in Runs
    PROVE  IsFiniteSet(ProbeEvents(r)) /\ Cardinality(ProbeEvents(r)) \in Nat
<1>1. ledger[r] \in Seq(EventTypes) BY DEF TypeOK
<1>2. DOMAIN ledger[r] = 1 .. Len(ledger[r]) /\ Len(ledger[r]) \in Nat
  BY <1>1, LenProperties
<1>3. IsFiniteSet(DOMAIN ledger[r])
  BY <1>2, FS_Interval, 1 \in Int, Len(ledger[r]) \in Int
<1>4. ProbeEvents(r) \subseteq DOMAIN ledger[r] BY DEF ProbeEvents
<1>5. QED BY <1>3, <1>4, FS_Subset, FS_CardinalityType

\* One more row of a run, under its kind.
LEMMA OneMoreRow ==
    ASSUME TypeOK, NEW r \in Runs, NEW k \in Kinds, NEW result,
           rows'[r][k] = Append(rows[r][k], result),
           \A j \in Kinds \ {k} : rows'[r][j] = rows[r][j]
    PROVE  Cardinality(ProbeRows(r)') \in
               {Cardinality(ProbeRows(r)), Cardinality(ProbeRows(r)) + 1}
<1> DEFINE n == Len(rows[r][k]) + 1
<1>1. rows[r][k] \in Seq(ProbeResults) /\ Len(rows[r][k]) \in Nat
      /\ DOMAIN rows[r][k] = 1 .. Len(rows[r][k])
  BY LenProperties DEF TypeOK
<1>2. DOMAIN rows'[r][k] = DOMAIN rows[r][k] \cup {n}
  <2>1. DOMAIN Append(rows[r][k], result) = 1 .. n BY <1>1
  <2>2. QED BY <1>1, <2>1
<1>3. \A j \in Kinds : DOMAIN rows'[r][j] =
          DOMAIN rows[r][j] \cup (IF j = k THEN {n} ELSE {})
  BY <1>2
<1> HIDE DEF n
<1>4. ASSUME NEW x PROVE x \in ProbeRows(r)' <=> x \in ProbeRows(r) \cup {<<k, n>>}
  <2>1. x \in ProbeRows(r)' <=> \E j \in Kinds : x \in {j} \X DOMAIN rows'[r][j]
    BY DEF ProbeRows
  <2>2. x \in ProbeRows(r) <=> \E j \in Kinds : x \in {j} \X DOMAIN rows[r][j]
    BY DEF ProbeRows
  <2>3. QED BY <1>3, <2>1, <2>2
<1>5. ProbeRows(r)' = ProbeRows(r) \cup {<<k, n>>} BY <1>4
<1>6. QED BY <1>5, RowsFinite, FS_AddElement

\* One more event of a run: nothing reported is lost, and a result is one more.
LEMMA OneMoreEvent ==
    ASSUME TypeOK, NEW r \in Runs, NEW e, ledger'[r] = Append(ledger[r], e)
    PROVE  /\ Cardinality(ProbeEvents(r)') = Cardinality(ProbeEvents(r))
                  + (IF e = "shutdown.probe.result" THEN 1 ELSE 0)
           /\ Reported(r)' <=> Reported(r) \/ EventRank(e) = 5
<1> DEFINE n == Len(ledger[r]) + 1
<1>1. /\ ledger[r] \in Seq(EventTypes) /\ Len(ledger[r]) \in Nat
      /\ DOMAIN ledger[r] = 1 .. Len(ledger[r])
  BY LenProperties DEF TypeOK
<1>2. /\ DOMAIN ledger'[r] = 1 .. n /\ ledger'[r][n] = e
      /\ \A i \in 1 .. Len(ledger[r]) : ledger'[r][i] = ledger[r][i]
  BY <1>1
<1>3. Reported(r)' <=> Reported(r) \/ EventRank(e) = 5
  <2>1. Reported(r)' <=> \E i \in 1 .. n : EventRank(ledger'[r][i]) = 5
    BY <1>2 DEF Reported
  <2>2. Reported(r) <=> \E i \in 1 .. Len(ledger[r]) : EventRank(ledger[r][i]) = 5
    BY <1>1 DEF Reported
  <2>3. 1 .. n = 1 .. Len(ledger[r]) \cup {n} BY <1>1
  <2> HIDE DEF n
  <2>4. QED BY <1>2, <2>1, <2>2, <2>3
<1>4. ProbeEvents(r)' = ProbeEvents(r)
          \cup (IF e = "shutdown.probe.result" THEN {n} ELSE {})
  BY <1>1, <1>2 DEF ProbeEvents
<1>5. n \notin ProbeEvents(r) BY <1>1 DEF ProbeEvents
<1> HIDE DEF n
<1>6. CASE e = "shutdown.probe.result"
  <2>1. Cardinality(ProbeEvents(r) \cup {n}) = Cardinality(ProbeEvents(r)) + 1
    BY <1>5, EventsFinite, FS_AddElement
  <2>2. QED BY <1>3, <1>4, <1>6, <2>1
<1>7. CASE e # "shutdown.probe.result"
  BY <1>3, <1>4, <1>7, EventsFinite
<1>8. QED BY <1>6, <1>7

\* Beside the thread that acts on a run, nobody is behind.
LEMMA OnlyActorBehind ==
    ASSUME LeaseInv, NEW t \in Threads, NEW r \in Runs, Acting(t, r)
    PROVE  Pending(r) <=> Behind(t, r)
<1>1. \A u \in Threads \ {t} : ~Behind(u, r)
  BY Alone DEF Behind, Waiting
<1>2. QED BY <1>1 DEF Pending

-----------------------------------------------------------------------------
(* What every step stores and reports                                      *)

\* What is owed may only grow with what was spent, and the rest is arithmetic.
LEMMA BudgetKept ==
    ASSUME NEW stored \in Nat, NEW recorded \in Nat, NEW records \in Nat,
           NEW spent \in Nat, NEW spends \in Nat,
           NEW owed \in 0 .. 1, NEW owing \in 0 .. 1,
           records >= recorded, spends >= spent,
           owed <= owing \/ spends > spent,
           stored <= recorded + spent + owed
    PROVE  stored <= records + spends + owing
OBVIOUS

LEMMA LossKept ==
    ASSUME TypeOK, NEW r \in Runs, LossAt(r),
           rows'[r] = rows[r], Ended(r)' <=> Ended(r),
           \/ ledger'[r] = ledger[r]
           \/ \E e : EventRank(e) # 5 /\ ledger'[r] = Append(ledger[r], e),
           Losses \in Nat, Losses' \in Nat, Losses' >= Losses,
           Pending(r) => Pending(r)' \/ Losses' > Losses
    PROVE  LossAt(r)'
<1>1. ProbeRows(r)' = ProbeRows(r) BY DEF ProbeRows
<1>2. Cardinality(ProbeRows(r)) \in Nat /\ Cardinality(ProbeEvents(r)) \in Nat
  BY RowsFinite, EventsFinite
<1>3. /\ Reported(r)' <=> Reported(r)
      /\ Cardinality(ProbeEvents(r)') \in
             {Cardinality(ProbeEvents(r)), Cardinality(ProbeEvents(r)) + 1}
  <2>1. CASE ledger'[r] = ledger[r] BY <2>1 DEF Reported, ProbeEvents
  <2>2. ASSUME NEW e, EventRank(e) # 5, ledger'[r] = Append(ledger[r], e)
        PROVE  /\ Reported(r)' <=> Reported(r)
               /\ Cardinality(ProbeEvents(r)') \in
                      {Cardinality(ProbeEvents(r)), Cardinality(ProbeEvents(r)) + 1}
    BY <1>2, <2>2, OneMoreEvent
  <2>3. QED BY <2>1, <2>2
<1>4. Stored(r)' = Stored(r) /\ Stored(r) \in Nat
  BY <1>1, <1>2 DEF Stored
<1>5. Recorded(r)' >= Recorded(r) /\ Recorded(r) \in Nat /\ Recorded(r)' \in Nat
  BY <1>2, <1>3 DEF Recorded
<1> DEFINE owed == IF Pending(r) THEN 1 ELSE 0
           owing == IF Pending(r)' THEN 1 ELSE 0
<1>6. owed \in 0 .. 1 /\ owing \in 0 .. 1
  <2>1. owed = 0 \/ owed = 1 OBVIOUS
  <2>2. owing = 0 \/ owing = 1 OBVIOUS
  <2>3. QED BY <2>1, <2>2
<1>7. owed <= owing \/ Losses' > Losses
  <2>1. CASE ~Pending(r)
    <3>1. owed = 0 BY <2>1
    <3>2. QED BY <3>1, <1>6
  <2>2. CASE Pending(r)'
    <3>1. owing = 1 BY <2>2
    <3>2. QED BY <3>1, <1>6
  <2>3. QED BY <2>1, <2>2
<1>8. Stored(r)' <= Recorded(r)' + Losses' + owing
  <2>1. Stored(r) <= Recorded(r) + Losses + owed BY DEF LossAt
  <2> HIDE DEF owed, owing
  <2>2. QED BY <1>4, <1>5, <1>6, <1>7, <2>1, BudgetKept
<1>9. Reported(r)' => Ended(r)' BY <1>3 DEF LossAt
<1>10. QED BY <1>8, <1>9 DEF LossAt

\* The steps of t store nothing in other runs, and report nothing of them.
LEMMA LossElsewhere ==
    ASSUME TypeOK, NEW t \in Threads, ThreadStep(t),
           NEW q \in Runs, q # RunOf(t), LossAt(q)
    PROVE  LossAt(q)'
<1> USE DEF At, database, environment
<1>1. /\ rows'[q] = rows[q] /\ state'[q] = state[q] /\ ledger'[q] = ledger[q]
      /\ crashes' = crashes /\ storeFaults' = storeFaults
      /\ \A u \in Threads \ {t} : thread'[u] = thread[u]
  BY DEF ThreadStep, AnnounceRequest, ClaimWork, LoadRun, RecordResume,
         CheckDeadline, RenewLease, CallAdapter, CommitState, RecordState,
         ReloadProbes, NextProbe, ProbeBoundary, SaveProbe, RecordProbe,
         FinishWork, FailWork, CommitFailed, RecordFailed, Append_event,
         Become, GoTo, Return, TypeOK
<1>2. (Ended(q)' <=> Ended(q)) /\ (Reported(q)' <=> Reported(q))
  BY <1>1 DEF Ended, Reported
<1>3. ASSUME NEW u \in Threads, Behind(u, q) PROVE Behind(u, q)'
  BY <1>1, <1>2, <1>3 DEF Behind, RunOf
<1>4. crashes \in Nat /\ storeFaults \in Nat
  BY ConfigAssumption DEF TypeOK
<1>5. QED BY <1>1, <1>2, <1>3, <1>4, LossKept DEF Losses, Pending

\* A step of t from where nothing is owed, that stores nothing and reports no
\* outcome.
LEMMA LossQuiet ==
    ASSUME TypeOK, NEW t \in Threads, NEW r \in Runs, LossAt(r),
           thread[t].pc \notin {"RecordProbe", "Record", "RecordFailed"},
           \A u \in Threads \ {t} : thread'[u] = thread[u],
           rows'[r] = rows[r], Ended(r)' <=> Ended(r),
           \/ ledger'[r] = ledger[r]
           \/ \E e : EventRank(e) # 5 /\ ledger'[r] = Append(ledger[r], e),
           crashes' = crashes, storeFaults' = storeFaults
    PROVE  LossAt(r)'
<1>1. Reported(r)' <=> Reported(r)
  BY OneMoreEvent DEF Reported
<1>2. ASSUME NEW u \in Threads, Behind(u, r) PROVE Behind(u, r)'
  <2>1. u # t /\ thread'[u] = thread[u] BY <1>2 DEF Behind
  <2>2. QED BY <1>1, <1>2, <2>1 DEF Behind, RunOf
<1>3. crashes \in Nat /\ storeFaults \in Nat
  BY ConfigAssumption DEF TypeOK
<1>4. QED BY <1>2, <1>3, LossKept DEF Losses, Pending

\* What t does to its own run.
LEMMA LossThreadStep ==
    ASSUME TypeOK, LeaseInv, StepInv, NEW t \in Threads, ThreadStep(t),
           NEW r \in Runs, r = RunOf(t), LossAt(r)
    PROVE  LossAt(r)'
<1> USE DEF At, database, environment
<1> DEFINE th == thread[t]
<1>1. /\ crashes' = crashes /\ storeFaults' = storeFaults
      /\ \A u \in Threads \ {t} : thread'[u] = thread[u]
  BY DEF ThreadStep, AnnounceRequest, ClaimWork, LoadRun, RecordResume,
         CheckDeadline, RenewLease, CallAdapter, CommitState, RecordState,
         ReloadProbes, NextProbe, ProbeBoundary, SaveProbe, RecordProbe,
         FinishWork, FailWork, CommitFailed, RecordFailed,
         Become, GoTo, Return, TypeOK
<1>2. /\ Cardinality(ProbeRows(r)) \in Nat /\ Cardinality(ProbeEvents(r)) \in Nat
      /\ crashes \in Nat /\ storeFaults \in Nat
  BY RowsFinite, EventsFinite, ConfigAssumption DEF TypeOK
<1>3. CASE \/ AnnounceRequest(t) \/ ClaimWork(t) \/ LoadRun(t) \/ RecordResume(t)
           \/ CheckDeadline(t) \/ RenewLease(t) \/ CallAdapter(t)
           \/ ReloadProbes(t) \/ NextProbe(t) \/ ProbeBoundary(t)
           \/ FinishWork(t) \/ FailWork(t)
  <2>1. /\ th.pc \notin {"RecordProbe", "Record", "RecordFailed"}
        /\ rows' = rows /\ state' = state
        /\ \/ ledger' = ledger
           \/ \E e \in {"shutdown.requested", "shutdown.recovery.resumed"} :
                  Append_event(r, e)
    BY <1>3
       DEF AnnounceRequest, ClaimWork, LoadRun, RecordResume, CheckDeadline,
           RenewLease, CallAdapter, InPhaseCall, ReloadProbes, NextProbe,
           ProbeBoundary, FinishWork, FailWork
  <2>2. \/ ledger'[r] = ledger[r]
        \/ \E e : EventRank(e) # 5 /\ ledger'[r] = Append(ledger[r], e)
    BY <2>1, EventRanks DEF Append_event, TypeOK
  <2>3. Ended(r)' <=> Ended(r) BY <2>1 DEF Ended
  <2>4. QED BY <1>1, <2>1, <2>2, <2>3, LossQuiet
<1>4. CASE \/ SaveProbe(t) \/ RecordProbe(t) \/ CommitState(t) \/ CommitFailed(t)
           \/ RecordState(t) \/ RecordFailed(t)
  <2>1. /\ th.pc \in {"SaveProbe", "RecordProbe", "Commit", "CommitFailed",
                      "Record", "RecordFailed"}
        /\ th \in ThreadRecord /\ th.run = r
    BY <1>4, ThreadFacts
       DEF SaveProbe, RecordProbe, CommitState, CommitFailed, RecordState,
           RecordFailed, RunOf
  <2>2. InStep(th, state[r], observed[r])
    BY <2>1 DEF StepInv, ThreadsInStep, RunOf
  <2>3. Pending(r) <=> Behind(t, r)
    <3>1. Acting(t, r) BY <2>1 DEF Acting, RunOf
    <3>2. QED BY <3>1, OnlyActorBehind
  <2>4. ASSUME NEW pc, GoTo(t, pc), pc \in {"Record", "RecordFailed"}, Ended(r)',
               ~Reported(r)'
        PROVE  Pending(r)'
    <3>1. thread'[t] = [th EXCEPT !.pc = pc] BY <2>4 DEF GoTo, TypeOK
    <3>2. thread'[t].pc = pc /\ thread'[t].run = r BY <2>1, <3>1 DEF ThreadRecord
    <3>3. QED BY <2>4, <3>2 DEF Pending, Behind, RunOf
  <2>5. CASE SaveProbe(t)
    <3> DEFINE k == th.kind
               new == [th EXCEPT !.pc = "RecordProbe", !.kind = None]
    <3>1. /\ th.pc = "SaveProbe" /\ Become(t, new) /\ state' = state
          /\ ledger' = ledger
          /\ rows' = [rows EXCEPT ![r][k] = Append(@, th.found[k])]
      BY <2>5 DEF SaveProbe
    <3>2. k \in Kinds BY <3>1, ThreadFacts DEF ThreadType, ThreadRecord
    <3>3. /\ rows'[r][k] = Append(rows[r][k], th.found[k])
          /\ \A j \in Kinds \ {k} : rows'[r][j] = rows[r][j]
      BY <3>1, <3>2 DEF TypeOK
    <3>4. Cardinality(ProbeRows(r)') \in
              {Cardinality(ProbeRows(r)), Cardinality(ProbeRows(r)) + 1}
      BY <3>2, <3>3, OneMoreRow
    <3>5. ~Pending(r) BY <2>3, <3>1 DEF Behind
    <3>6. Pending(r)'
      <4>1. new.pc = "RecordProbe" /\ new.run = r BY <2>1 DEF ThreadRecord
      <4>2. thread'[t] = new BY <3>1 DEF Become, TypeOK
      <4>3. QED BY <4>1, <4>2 DEF Pending, Behind, RunOf
    <3>7. (Ended(r)' <=> Ended(r)) /\ (Reported(r)' <=> Reported(r))
          /\ Cardinality(ProbeEvents(r)') = Cardinality(ProbeEvents(r))
      BY <3>1 DEF Ended, Reported, ProbeEvents
    <3>8. QED
      BY <1>1, <1>2, <3>4, <3>5, <3>6, <3>7 DEF LossAt, Losses, Stored, Recorded
  <2>6. CASE RecordProbe(t)
    <3>1. /\ ledger'[r] = Append(ledger[r], "shutdown.probe.result")
          /\ rows' = rows /\ state' = state
      BY <2>6 DEF RecordProbe, Append_event, TypeOK
    <3>2. /\ Cardinality(ProbeEvents(r)') = Cardinality(ProbeEvents(r)) + 1
          /\ Reported(r)' <=> Reported(r)
      BY <3>1, OneMoreEvent, EventRanks
    <3>3. (Ended(r)' <=> Ended(r)) /\ ProbeRows(r)' = ProbeRows(r)
      BY <3>1 DEF Ended, ProbeRows
    <3>4. QED BY <1>1, <1>2, <3>2, <3>3 DEF LossAt, Losses, Stored, Recorded
  <2>7. CASE CommitState(t) \/ CommitFailed(t)
    <3>1. /\ th.pc \in {"Commit", "CommitFailed"}
          /\ rows' = rows /\ ledger' = ledger
          /\ \E pc \in {"Record", "RecordFailed"} : GoTo(t, pc)
      BY <2>7 DEF CommitState, CommitFailed
    <3>2. Ended(r) => Ended(r)'
      <4>1. CASE CommitFailed(t)
        BY <4>1 DEF CommitFailed, Ended, TerminalStates, TypeOK
      <4>2. CASE CommitState(t)
        <5>1. th.pc = "Commit" /\ state'[r] = th.target
          BY <4>2 DEF CommitState, TypeOK
        <5>2. state[r] \in TerminalStates => th.target = "UNKNOWN"
          BY <2>2, <5>1, MoveTarget, StateFacts DEF InStep
        <5>3. QED BY <5>1, <5>2 DEF Ended, TerminalStates
      <4>3. QED BY <2>7, <4>1, <4>2
    <3>3. ~Pending(r) BY <2>3, <3>1 DEF Behind
    <3>4. /\ Reported(r)' <=> Reported(r)
          /\ Cardinality(ProbeEvents(r)') = Cardinality(ProbeEvents(r))
          /\ ProbeRows(r)' = ProbeRows(r)
      BY <3>1 DEF Reported, ProbeEvents, ProbeRows
    <3>5. ~Ended(r) /\ Ended(r)' => Pending(r)'
      BY <2>4, <3>1, <3>4 DEF LossAt, Losses
    <3>6. QED
      BY <1>1, <1>2, <3>2, <3>3, <3>4, <3>5 DEF LossAt, Losses, Stored, Recorded
  <2>8. CASE RecordState(t) \/ RecordFailed(t)
    <3> DEFINE e == IF th.pc = "Record" THEN th.event ELSE "shutdown.completed"
    <3>1. /\ th.pc \in {"Record", "RecordFailed"}
          /\ rows' = rows /\ state' = state /\ Append_event(r, e)
      BY <2>8 DEF RecordState, RecordFailed
    <3>2. EventRank(e) = StateRank(state[r])
      BY <2>2, <3>1, EventRanks, StateRanks DEF InStep
    <3>3. ledger'[r] = Append(ledger[r], e)
      BY <3>1 DEF Append_event, TypeOK
    <3> HIDE DEF e
    <3>4. (Ended(r)' <=> Ended(r)) /\ ProbeRows(r)' = ProbeRows(r)
      BY <3>1 DEF Ended, ProbeRows
    <3>5. EventRank(e) = 5 <=> Ended(r)
      BY <3>2, StateRanks DEF StateRank, Ended
    <3>6. CASE Ended(r)
      <4>1. /\ Cardinality(ProbeEvents(r)') = Cardinality(ProbeEvents(r))
            /\ Reported(r)'
        BY <1>2, <3>3, <3>5, <3>6, OneMoreEvent, EventRanks
      <4>2. Reported(r) => ~Pending(r) BY <2>3, <3>1 DEF Behind
      <4>3. QED
        BY <1>1, <1>2, <3>4, <3>6, <4>1, <4>2 DEF LossAt, Losses, Stored, Recorded
    <3>7. CASE ~Ended(r)
      <4>1. ~Pending(r) BY <2>3, <3>1, <3>7 DEF Behind
      <4>2. QED BY <1>1, <1>2, <3>1, <3>3, <3>4, <3>5, <3>7, <4>1, LossKept DEF Losses
    <3>8. QED BY <3>6, <3>7
  <2>9. QED BY <1>4, <2>5, <2>6, <2>7, <2>8
<1>5. QED BY <1>3, <1>4 DEF ThreadStep

LEMMA LossOtherStep ==
    ASSUME TypeOK, StepInv, Next, ~ \E t \in Threads : ThreadStep(t),
           NEW r \in Runs, LossAt(r)
    PROVE  LossAt(r)'
<1> USE DEF At, database, environment
<1>1. rows' = rows /\ ledger' = ledger
  BY DEF Next, RecoveryStep, RequestShutdown, StartRound, RecoverBusy,
         RecoverExpired, RecoverResumable, PassDeadline, LapseLease,
         AdapterRaises, StoreRaises, CrashRestart
<1>2. ASSUME NEW t \in Threads,
             thread[t].pc \notin {"RecordProbe", "Record", "RecordFailed"},
             \A u \in Threads \ {t} : thread'[u] = thread[u],
             Ended(r)' <=> Ended(r), crashes' = crashes, storeFaults' = storeFaults
      PROVE  LossAt(r)'
  BY <1>1, <1>2, LossQuiet
<1>3. ASSUME NEW w \in Workers, NEW q \in Runs, NEW k \in Keys,
             RequestShutdown(w, q, k)
      PROVE  LossAt(r)'
  <2>1. /\ w \in Threads /\ thread[w].pc = "Idle" /\ key[q] = None
        /\ \A u \in Threads \ {w} : thread'[u] = thread[u]
        /\ state' = [state EXCEPT ![q] = "REQUESTED"]
        /\ crashes' = crashes /\ storeFaults' = storeFaults
    BY <1>3 DEF RequestShutdown, Threads, Become, TypeOK
  <2>2. state[q] = "RUNNING" BY <2>1 DEF StepInv, RequestedRuns
  <2>3. Ended(r)' <=> Ended(r)
    BY <2>1, <2>2 DEF Ended, TerminalStates, TypeOK
  <2>4. QED BY <1>2, <2>1, <2>3
<1>4. ASSUME NEW q \in Runs,
             RecoverExpired(q) \/ \E w \in Workers : RecoverResumable(q, w)
      PROVE  LossAt(r)'
  <2>1. PICK t \in Threads : /\ thread[t].pc = "Idle"
                             /\ \A u \in Threads \ {t} : thread'[u] = thread[u]
    BY <1>4 DEF RecoverExpired, RecoverResumable, RecoverRun, Threads, Become, TypeOK
  <2>2. state' = state /\ crashes' = crashes /\ storeFaults' = storeFaults
    BY <1>4 DEF RecoverExpired, RecoverResumable
  <2>3. QED BY <1>2, <2>1, <2>2 DEF Ended
<1>5. ASSUME NEW t \in Threads, AdapterRaises(t) PROVE LossAt(r)'
  BY <1>2, <1>5 DEF AdapterRaises, GoTo, TypeOK, Ended
<1>6. CASE CrashRestart \/ \E t \in Threads : StoreRaises(t)
  <2>1. /\ state' = state
        /\ \/ crashes' = crashes + 1 /\ storeFaults' = storeFaults
           \/ crashes' = crashes /\ storeFaults' = storeFaults + 1
    BY <1>6 DEF CrashRestart, StoreRaises
  <2>2. crashes \in Nat /\ storeFaults \in Nat
    BY ConfigAssumption DEF TypeOK
  <2>3. QED BY <1>1, <2>1, <2>2, LossKept DEF Losses, Ended
<1>7. CASE StartRound \/ \E q \in Runs :
               RecoverBusy(q) \/ PassDeadline(q) \/ LapseLease(q)
  <2>1. /\ state' = state /\ thread' = thread
        /\ crashes' = crashes /\ storeFaults' = storeFaults
    BY <1>7 DEF StartRound, RecoverBusy, PassDeadline, LapseLease
  <2>2. Pending(r) => Pending(r)'
    BY <1>1, <2>1 DEF Pending, Behind, RunOf, Ended, Reported
  <2>3. crashes \in Nat /\ storeFaults \in Nat
    BY ConfigAssumption DEF TypeOK
  <2>4. QED BY <1>1, <2>1, <2>2, <2>3, LossKept DEF Losses, Ended
<1>8. QED
  BY <1>3, <1>4, <1>5, <1>6, <1>7 DEF Next, RecoveryStep

\* EvidenceLossBounded: of the results and the outcome that _orchestrate has
\* stored, the evidence of a run at rest lacks at most one for each restart and
\* each transaction that raised.
THEOREM LossIsBounded ==
    ASSUME MaxOverruns = 0
    PROVE  Spec => []EvidenceLossBounded
<1>1. Init => LossInv
  <2> SUFFICES ASSUME Init, NEW r \in Runs PROVE LossAt(r)
    BY DEF LossInv
  <2>1. ProbeRows(r) = {} BY DEF Init, ProbeRows
  <2>2. TypeOK BY TypeInit
  <2>3. Cardinality(ProbeRows(r)) = 0 BY <2>1, FS_EmptySet
  <2>4. Cardinality(ProbeEvents(r)) \in Nat BY <2>2, EventsFinite
  <2>5. ~Ended(r) BY StateFacts DEF Init, Ended
  <2>6. ~Reported(r)
    <3>1. EventRank("agent.run.started") = 0 BY DEF EventRank
    <3>2. ledger[r] = <<"agent.run.started">> BY DEF Init
    <3>3. QED BY <3>1, <3>2 DEF Reported
  <2>7. QED BY <2>3, <2>4, <2>5, <2>6 DEF Init, LossAt, Losses, Stored, Recorded
<1>2. TypeOK /\ LeaseInv /\ StepInv /\ LossInv /\ [Next]_vars => LossInv'
  <2> SUFFICES ASSUME TypeOK, LeaseInv, StepInv, LossInv, [Next]_vars, NEW r \in Runs
               PROVE  LossAt(r)'
    BY DEF LossInv
  <2>1. LossAt(r) BY DEF LossInv
  <2>2. CASE \E t \in Threads : ThreadStep(t)
    BY <2>1, <2>2, LossThreadStep, LossElsewhere
  <2>3. CASE Next /\ ~ \E t \in Threads : ThreadStep(t)
    BY <2>1, <2>3, LossOtherStep
  <2>4. CASE UNCHANGED vars
    BY <2>1, <2>4
       DEF vars, LossAt, Losses, Stored, Recorded, ProbeRows, ProbeEvents, Ended,
           Reported, Pending, Behind, RunOf
  <2>5. QED BY <2>2, <2>3, <2>4
<1>3. TypeOK /\ LossInv => EvidenceLossBounded
  <2> SUFFICES ASSUME TypeOK, LossInv, NEW r \in Runs, \A t \in Threads : ~Acting(t, r)
               PROVE  Stored(r) <= Recorded(r) + crashes + storeFaults
    BY DEF EvidenceLossBounded
  <2>1. ~Pending(r) BY DEF Pending, Behind, Acting
  <2>2. Cardinality(ProbeEvents(r)) \in Nat /\ crashes \in Nat /\ storeFaults \in Nat
    BY EventsFinite, ConfigAssumption DEF TypeOK
  <2>3. Recorded(r) \in Nat BY <2>2 DEF Recorded
  <2>4. Stored(r) <= Recorded(r) + Losses + 0 BY <2>1 DEF LossInv, LossAt
  <2>5. QED BY <2>2, <2>3, <2>4 DEF Losses
<1>4. Spec => []LeaseInv BY LeaseInvariant
<1>5. Spec => []StepInv BY StepInvariant
<1>6. QED BY <1>1, <1>2, <1>3, <1>4, <1>5, TypeCorrect, PTL DEF Spec

=============================================================================
