------------------------ MODULE ShutdownOrchestrator ------------------------
(***************************************************************************)
(* ControlPlane's shutdown machinery (asv/service.py): the threads that    *)
(* request a shutdown and orchestrate it, the recovery worker, the lease   *)
(* in shutdown_work that is meant to keep one worker per run, and the rows *)
(* they share in SQLite.                                                   *)
(*                                                                         *)
(* Store.connection() holds one lock for the length of a transaction, so   *)
(* an action is one transaction, or one call of the adapter between two    *)
(* transactions. A thread's locals survive from one action to the next and *)
(* may be stale by then.                                                   *)
(*                                                                         *)
(* Time is two facts about a run: its deadline has passed (late), its      *)
(* lease has expired (work.lapsed).                                        *)
(***************************************************************************)
EXTENDS ShutdownDomain, Naturals, Sequences, FiniteSets

CONSTANTS
    Runs,           \* the runs of the registry
    Keys,           \* idempotency keys a requester may present
    PROBE_KINDS,    \* the kinds to probe, as a sequence: the probing order
    Workers,        \* thread slots for requests and their orchestration
    Recovery,       \* the asv-recovery thread
    None,           \* SQL NULL, Python None, a missing dictionary key
    Dead,           \* the lease owner id of a thread that is gone
    AdapterFaults,  \* may an adapter operation raise?
    MaxOverruns,    \* bound on the leases that expire under a live thread
    MaxStoreFaults, \* bound on the transactions that raise
    MaxCrashes      \* bound on the restarts of the process

Kinds == {PROBE_KINDS[i] : i \in DOMAIN PROBE_KINDS}
Threads == Workers \cup {Recovery}

EventTypes ==
    {"agent.run.started", "shutdown.requested", "shutdown.recovery.resumed",
     "shutdown.fenced", "shutdown.process.stop.sent", "agent.child.discovered",
     "shutdown.probe.requested", "shutdown.probe.result", "shutdown.completed",
     "shutdown.recovery.deadline.exceeded"}

ASSUME ConfigAssumption ==
    /\ PROBE_KINDS \in Seq(Kinds)
    /\ PROBE_KINDS # << >>
    /\ MaxOverruns \in Nat
    /\ AdapterFaults \in BOOLEAN
    /\ MaxStoreFaults \in Nat
    /\ MaxCrashes \in Nat

ASSUME NamesAssumption ==
    /\ Recovery \notin Workers
    /\ Dead \notin Threads \cup {None}
    /\ None \notin Runs \cup Keys \cup Kinds \cup Threads
    /\ None \notin ProbeResults \cup ShutdownStates \cup EventTypes

VARIABLES
    key,         \* run.shutdown_idempotency_key, None until requested
    state,       \* run.state
    late,        \* deadline_at has passed
    work,        \* the run's shutdown_work row: status, owner, lapsed
    rows,        \* the results of the run's probe rows, per kind
    ledger,      \* the event types of the run's evidence, in seq order
    effects,     \* the adapter operations that took effect on the workload
    thread,      \* program counter and locals of each thread
    batch,       \* rows the recovery round has still to handle
    overruns,    \* leases that expired while their thread lived
    storeFaults, \* transactions that raised so far
    crashes      \* restarts so far

vars == <<key, state, late, work, rows, ledger, effects, thread, batch,
          overruns, storeFaults, crashes>>
database == <<key, state, late, work, rows, ledger>>
environment == <<overruns, storeFaults, crashes>>

-----------------------------------------------------------------------------
(* Threads                                                                 *)

PCs == {"Idle", "Announce", "Claim", "Load", "Resume", "Check", "Renew",
        "Call", "Commit", "Record", "Reload", "NextProbe", "SaveProbe",
        "RecordProbe", "Finish", "Fail", "CommitFailed", "RecordFailed"}

IdleThread == [pc |-> "Idle", run |-> None, recovering |-> FALSE,
               state |-> None, target |-> None, event |-> None,
               kind |-> None, found |-> [k \in Kinds |-> None]]

NewThread(r, pc) == [IdleThread EXCEPT !.run = r, !.pc = pc]

\* Mutant: the new state is left as it was.
CommittingNothing(th, target, event) ==
    [th EXCEPT !.pc = "Commit", !.event = event]

\* A thread whose next transaction is _transition(run, target, event).
Committing(th, target, event) ==
    [th EXCEPT !.pc = "Commit", !.target = target, !.event = event]

Expiring(th) == Committing(th, "UNKNOWN", "shutdown.recovery.deadline.exceeded")

\* What the adapter does in a phase, and the event of the commit after it.
PhaseOperation == [REQUESTED |-> "fence", FENCING |-> "stop_process",
                   PROCESS_STOP_SENT |-> "discover_children"]
Operations == {"fence", "stop_process", "discover_children"}
PhaseEvent == [FENCING |-> "shutdown.fenced",
               PROCESS_STOP_SENT |-> "shutdown.process.stop.sent",
               CHILD_DISCOVERY |-> "agent.child.discovered",
               PROBING |-> "shutdown.probe.requested"]

Advancing(th, phase) ==
    Committing(th, NextPhase[phase], PhaseEvent[NextPhase[phase]])

\* The chain of `if state == ...` in _orchestrate: where the thread goes on
\* when its local `state` is s.
Dispatch(th, s) ==
    LET at == [th EXCEPT !.state = s]
    IN  CASE s \in DOMAIN PhaseOperation -> [at EXCEPT !.pc = "Renew"]
          [] s = "CHILD_DISCOVERY"       -> Advancing(at, s)
          [] s = "PROBING"               -> [at EXCEPT !.pc = "NextProbe"]
          [] s \in TerminalStates        -> [at EXCEPT !.pc = "Finish"]
          [] OTHER                       -> [at EXCEPT !.pc = "Fail"]

Become(t, th) == thread' = [thread EXCEPT ![t] = th]
GoTo(t, pc) == thread' = [thread EXCEPT ![t].pc = pc]
Return(t) == Become(t, IdleThread)

At(t, pc) == thread[t].pc = pc
RunOf(t) == thread[t].run

Append_event(r, event) == ledger' = [ledger EXCEPT ![r] = Append(@, event)]

-----------------------------------------------------------------------------
(* request_shutdown                                                        *)

Init ==
    /\ key = [r \in Runs |-> None]
    /\ state = [r \in Runs |-> "RUNNING"]
    /\ late = [r \in Runs |-> FALSE]
    /\ work = [r \in Runs |-> [status |-> "NONE", owner |-> None, lapsed |-> FALSE]]
    /\ rows = [r \in Runs |-> [k \in Kinds |-> << >>]]
    /\ ledger = [r \in Runs |-> <<"agent.run.started">>]
    /\ effects = [r \in Runs |-> {}]
    /\ thread = [t \in Threads |-> IdleThread]
    /\ batch = {}
    /\ overruns = 0
    /\ storeFaults = 0
    /\ crashes = 0

\* The first request for a run. Any later one returns the stored receipt
\* (same key) or ConflictError (another key) and changes nothing.
RequestShutdown(w, r, k) ==
    /\ At(w, "Idle")
    /\ key[r] = None
    /\ key' = [key EXCEPT ![r] = k]
    /\ state' = [state EXCEPT ![r] = "REQUESTED"]
    /\ work' = [work EXCEPT ![r].status = "PENDING"]
    /\ Become(w, NewThread(r, "Announce"))
    /\ UNCHANGED <<late, rows, ledger, effects, batch, environment>>

\* _append_event(shutdown.requested), then the orchestrating thread starts.
AnnounceRequest(t) ==
    /\ At(t, "Announce")
    /\ Append_event(RunOf(t), "shutdown.requested")
    /\ GoTo(t, "Claim")
    /\ UNCHANGED <<key, state, late, work, rows, effects, batch, environment>>

-----------------------------------------------------------------------------
(* The lease                                                               *)

\* Mutant: claims work whoever holds its lease.
ClaimableAlways(r) == work[r].status # "COMPLETE"

Claimable(r) == /\ work[r].status # "COMPLETE"
                /\ work[r].owner = None \/ work[r].lapsed

Claimed(owner) == [status |-> "RUNNING", owner |-> owner, lapsed |-> FALSE]

ClaimWork(t) ==
    LET r == RunOf(t) IN
    /\ At(t, "Claim")
    /\ IF Claimable(r)
       THEN work' = [work EXCEPT ![r] = Claimed(t)] /\ GoTo(t, "Load")
       ELSE work' = work /\ Return(t)
    /\ UNCHANGED <<key, state, late, rows, ledger, effects, batch, environment>>

\* Mutant: the lease is released, the work left PENDING.
CompletedAsPending(t) ==
    LET r == RunOf(t)
    IN  IF work[r].owner = t
        THEN [work EXCEPT ![r].status = "PENDING", ![r].owner = None]
        ELSE work

\* _finish_shutdown_work and _fail_shutdown_work: WHERE lease_owner=?.
Completed(t) ==
    LET r == RunOf(t)
    IN  IF work[r].owner = t
        THEN [work EXCEPT ![r] = [status |-> "COMPLETE", owner |-> None,
                                  lapsed |-> FALSE]]
        ELSE work

FinishWork(t) ==
    /\ At(t, "Finish")
    /\ work' = Completed(t)
    /\ Return(t)
    /\ UNCHANGED <<key, state, late, rows, ledger, effects, batch, environment>>

\* The update matches no row when the lease went to another owner; the
\* caller does not look.
RenewLease(t) ==
    LET r == RunOf(t) IN
    /\ At(t, "Renew")
    /\ work' = [work EXCEPT ![r].lapsed = @ /\ work[r].owner # t]
    /\ GoTo(t, "Call")
    /\ UNCHANGED <<key, state, late, rows, ledger, effects, batch, environment>>

-----------------------------------------------------------------------------
(* _orchestrate: resuming at the persisted phase                           *)

\* Mutant: a resumed shutdown starts its probes over.
SavedResultsForgotten(r) == [k \in Kinds |-> None]

\* existing = {probe["kind"]: result}: the last row of a kind wins.
SavedResults(r) ==
    [k \in Kinds |-> IF rows[r][k] = << >> THEN None
                     ELSE rows[r][k][Len(rows[r][k])]]

LoadRun(t) ==
    LET r == RunOf(t) IN
    /\ At(t, "Load")
    /\ Become(t, [thread[t] EXCEPT
            !.pc = IF thread[t].recovering THEN "Resume" ELSE "Check",
            !.state = state[r],
            !.found = SavedResults(r)])
    /\ UNCHANGED <<database, effects, batch, environment>>

RecordResume(t) ==
    /\ At(t, "Resume")
    /\ Append_event(RunOf(t), "shutdown.recovery.resumed")
    /\ GoTo(t, "Check")
    /\ UNCHANGED <<key, state, late, work, rows, effects, batch, environment>>

CheckDeadline(t) ==
    /\ At(t, "Check")
    /\ Become(t, IF late[RunOf(t)] THEN Expiring(thread[t])
                 ELSE Dispatch(thread[t], thread[t].state))
    /\ UNCHANGED <<database, effects, batch, environment>>

-----------------------------------------------------------------------------
(* _orchestrate: fence, stop, discover                                     *)

InPhaseCall(t) == At(t, "Call") /\ thread[t].state \in DOMAIN PhaseOperation

CallAdapter(t) ==
    LET phase == thread[t].state IN
    /\ InPhaseCall(t)
    /\ effects' = [effects EXCEPT ![RunOf(t)] = @ \cup {PhaseOperation[phase]}]
    /\ Become(t, Advancing(thread[t], phase))
    /\ UNCHANGED <<database, batch, environment>>

\* The operation raises, before or after it took effect.
AdapterRaises(t) ==
    LET r == RunOf(t) IN
    /\ AdapterFaults
    /\ At(t, "Call")
    /\ \/ effects' = effects
       \/ /\ InPhaseCall(t)
          /\ effects' = [effects EXCEPT ![r] = @ \cup {PhaseOperation[thread[t].state]}]
    /\ GoTo(t, "Fail")
    /\ UNCHANGED <<database, batch, environment>>

\* _transition's UPDATE run: no condition on the state it replaces.
CommitState(t) ==
    /\ At(t, "Commit")
    /\ state' = [state EXCEPT ![RunOf(t)] = thread[t].target]
    /\ GoTo(t, "Record")
    /\ UNCHANGED <<key, late, work, rows, ledger, effects, batch, environment>>

\* _transition's _append_event, and where _orchestrate goes from there.
RecordState(t) ==
    LET th == [thread[t] EXCEPT !.target = None, !.event = None]
        target == thread[t].target
    IN
    /\ At(t, "Record")
    /\ Append_event(RunOf(t), thread[t].event)
    /\ Become(t, IF target = "PROBING"
                 THEN [th EXCEPT !.pc = "Reload", !.state = "PROBING"]
                 ELSE Dispatch(th, target))
    /\ UNCHANGED <<key, state, late, work, rows, effects, batch, environment>>

-----------------------------------------------------------------------------
(* _orchestrate: the probes and the verdict                                *)

\* run = _adapter_run(...) after the transition to PROBING; `existing`.
ReloadProbes(t) ==
    /\ At(t, "Reload")
    /\ Become(t, [thread[t] EXCEPT !.pc = "NextProbe",
                                   !.found = SavedResults(RunOf(t))])
    /\ UNCHANGED <<database, effects, batch, environment>>

\* k is the first kind of PROBE_KINDS the thread has no result for.
NextKind(t, k) ==
    \E i \in DOMAIN PROBE_KINDS :
        /\ k = PROBE_KINDS[i]
        /\ thread[t].found[k] = None
        /\ \A j \in 1 .. i - 1 : thread[t].found[PROBE_KINDS[j]] # None

Verdict(t) == AggregateProbeResults({thread[t].found[k] : k \in Kinds})

NextProbe(t) ==
    LET th == thread[t] IN
    /\ At(t, "NextProbe")
    /\ \/ \E k \in Kinds :
              /\ NextKind(t, k)
              /\ Become(t, IF late[RunOf(t)] THEN Expiring(th)
                           ELSE [th EXCEPT !.pc = "Renew"])
       \/ /\ \A k \in Kinds : th.found[k] # None
          /\ Become(t, Committing(th, Verdict(t), "shutdown.completed"))
    /\ UNCHANGED <<database, effects, batch, environment>>

ProbeBoundary(t) ==
    /\ At(t, "Call")
    /\ thread[t].state = "PROBING"
    /\ \E k \in Kinds, result \in ProbeResults :
          /\ NextKind(t, k)
          /\ Become(t, [thread[t] EXCEPT !.pc = "SaveProbe", !.kind = k,
                                         !.found[k] = result])
    /\ UNCHANGED <<database, effects, batch, environment>>

\* Nothing keeps a second row of the same kind out of the table.
SaveProbe(t) ==
    LET k == thread[t].kind IN
    /\ At(t, "SaveProbe")
    /\ rows' = [rows EXCEPT ![RunOf(t)][k] = Append(@, thread[t].found[k])]
    /\ Become(t, [thread[t] EXCEPT !.pc = "RecordProbe", !.kind = None])
    /\ UNCHANGED <<key, state, late, work, ledger, effects, batch, environment>>

RecordProbe(t) ==
    /\ At(t, "RecordProbe")
    /\ Append_event(RunOf(t), "shutdown.probe.result")
    /\ GoTo(t, "NextProbe")
    /\ UNCHANGED <<key, state, late, work, rows, effects, batch, environment>>

-----------------------------------------------------------------------------
(* _orchestrate: the except clause                                         *)

FailWork(t) ==
    /\ At(t, "Fail")
    /\ work' = Completed(t)
    /\ GoTo(t, "CommitFailed")
    /\ UNCHANGED <<key, state, late, rows, ledger, effects, batch, environment>>

\* Mutant: a failed run leaves no evidence.
CommitFailedSilently(t) ==
    /\ At(t, "CommitFailed")
    /\ state' = [state EXCEPT ![RunOf(t)] = "FAILED"]
    /\ Return(t)
    /\ UNCHANGED <<key, late, work, rows, ledger, effects, batch, environment>>

CommitFailed(t) ==
    /\ At(t, "CommitFailed")
    /\ state' = [state EXCEPT ![RunOf(t)] = "FAILED"]
    /\ GoTo(t, "RecordFailed")
    /\ UNCHANGED <<key, late, work, rows, ledger, effects, batch, environment>>

RecordFailed(t) ==
    /\ At(t, "RecordFailed")
    /\ Append_event(RunOf(t), "shutdown.completed")
    /\ Return(t)
    /\ UNCHANGED <<key, state, late, work, rows, effects, batch, environment>>

-----------------------------------------------------------------------------
(* recover_incomplete_shutdowns, polled by the recovery worker             *)

\* Mutants: recovery looks at finished runs too, or only at untouched ones.
IncompleteOrFinished == {r \in Runs : key[r] # None}
IncompleteUntouched == {r \in Runs : key[r] # None /\ state[r] = "REQUESTED"}

Incomplete == {r \in Runs : key[r] # None /\ state[r] \notin TerminalStates}

StartRound ==
    /\ At(Recovery, "Idle")
    /\ batch = {}
    /\ batch' = Incomplete
    /\ UNCHANGED <<database, effects, thread, environment>>

\* The deadline test and the claim of one row are a single step: the clock
\* is local, and a deadline that passes between them is noticed by the
\* resumed thread.
RecoverRun(r) ==
    /\ At(Recovery, "Idle")
    /\ r \in batch
    /\ batch' = batch \ {r}

RecoverBusy(r) ==
    /\ RecoverRun(r)
    /\ ~Claimable(r)
    /\ UNCHANGED <<database, effects, thread, environment>>

\* Mutant: expires a run that a worker still has.
RecoverExpiredBusy(r) ==
    /\ RecoverRun(r)
    /\ late[r]
    /\ work' = [work EXCEPT ![r] = Claimed(Recovery)]
    /\ Become(Recovery, Expiring(NewThread(r, "Commit")))
    /\ UNCHANGED <<key, state, late, rows, ledger, effects, environment>>

\* The recovery thread expires the run itself: _expire_shutdown.
RecoverExpired(r) ==
    /\ RecoverRun(r)
    /\ Claimable(r)
    /\ late[r]
    /\ work' = [work EXCEPT ![r] = Claimed(Recovery)]
    /\ Become(Recovery, Expiring(NewThread(r, "Commit")))
    /\ UNCHANGED <<key, state, late, rows, ledger, effects, environment>>

\* The claimed lease travels to a new thread; actor and adapter are data.
RecoverResumable(r, w) ==
    /\ RecoverRun(r)
    /\ Claimable(r)
    /\ ~late[r]
    /\ At(w, "Idle")
    /\ work' = [work EXCEPT ![r] = Claimed(w)]
    /\ Become(w, [NewThread(r, "Load") EXCEPT !.recovering = TRUE])
    /\ UNCHANGED <<key, state, late, rows, ledger, effects, environment>>

-----------------------------------------------------------------------------
(* Time, failing transactions, and restarts                                *)

PassDeadline(r) ==
    /\ key[r] # None
    /\ ~late[r]
    /\ late' = [late EXCEPT ![r] = TRUE]
    /\ UNCHANGED <<key, state, work, rows, ledger, effects, thread, batch,
                   environment>>

LapseLease(r) ==
    /\ work[r].owner # None
    /\ ~work[r].lapsed
    /\ work' = [work EXCEPT ![r].lapsed = TRUE]
    /\ \/ work[r].owner = Dead /\ overruns' = overruns
       \/ \* a call outlasts the lease of the thread that makes it
          /\ work[r].owner # Dead
          /\ overruns < MaxOverruns
          /\ overruns' = overruns + 1
    /\ UNCHANGED <<key, state, late, rows, ledger, effects, thread, batch,
                   storeFaults, crashes>>

\* work when the threads ts end without giving up their leases.
Orphaned(ts) == [r \in Runs |-> IF work[r].owner \in ts
                                THEN [work[r] EXCEPT !.owner = Dead]
                                ELSE work[r]]

TryBlock == {"Load", "Resume", "Renew", "Commit", "Record", "Reload",
             "SaveProbe", "RecordProbe", "Finish"}

\* A transaction raises and is rolled back.
StoreRaises(t) ==
    /\ storeFaults < MaxStoreFaults
    /\ storeFaults' = storeFaults + 1
    /\ \/ \* inside _orchestrate's try
          /\ t # Recovery
          /\ thread[t].pc \in TryBlock
          /\ GoTo(t, "Fail")
          /\ UNCHANGED <<work, batch>>
       \/ \* in the request, in the claim, or in the except clause itself,
          \* whose inner try swallows all but the first
          /\ thread[t].pc \in {"Announce", "Claim", "Fail", "CommitFailed",
                               "RecordFailed"}
          /\ Return(t)
          /\ work' = Orphaned({t})
          /\ UNCHANGED batch
       \/ \* in the recovery thread: the rest of the round is abandoned
          /\ t = Recovery
          /\ thread[t].pc \in TryBlock
          /\ Return(t)
          /\ work' = Orphaned({t})
          /\ batch' = {}
    /\ UNCHANGED <<key, state, late, rows, ledger, effects, overruns, crashes>>

\* The process dies with all its threads and starts again on the same file.
CrashRestart ==
    /\ crashes < MaxCrashes
    /\ crashes' = crashes + 1
    /\ thread' = [t \in Threads |-> IdleThread]
    /\ work' = Orphaned(Threads)
    /\ batch' = {}
    /\ UNCHANGED <<key, state, late, rows, ledger, effects, overruns,
                   storeFaults>>

-----------------------------------------------------------------------------
(* The specification                                                       *)

ThreadStep(t) ==
    \/ AnnounceRequest(t) \/ ClaimWork(t) \/ LoadRun(t) \/ RecordResume(t)
    \/ CheckDeadline(t) \/ RenewLease(t) \/ CallAdapter(t) \/ CommitState(t)
    \/ RecordState(t) \/ ReloadProbes(t) \/ NextProbe(t) \/ ProbeBoundary(t)
    \/ SaveProbe(t) \/ RecordProbe(t) \/ FinishWork(t) \/ FailWork(t)
    \/ CommitFailed(t) \/ RecordFailed(t)

RecoveryStep ==
    \/ StartRound
    \/ \E r \in Runs : \/ RecoverBusy(r) \/ RecoverExpired(r)
                       \/ \E w \in Workers : RecoverResumable(r, w)

Next ==
    \/ \E w \in Workers, r \in Runs, k \in Keys : RequestShutdown(w, r, k)
    \/ \E t \in Threads : ThreadStep(t)
    \/ RecoveryStep
    \/ \E r \in Runs : PassDeadline(r) \/ LapseLease(r)
    \/ \E t \in Threads : AdapterRaises(t) \/ StoreRaises(t)
    \/ CrashRestart

\* Threads are scheduled, adapter calls time out, the recovery worker polls,
\* and the clock goes on. Nobody has to request, to fail or to crash.
Fairness ==
    /\ \A t \in Threads : WF_vars(ThreadStep(t))
    /\ WF_vars(RecoveryStep)
    /\ \A r \in Runs : WF_vars(PassDeadline(r)) /\ WF_vars(LapseLease(r))

Spec == Init /\ [][Next]_vars
FairSpec == Spec /\ Fairness

-----------------------------------------------------------------------------
(* Properties                                                              *)

WorkRow == [status : {"NONE", "PENDING", "RUNNING", "COMPLETE"},
            owner : Threads \cup {None, Dead}, lapsed : BOOLEAN]

ThreadRecord ==
    [pc : PCs, run : Runs \cup {None}, recovering : BOOLEAN,
     state : ShutdownStates \cup {None}, target : ShutdownStates \cup {None},
     event : EventTypes \cup {None}, kind : Kinds \cup {None},
     found : [Kinds -> ProbeResults \cup {None}]]

\* A thread has assigned the locals its next step reads.
ThreadType ==
    {th \in ThreadRecord :
        /\ th.pc # "Idle" => th.run # None
        /\ th.pc \in {"Commit", "Record"} => th.target # None /\ th.event # None
        /\ th.pc \in {"Resume", "Check"} => th.state # None
        /\ th.pc = "SaveProbe" => th.kind # None /\ th.found[th.kind] # None}

\* Every row has its type, and no thread reads a local before assigning it.
TypeOK ==
    /\ key \in [Runs -> Keys \cup {None}]
    /\ state \in [Runs -> ShutdownStates]
    /\ late \in [Runs -> BOOLEAN]
    /\ work \in [Runs -> WorkRow]
    /\ rows \in [Runs -> [Kinds -> Seq(ProbeResults)]]
    /\ ledger \in [Runs -> Seq(EventTypes)]
    /\ effects \in [Runs -> SUBSET Operations]
    /\ thread \in [Threads -> ThreadType]
    /\ batch \subseteq Runs
    /\ overruns \in 0 .. MaxOverruns
    /\ storeFaults \in 0 .. MaxStoreFaults
    /\ crashes \in 0 .. MaxCrashes

\* Whatever lapses, raises or crashes: a run stored as VERIFIED has a stored
\* PASS row for every kind (aggregate_probe_results over `existing`).
VerifiedHasEvidence ==
    \A r \in Runs : state[r] = "VERIFIED" =>
        \A k \in Kinds : \E i \in DOMAIN rows[r][k] : rows[r][k][i] = "PASS"

\* A boundary is observed, and a run VERIFIED, only after the workload was
\* fenced, stopped and searched for children, whichever threads did it and
\* wherever they resumed.
ContainedBeforeProbed ==
    \A r \in Runs :
        (state[r] = "VERIFIED" \/ \E k \in Kinds : rows[r][k] # << >>)
            => effects[r] = Operations

\* A thread past its claim works on its run.
Acting(t, r) == RunOf(t) = r /\ thread[t].pc \notin {"Idle", "Announce", "Claim"}

\* The lease keeps one worker per run, across recovery and restarts.
OneWorkerPerRun ==
    \A r \in Runs : \A t, u \in Threads : Acting(t, r) /\ Acting(u, r) => t = u

EventRank(e) ==
    CASE e = "shutdown.fenced"            -> 1
      [] e = "shutdown.process.stop.sent" -> 2
      [] e = "agent.child.discovered"     -> 3
      [] e = "shutdown.probe.requested"   -> 4
      [] e \in {"shutdown.completed", "shutdown.recovery.deadline.exceeded"} -> 5
      [] OTHER                            -> 0

\* The evidence of one shutdown reports each phase at most once and in
\* order, and at most one outcome, however often it was resumed.
EvidenceInPhaseOrder ==
    \A r \in Runs : \A i, j \in DOMAIN ledger[r] :
        i < j /\ EventRank(ledger[r][i]) > 0 /\ EventRank(ledger[r][j]) > 0
            => EventRank(ledger[r][i]) < EventRank(ledger[r][j])

\* The results and the outcome of a run, in its tables and in its evidence.
ProbeRows(r) == UNION {{k} \X DOMAIN rows[r][k] : k \in Kinds}
ProbeEvents(r) == {i \in DOMAIN ledger[r] : ledger[r][i] = "shutdown.probe.result"}

Ended(r) == state[r] \in TerminalStates
Reported(r) == \E i \in DOMAIN ledger[r] : EventRank(ledger[r][i]) = 5

Stored(r) == Cardinality(ProbeRows(r)) + (IF Ended(r) THEN 1 ELSE 0)
Recorded(r) == Cardinality(ProbeEvents(r)) + (IF Reported(r) THEN 1 ELSE 0)

\* A row and its event are two transactions: a restart or a transaction that
\* raises between them costs an event, and nothing else does. Once no thread
\* acts on a run, its evidence has all its results and its outcome but these.
EvidenceLossBounded ==
    \A r \in Runs :
        (\A t \in Threads : ~Acting(t, r))
            => Stored(r) <= Recorded(r) + crashes + storeFaults

\* The observations of a run as the abstract lifecycle sees them.
observed == [r \in Runs |-> SavedResults(r)]
Lifecycle == INSTANCE ShutdownLifecycle
                 WITH state <- state, observed <- observed

\* The workers, leases and restarts implement one sequential shutdown.
ImplementsLifecycle == Lifecycle!Spec

\* README "Security invariants" 1: UNKNOWN is never converted to VERIFIED.
UnknownIsNeverVerified ==
    [][\A r \in Runs : state[r] = "UNKNOWN" => state'[r] # "VERIFIED"]_vars

\* README "Backup and recovery": saved probe kinds are not repeated.
ProbeKindsNotRepeated == \A r \in Runs, k \in Kinds : Len(rows[r][k]) <= 1

\* A requested shutdown ends in a terminal state.
EveryShutdownTerminates ==
    \A r \in Runs : key[r] # None ~> state[r] \in TerminalStates

=============================================================================
