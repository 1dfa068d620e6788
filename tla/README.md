# Agent shutdown verification: TLA+ models and proofs

This directory models the control plane of the repository, `src/asv/`: a
service that shuts an AI agent's run down from outside, probes whether each
authority boundary is really closed, and keeps signed evidence of what it saw.
The modules are written from the Python source; `PROJECT.json` names, for every
definition, the lines it stands for.

Paths below are relative to the repository root.

## 1. The system

One process, one SQLite file. Request threads of an HTTP server, one
orchestrating thread per shutdown, one recovery thread and one outbox thread
share the tables of `asv/store.py`. `Store.connection()` holds one lock from the
first statement to the commit or rollback, so a transaction is atomic; **between**
two transactions of a thread anything may happen, and most operations consist of
several.

| Component | State | Operations | Talks to |
|---|---|---|---|
| Agent and run registry (`service.py` 45-160) | tables `agent`, `run` | `register_agent`, `create_run`, `get_run` | all others read `run` |
| Shutdown orchestrator (`service.py` 162-291) | `run.state`, `shutdown_work`, `probe`, `delegated_job`; locals of a thread | `request_shutdown`, `_orchestrate`, `_transition`, `_save_probe` | adapter, evidence ledger |
| Lease and recovery worker (`service.py` 293-472) | `shutdown_work.lease_owner/lease_until` | `_claim_shutdown_work`, `_renew_shutdown_lease`, `_finish_shutdown_work`, `_fail_shutdown_work`, `recover_incomplete_shutdowns` | orchestrator (starts its threads) |
| Probe verdicts (`domain.py`) | none | `aggregate_probe_results` | orchestrator |
| Evidence ledger (`evidence.py`) | tables `evidence`, `event_outbox` (insert) | `append`, `records`, `manifest`, `verify_chain` | everything appends |
| Report, restart, export (`service.py` 541-568, 622-673) | table `report`, a `restart` row in `probe` | `report`, `request_restart`, `evidence`, `export_events` | ledger, restart gateway |
| SIEM outbox (`siem.py`, `service.py` 570-620) | `event_outbox`, `event_delivery_state`, `event_retry_cycle` | `publish_batch`, `run_forever`, `requeue_dead_letter` | SIEM over HTTP |
| Drill approval (`service.py` 354-395, 675-840) | table `drill`, `_drill_lock` | `request_drill`, `approve_drill`, `reject_drill`, `recover_approved_drills` | registry, orchestrator |
| Adapters (`adapters.py`, `integrations.py`) | the external world | `fence`, `stop_process`, `discover_children`, `probe`, `restart` | Kubernetes, Kafka, brokers |
| Tokens and roles (`auth.py`), metrics (`metrics.py`), HTTP API (`server.py`) | none | check, count, route | the others |

What is hard here, and hard to test:

* **Interleaving.** A request's thread, the recovery worker, reporters,
  responders and the publisher work on the same rows between each other's
  transactions.
* **Time.** A lease may lapse and a deadline pass while a thread is inside an
  adapter call; the thread does not notice.
* **Crashes.** The process may stop between any two transactions; everything
  that follows is what the recovery worker makes of the rows.
* **Partial failure.** An adapter raises after it took effect; a transaction
  raises in the `except` clause that was to record a failure.
* **Delivery.** A send arrives and its answer does not.

What makes each component correct is stated in section 3 next to its module.

## 2. Modules

| Module | Models | Checked by | Proved in |
|---|---|---|---|
| `ShutdownDomain` | states, results, phase order, aggregation (`domain.py`) | all of the below | - |
| `ShutdownLifecycle` | abstract: what one shutdown promises | as a property of `ShutdownOrchestrator` | `LifecycleProofs` |
| `ShutdownOrchestrator` | request, orchestration, lease, recovery, restart | `MCShutdown` | `ShutdownProofs`, `ContainmentProofs`, `LifecycleProofs`, `LedgerProofs` |
| `EventDelivery` | abstract: what the outbox promises for an event | as a property of `Outbox` | `OutboxProofs` |
| `Outbox` | outbox insert, publisher, dead letters, requeue | `MCOutbox` | `OutboxProofs` |
| `DrillApproval` | drill decisions, start, recovery | `MCDrill` | `DrillProofs` |
| `RunEvidence` | evidence chain, report, restart probe | `MCEvidence` | `EvidenceProofs` |
| `OutboxMetrics` | the scraped counter over the outbox (`metrics.py`) | `MCOutbox` | `OutboxProofs` |
| `BoundaryProbes` | answers of Kafka, broker and gateway, and what they are taken for | `MCAdapter` | `AdapterProofs` |
| `KubernetesKafkaAdapter` | fence, stop, discovery and probes, call by call, over a moving cluster | `MCAdapter` | `AdapterProofs` |

In all of them an action is one transaction, or one external call between two
transactions. A thread is a program counter (named for the transaction that
comes next) and the locals that survive to it, which may be stale by then. Two
actions recur:

* `StoreRaises`: a transaction raises and is rolled back (a locked or full
  database); the thread goes where its `except` clauses send it.
* `CrashRestart`: the process stops and starts again on the same file. All
  threads are gone, the tables stay.

Definitions headed "Mutant" are faulty variants of the definition after them.
`PROJECT.json` pairs each property with one that must break it; the models do not
use them.

## 3. How the models correspond to the code

### Shutdown orchestrator

`thread[t].pc` is the position in `request_shutdown` (`Announce`), in
`_claim_shutdown_work` (`Claim`), in `_orchestrate`'s `try` (`Load` ... `Finish`) or in
its `except` clause (`Fail`, `CommitFailed`, `RecordFailed`); `thread[t].state` is
the local `state`, `thread[t].found` the local `existing`. `work[r]` is the row of
`shutdown_work`: `owner` is `lease_owner` (`Dead` when its thread is gone, which the
row cannot tell) and `lapsed` says that `lease_until` has passed. `late` says that
`deadline_at` has passed. `_transition` is two actions, `CommitState` and
`RecordState`, as its UPDATE and its event are two transactions; so is
`_save_probe`. `_renew_shutdown_lease` succeeds whether or not its UPDATE matched a row.
A recovery round is a `batch` of rows that it read at the start and works through.

Correct means: one worker per run (`OneWorkerPerRun`); no verdict without its
evidence (`VerifiedHasEvidence`); no probe before containment, wherever a run was
resumed (`ContainedBeforeProbed`); evidence in the order of the phases, with one
outcome (`EvidenceInPhaseOrder`); each result or outcome that the evidence of a run lacks
is paid for by one restart or raising transaction (`EvidenceLossBounded`); saved probes are not repeated
(`ProbeKindsNotRepeated`); every shutdown ends (`EveryShutdownTerminates`); and all
threads together look like one sequential shutdown (`ImplementsLifecycle`, the
refinement to `ShutdownLifecycle`, under the mapping `observed`).

### Outbox

Events are numbered in their order of creation. The rows that
`event_delivery_state` and `event_retry_cycle` may hold for an event are the fields
`delivery` and `baseline` of its row. `batch` is the result of `publish_batch`'s
SELECT: snapshots of `attempts` and `baseline` which the failure branch computes
with. `received` counts what reached the SIEM, `tries` the sends since the event was
appended or requeued; no action reads either.

Correct means: at least once, DELIVERED only after arrival, never sent after it
(`ImplementsDelivery`); an event is given up only after the full budget
(`FullBudgetBeforeDeadLetter`) and not retried beyond it, but for one send for each
interruption (`BoundedAttempts`); every event settles while the publisher's thread lives
(`EventsSettleWhilePublishing`). `OutboxMetrics` adds what a scrape sees: the counter of
delivery attempts never goes back and counts one send at a time (`AttemptsMonotonic`).

### Drill approval

`approve_drill`, `reject_drill` and `recover_approved_drills` hold `_drill_lock` from their
first read to their last write. A thread in `deciding` has read a drill and not yet written
its decision; `holder` works on approved drills, an approver in `start_synthetic_drill` or a
recovery round. `AfterLookup` is the branch on `get_run` in `recover_approved_drills`.

The reserved run is open to the API. `request_drill` answers with its id, `POST /v1/runs`
passes its body to `create_run` (`server.py` 53-55), and `create_run` takes the id from
`_run_id` in it (`service.py` 110): whoever may create runs creates it before, after or
without an approval (`CreateDirectly`), which makes the drill's own creation conflict
(`CreateConflicts`). A responder may shut it down as soon as it exists, under a key of his
own or the drill's (`ShutdownDirectly`), which makes the drill's own request conflict or
repeat (`RequestConflicts`, `RequestRepeated`). `byDrill` says for which drills the control
plane itself created the run or requested the shutdown.

Correct means: the control plane creates and shuts down only what somebody other than the
author approved, whatever others do to the run meanwhile (`SeparationOfDuty`; others may do so
before an approval, see section 6); STARTED implies a shutdown
(`StartedIsDispatched`); decisions stand (`DecisionsStand`); an approved drill ends
(`ApprovedDrillEnds`).

### Run evidence

`chain` holds the evidence rows of one run, with `sequence_no`, `payload_hash` and
`previous_hash`; a payload stands for its own hash. A behaviour starts at the last probe of
the shutdown, under a worker with the lease. `pc` is where each worker and the recovery
thread are from there on: the terminal `_transition`, its event and the end of the work, the
`except` clause, a resumed worker, a recovery round and its `_expire_shutdown`. `lease` and
`late` are as in `ShutdownOrchestrator`: a worker whose lease lapsed goes on as if it held it.
A reporter keeps what it read in `get_run` and in `evidence`; `lock` is `_report_lock`, which
`request_restart` does not take. `restarts` counts the rows, `calls` what the gateway was asked:
a thread that is lost between the call and the row leaves a call and no row.

Correct means: whatever is appended at the same time, `verify_chain` accepts the
chain (`ChainVerifies`); the first report is the only one (`ReportsNeverConflict`); the
report names the state in which the run stays (`ReportDescribesRun`). That has two ways out,
which the property names: after a transaction that raised, the `except` clause or recovery writes
FAILED or UNKNOWN over a verdict; after a lapse under a living worker, the two workers write over
each other. A restart is not idempotent per run (the run `restarts`); what is left is a bound on
the calls: more than one only from requests at the same time, and again only after a restart of the
process or a transaction that raised before the row (`RestartCallsBounded`).

### Kubernetes and boundary adapter

`ShutdownOrchestrator` takes an adapter call as one step. `KubernetesKafkaAdapter` opens it:
`pc` is the API call that the orchestrating thread makes next, `found` the lists `pods`,
`jobs` and `cronjobs` it holds, `first` the first answer of a probe that asks twice. `phase`
and `results` are the persisted part, so `CrashRestart` goes to `FirstCall[phase]`. `Pods` are the
newest Pod of each Job and the bare Pods (`BarePods`: `README.md` 282 and
`docs/kubernetes-kafka-adapter.md` 17 ask for labelled Pods, not for Jobs). A Pod ends as `done`, or
is evicted and gone; its Job starts another one for it, within its `backoffLimit`, also after its
status said 0 active, and a bare Pod may run from the beginning or be started at any time (`StartPod`, bounded by `MaxStarts`
but for a Job's first Pod). A Pod that is started anew has a new name, which is why `StartPod` takes
it out of the names `stop_process` holds. Between two
calls the cluster moves: the agent and CronJobs create Jobs (`SpawnJob`), controllers start
Pods, report a status, learn late that a CronJob is suspended, and collect what is being
deleted (foreground propagation: the Pod first); a NetworkPolicy is enforced late; the broker
and the gateway close a boundary some time after they took the fence, and Kafka when the lab
does. `BoundaryProbes` has the classification of answers as the code makes it (`KafkaResult`,
`CredentialResult`, `EgressResult`, `FenceAccepts`) and, apart from it, the contracts of the
services as the docs state them (`Refuses`, `Grants`, `FenceTaken`); the environment answers
by the contract, the code judges by the classification.

The history variables say what no row says: `before`, the Jobs there when `stop_process`
listed Jobs; `unreported` and `later`, the children without a status when the delegation
probe listed them, and those created after; `replaced`, the bare Pods and the retries that started
after the process probe listed the Pods; `misread`, the refusals the adapter takes for something
else. These are a refused policy whose error text contains "409" (`integrations.py` 154), and a 401
that refuses the token the adapter is configured with and says nothing of the agent: an expired
controller token at the broker or the gateway (273, 358), and an expired synthetic token at the
Kafka bridge (180), for which 401 twice is a PASS (205-206) while the agent's own authority is open.
A valid Kafka token is taken to be, as the docs ask for, the fenced identity's: a 403 speaks of the
boundary.

Correct means: nothing is deleted before every fence is taken (`FencedBeforeStopped`, but for a
misread policy); a VERIFIED shutdown has stopped all that it listed, for good
(`VerifiedIsStopped`), and found all six boundaries closed but those whose refusal it misread
(`VerifiedIsClosed`), although the two answers of a probe come one after the other and fences take
effect late; a Pod that runs on behind VERIFIED belongs to a child created after the delegation
probe or without a status then, or is a bare Pod or a retry started after the process probe listed
the Pods (`NothingElseOverlooked`).

## 4. Runs

| Run | Configuration | What it shows |
|---|---|---|
| `prompt` | 1 run, 2 workers, recovery, 2 probe kinds, adapter faults, 2 restarts | no overrun, no raising transaction: exclusion, order of evidence, bounded loss of evidence, no repeated probe, UNKNOWN never made VERIFIED, refinement to `ShutdownLifecycle` |
| `faulty` | 1 run, 2 workers, 1 probe kind, 1 overrun, 1 raising transaction, 1 restart | what survives everything at once: evidence behind VERIFIED, containment before probing |
| `liveness` | 1 run, 2 keys, 2 workers, 1 restart | every requested shutdown ends |
| `outbox` | 3 events, 2 attempts, batches of 2, 1 requeue, 1 raising transaction, 1 restart | all properties of the outbox, with fairness |
| `drill` | 2 drills, 2 people, 2 raising transactions, 2 restarts | all properties of drill approval, with fairness |
| `evidence` | 2 reporters, 2 responders, 1 worker, recovery, 1 overrun, 1 raising transaction, 1 restart | all properties of run evidence |
| `adapter` | 1 bare Pod, 1 child Job, 1 CronJob, 3 services, 7 answers, any two of: a Job created late, a Pod started anew, a failed or misread call, a restart | all properties of the adapter |
| `unknown`, `stuck`, `restarts`, `reported`, `telemetry` | as small as the counterexample allows | the findings of section 6 |

**Why the bounds are enough.** The races are between two actors: two threads on
one run (a worker and recovery, or two workers after a lease lapsed), two
reporters, two responders. One probe kind already separates "before" and "after" a
probe; two separate a partial set of observations from a complete one. Two
restarts let the second hit what recovery makes of the first. Two drills let a
recovery round go on after, and be cut before, a row; three events with batches
of two let a batch leave one behind. Two attempts separate the first failure, the
backoff and the last one, and one requeue makes the baseline differ from zero.
A count of faults is the only thing that bounds a behaviour otherwise: with it every
state graph is finite. The proofs drop these bounds for the safety properties they
cover.

The races of a report are with those who write the state: `evidence` has a worker whose lease may
lapse and the recovery thread, which writes beside it. The races of a restart are between two
responders, and with a reporter and the shutdown on the chain. One fault and one restart of the
process are what each way out of `ReportDescribesRun` and each term of `RestartCallsBounded` needs.

In `adapter` the agent runs in a bare Pod and delegates to a Job and a CronJob; a Job's label, or the
lack of a Job, is all the code tells workloads apart by. `FewAnswers` has one answer for each class
that a contract or a classification distinguishes. Two constraints bound it. `AnyTwoEvents`: each
overtaking in `stop_process` and in the probes needs one Job created late, one Pod started anew, one
failing or misread call or one restart, and two errors, two services' tokens, or one of these beside
another, are what a second one adds. `MayVerify` ends a behaviour once a result is not PASS or the
shutdown failed: `VerifiedIsStopped`, `VerifiedIsClosed` and `NothingElseOverlooked` speak of VERIFIED
only, and `FencedBeforeStopped` is checked on the last state of such a behaviour and proved without
the constraint, as is `TypeOK`. `AdapterProofs` has neither bound and any workload; one whose parent is a Job
too, beside a bare child Pod, was checked once with plain answers and no errors.

`faulty` uses the VIEW `ExceptLedger`, which leaves out the evidence: no action reads it and
its two properties do not mention it; the type of the evidence is checked in `prompt`. `SYMMETRY` is used only in runs without liveness.
`CHECK_DEADLOCK FALSE` appears where the work really ends: when all events are
appended and settled, all drills decided, the one run reported, the one shutdown terminal. The orchestrator's
passing runs keep the deadlock check, as a recovery round can always start.

**Fairness.** `FairSpec` assumes of the code only this: a thread with a next step
takes it (daemon threads under the interpreter; sends and adapter calls have a
timeout of seconds, `siem.py` 34, `integrations.py` 67); the recovery worker polls, as
its loop catches every exception (`service.py` 343-349); the publisher polls for as
long as its thread lives (`siem.py` 141-144, which catches nothing); the clock passes a
deadline, the end of a lease and the end of a backoff. Requests, approvals, failures
and restarts are never assumed to happen. `liveness` has no adapter that raises
and no raising transaction: `stuck` shows what one such failure plus a restart does.

## 5. Proofs

All theorems hold for every value of the constants that satisfies the modules'
`ASSUME`s (names are distinct, bounds are natural numbers, there is a probe kind).

| Theorem | Property | Argument |
|---|---|---|
| `ShutdownProofs!TypeCorrect` | `TypeOK` | inductive; a lemma per helper that builds a thread record |
| `ShutdownProofs!VerifiedIsEvidenced` | `VerifiedHasEvidence` | `EvidenceInv`: a thread about to commit VERIFIED, and every PASS among a thread's `found`, is backed by a stored row. Rows are never deleted, so a stale thread does no harm: this is why the property survives lapsed leases |
| `ShutdownProofs!LeaseExcludes` | `OneWorkerPerRun`, if `MaxOverruns = 0` | `LeaseInv`: a thread past its claim owns the RUNNING work row of its run or has already released it, and a row in another thread's name is not claimable until it lapses |
| `ContainmentProofs!ContainmentFirst` | `ContainedBeforeProbed` | `ContainedInv`: the operations behind every state, stored or in a thread's locals, took effect. Effects only grow, so a stale local does no harm, with no assumption on leases or faults |
| `LifecycleProofs!SavedKindsStay`, `UnknownStays` | `ProbeKindsNotRepeated`, `UnknownIsNeverVerified`, if `MaxOverruns = 0` | `StepInv`: the locals of the one thread `LeaseInv` leaves to a run are its stored state and results, and it commits a `LawfulMove` or UNKNOWN (`InStep`). It survives every failing transaction and restart, so only a lapse under a living worker, as in the run `unknown`, turns UNKNOWN into VERIFIED |
| `LifecycleProofs!OneSequentialShutdown` | `ImplementsLifecycle`, if also `MaxStoreFaults = 0` | `LifeInv` on top of `StepInv`: whoever may still claim a run that is over finds its work complete or leased to a living thread (`OverMeansSettled`). Each commit is then a step of `ShutdownLifecycle`, every other step a stutter |
| `LedgerProofs!PhasesNeverRepeated` | (`PhasesBeforeOutcome`, if `MaxOverruns = 0`) | `LedgerInv`: the rank of the stored state bounds the ranks of the events, strictly while the event of a phase is owed, and `LawfulMove`s raise it. A lost event leaves a gap, never a repetition; a transaction that raises adds outcomes, but no phase after one |
| `LedgerProofs!PhasesReportedInOrder` | `EvidenceInPhaseOrder`, if also `MaxStoreFaults = 0` | the same invariant: `Precedes` lets an outcome follow another one only where a transaction may raise. Without faults `LifeInv` says that a run that is over stays so |
| `LedgerProofs!LossIsBounded` | `EvidenceLossBounded`, if `MaxOverruns = 0` | `LossInv`: each stored result or outcome that the evidence lacks is the one its thread is about to report (`Pending`) or went with a restart or a transaction that raised. A step that drops a `Pending` event is one of those two |
| `OutboxProofs!TypeCorrect` | `TypeOK` | inductive, with the publisher's position and batch |
| `OutboxProofs!FullBudget`, `AttemptsBounded` | `FullBudgetBeforeDeadLetter`, `BoundedAttempts` | `BudgetInv` relates `tries`, `attempts` and `baseline` of each row and of its snapshot, with one send of slack for each interruption |
| `OutboxProofs!CounterMonotonic` | `AttemptsMonotonic` | the counter is the size of the set of counted attempts; by `BudgetInv` (`SnapshotsCurrent`) the publisher writes `s.attempts + 1` over a row that still has `s.attempts`, and a requeue moves only the baseline |
| `OutboxProofs!DeliversAtLeastOnce` | `ImplementsDelivery` | the initial states map, and every step maps to a step of `EventDelivery` or a stutter |
| `DrillProofs!TypeCorrect`, `DutySeparated`, `StartedHasShutdown`, `DecisionsFinal` | the four safety properties of `DrillApproval` | `ApprovalInv`: an approved row has an approver other than its author, only rows that were approved are in `byDrill`, and the lock holder that is about to write STARTED has a run whose shutdown is requested. `DecidingType` carries `_drill_lock`: what a decider read is still so when it writes |
| `EvidenceProofs!ChainAlwaysVerifies` | `ChainVerifies` | `AppendVerified`: one more record on a verified chain gives a verified chain |
| `EvidenceProofs!TypeCorrect`, `OneReporter` | `TypeOK`, `ReportsNeverConflict` | `FirstReport`: whoever holds `_report_lock` before the INSERT saw no report, and nobody else can have stored one |
| `EvidenceProofs!ReportIsFinal` | `ReportDescribesRun` | `WriterInv`: without a lapse, whoever is about to write a state owns the lease, and over a terminal state only after a transaction raised; `DescribesKept`: such a writer leaves what a reporter read described (`Signed`) |
| `EvidenceProofs!RestartsBounded` | `RestartCallsBounded`, for finitely many responders | without a row, each call beyond those of earlier lives of the process is a responder that has yet to store its row, or a transaction that raised; with a row, only those who looked before it still call |
| `AdapterProofs!TypeCorrect` | `TypeOK` | inductive; the thread is at a call of its persisted phase, with the locals this call reads |
| `AdapterProofs!FencedFirst` | `FencedBeforeStopped` | `FenceInv`: what `fence` has established before each of its calls; afterwards nothing takes a fence back |
| `AdapterProofs!VerifiedStopped` | `VerifiedIsStopped` | `StopInv` follows each Job of `before` from the first list over the second, the deletes and a restart between them, to the Pods the process probe lists: until it is `deleting` it is in `found.jobs`, and a Pod that is still active is in `found.pods` |
| `AdapterProofs!OnlyLateOrUnreported` | `NothingElseOverlooked` | a Pod that `stop_process` missed is seen by one of two probes: by the process probe (`PodsListed`) unless it is `replaced` or its Job's status cannot be that of an earlier Pod (`Fresh`); and in the second case by the delegation probe, as only children are created after the list of Jobs (`LateAreChildren`), unless it is counted in `later` or `unreported`. Once both have seen nothing, any other Job has a status, so that a Pod it starts is a retry and in `replaced` (`RestKnown`) |
| `AdapterProofs!VerifiedClosed` | `VerifiedIsClosed` | `ClosedInv`: a boundary whose refusal is in `first`, in the verdict or in a saved PASS is closed and stays so, or was misread; `PassIsRefusedTwice` is the one fact about the classifications |

The invariants themselves are seldom inductive: `VerifiedHasEvidence` says nothing of
the thread that will write VERIFIED next, `OneWorkerPerRun` nothing of the lease.
The named strengthenings above say it.

The assumptions are needed. With `MaxOverruns = 1` a second thread may write over a verdict
after a lapse under a live worker (the run `unknown` shows it). With `MaxStoreFaults = 1` TLC finds
`ImplementsLifecycle` violated: a transaction that raises after a verdict was committed lets the
`except` clause write FAILED over it. That this is all a raising transaction can do to a verdict is
why `StepInv`, and what follows from it alone, needs no such assumption. `StepInv`, `LossInv` and
`PhasesBeforeOutcome` were checked by TLC under store faults, restarts and adapter faults before they
were proved.

**Only model-checked:** the liveness properties (`EveryShutdownTerminates`, `ApprovedDrillEnds`,
`EventsSettleWhilePublishing`), as fairness is out of the prover's reach. Every invariant and
action property of a passing run is proved.

## 6. Where the code and its documents disagree

Each run below must find its property violated.

1. `unknown`: `_transition` writes `run.state` without a condition on the lease or the
   state it replaces (`service.py` 484-491), and a renewal that matched no row is not
   noticed (430-437). A worker whose lease lapsed during its last probe writes
   VERIFIED over the UNKNOWN of the recovery worker, which a report may have signed by then
   (`overruns > 0` in `Describes`). `README.md` 94: "`UNKNOWN` is a
   terminal result and is never converted to `VERIFIED`."
2. `stuck`: the `except` clause completes the work row before it commits FAILED
   (`service.py` 282-289). A restart between the two leaves a run in its phase whose
   work nobody can claim.
3. `restarts`: `request_restart` looks for a row and stores one in separate
   transactions (`service.py` 626-630); two requests at once ask the gateway twice and store
   two rows and events. The calls carry the same `Idempotency-Key`, so a gateway that honours it
   restarts once; the rows are two all the same. `docs/report-siem-restart.md` 76: "is
   idempotent per run."
4. `reported`: `report` reads probes and manifest separately (`service.py` 642-645); a
   restart between the two is in the signed chain and not in the signed results.
5. `telemetry`: `_child_active` reads a child's missing status as 0 active Pods
   (`integrations.py` 585), so the delegation probe passes for a child Job whose controller has
   not reported yet; `_save_delegated_jobs` stores the same child as UNKNOWN (`service.py` 518-523).
   `docs/threat-model.md` 6: "Missing telemetry is `UNKNOWN`, never success."

The following were met while modelling and hold by the shape of the code, so no
run is spent on them:

* The reserved run of a drill that awaits its approval can be created through `POST /v1/runs` with
  `_run_id` in the body (`server.py` 53-55, `service.py` 110), and then shut down, where
  `docs/pilot-runbook.md` 64 says "no run or shutdown exists yet": `CreateDirectly` asks for no
  approval. `SeparationOfDuty` is about what the control plane does of its own, hence `byDrill`.
* `requeue_dead_letter` (`service.py` 612-619) and `report` (666-672) commit first and
  append their event in a second transaction. A restart between the two loses the event
  for good, as the first transaction makes a repetition impossible or silent.
* `run_forever` (`siem.py` 141-144) has no handler: one raising transaction ends the
  publisher until the process restarts.
* A requeue keeps `attempts` and moves the baseline, where
  `docs/report-siem-restart.md` 37 says "Requeue resets the attempt count".
* `evidence` (`service.py` 541-546) reads records and manifest in two transactions, so
  the signed manifest may count a record the answer lacks.
* A lost answer of the restart gateway is stored as UNKNOWN (`integrations.py` 450-454), and every
  later request returns that row (`service.py` 626-628) although the restart may have taken place.
* The NetworkPolicies of a run are named after its first eight characters (`integrations.py` 135): a
  second run with the same prefix in a namespace gets 409, which counts as a fence of its own.

## 7. Not modelled, and why

* Of `integrations.py`: the namespace allowlist (a check of configured strings), URLs, headers and
  bodies, the verdict of the restart gateway (430-481; a free choice in `RunEvidence`). Two runs in
  one namespace, which meet only in the eight-character name above. The kubelet: a Pod object
  deleted with `gracePeriodSeconds: 0` is gone from the API before its containers are known to have
  stopped, and the process probe, like the model, looks at the API only. CronJobs created after
  `fence` listed them: the set of CronJobs is fixed, and such a one would run on as a `later` child.
  The finished Pods that a Job keeps beside its newest one, which no call acts upon.
* The read of `_recovery_adapter` after a claim (`service.py` 317-321), whose raise leaves the lease
  to lapse and ends the round: to the rows it is a restart between claim and thread, which
  `CrashRestart` of `ShutdownOrchestrator` has; `ShutdownRaises` of `RunEvidence` has it by itself.
* The deadline inside an adapter call: `KubernetesKafkaAdapter` has one thread and no clock; lapsing
  leases and deadlines around whole calls are `ShutdownOrchestrator`'s.
* `auth.py`: a stateless check of a signed token, and of a role per route. The models take the actor
  as authenticated; who may decide a drill is checked in `DrillApproval`.
* The other metrics, `export_events`, `dead_letters`, `evidence`: reads without a state of their own.
* `server.py`: routing, parsing and wiring. Its requests are the actions of the modules.
* `register_agent`, parent runs, `delegated_job` rows: written once, read by no protocol
  step. Hashes, HMACs, payloads and wording: left out of the data.
* SQLite: transactions are atomic and durable, as `Store.connection()` makes them.

## 8. Plan

Done, in this order: `ShutdownDomain`, `ShutdownLifecycle`, `ShutdownOrchestrator` (the
core), `EventDelivery` and `Outbox`, `DrillApproval`, `RunEvidence`, `BoundaryProbes` and
`KubernetesKafkaAdapter`, each with its proofs, and `OutboxMetrics`. No safety property of a
passing run is left without a theorem.

Next:

1. Proofs: an abstract lifecycle with the step from one outcome to another, for
   `OneSequentialShutdown` without `MaxStoreFaults = 0`; at most one outcome more in the evidence
   than transactions raised.
2. The restart gateway (`integrations.py` 430-481) with its idempotency key, composed with
   `RunEvidence`: what a restart row says of what the gateway did.
3. Two runs in one namespace of `KubernetesKafkaAdapter`, for the names of their fences.
