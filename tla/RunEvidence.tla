----------------------------- MODULE RunEvidence -----------------------------
(***************************************************************************)
(* The evidence chain of one run and what is derived from it once its      *)
(* shutdown ends (asv/evidence.py, asv/service.py): the signed report and  *)
(* the restart probe.                                                      *)
(*                                                                         *)
(* Request threads run report and request_restart while the shutdown is in *)
(* its last phase: a worker that holds the lease commits the terminal      *)
(* state, recovery resumes or expires a shutdown whose lease may be        *)
(* claimed, and a worker whose lease lapsed goes on as if it held it. An   *)
(* action is one transaction of a thread; _report_lock serialises reports, *)
(* nothing else. A payload stands for its own hash, and the results of the *)
(* probes are left out; the earlier phases are ShutdownOrchestrator's.     *)
(***************************************************************************)
EXTENDS Naturals, Sequences, FiniteSets, ShutdownDomain

CONSTANTS
    Reporters,      \* threads that call report
    Responders,     \* threads that call request_restart
    Workers,        \* threads that run _orchestrate
    Recovery,       \* the thread of the recovery worker
    Dead,           \* the owner of a lease whose thread is gone
    Nobody,         \* nobody holds _report_lock, or the lease
    NoReport,       \* no report is stored
    Genesis,        \* GENESIS_HASH
    MaxOverruns,    \* bound on the leases that lapse under a living thread
    MaxStoreFaults, \* bound on the transactions that raise
    MaxCrashes      \* bound on the restarts of the process

ASSUME EvidenceAssumption ==
    /\ Nobody \notin Reporters \cup Workers
    /\ Recovery \notin Workers
    /\ Dead \notin Workers
    /\ Nobody # Recovery /\ Nobody # Dead /\ Recovery # Dead
    /\ MaxOverruns \in Nat
    /\ MaxStoreFaults \in Nat
    /\ MaxCrashes \in Nat

VARIABLES
    state,       \* run.state
    pc,          \* where each thread of the shutdown is
    lease,       \* the lease of its work: who owns it, and may it be claimed?
    late,        \* the deadline has passed
    chain,       \* the evidence rows, by sequence_no
    restarts,    \* restart rows in the probe table
    calls,       \* restarts that the gateway was asked for
    report,      \* the report row
    lock,        \* who holds _report_lock
    reporter,    \* where each reporter is, and what it has read
    responder,   \* where each responder is
    overruns,    \* leases that lapsed under a living thread so far
    storeFaults, \* transactions that raised so far
    crashes      \* restarts so far

tables == <<state, chain, restarts, report>>
shutdown == <<pc, lease, late>>
reports == <<lock, reporter>>
requests == <<reports, responder, calls>>
environment == <<overruns, storeFaults, crashes>>
vars == <<tables, shutdown, requests, environment>>

IdleReporter == [pc |-> "Idle", state |-> "RUNNING", restarted |-> FALSE, count |-> 0]

-----------------------------------------------------------------------------
(* EvidenceLedger                                                          *)

\* Mutant: the hash of the record before the last.
PreviousHashStale == IF Len(chain) < 2 THEN Genesis
                     ELSE chain[Len(chain) - 1].payload_hash

PreviousHash == IF chain = <<>> THEN Genesis ELSE chain[Len(chain)].payload_hash

Sequence == IF chain = <<>> THEN 1 ELSE chain[Len(chain)].sequence_no + 1

\* append: the last record is read and the next inserted in one transaction.
AppendEvidence(type, payload) ==
    chain' = Append(chain, [sequence_no   |-> Sequence,
                            event_type    |-> type,
                            payload_hash  |-> payload,
                            previous_hash |-> PreviousHash])

\* What verify_chain tests of the records it is given.
VerifyChain(records) ==
    \A i \in DOMAIN records :
        /\ records[i].sequence_no = i
        /\ records[i].previous_hash =
               IF i = 1 THEN Genesis ELSE records[i - 1].payload_hash

-----------------------------------------------------------------------------
(* The end of the shutdown: _orchestrate from its last probe               *)

Threads == Workers \cup {Recovery}

Held(t) == [owner |-> t, open |-> FALSE]
Complete == Held(Nobody)

Init ==
    /\ state = "PROBING"
    /\ \E w \in Workers : /\ pc = [t \in Threads |-> IF t = w THEN "Probe" ELSE "Idle"]
                          /\ lease = Held(w)
    /\ late = FALSE
    /\ chain = <<[sequence_no  |-> 1, event_type |-> "shutdown.requested",
                  payload_hash |-> "requested", previous_hash |-> Genesis]>>
    /\ restarts = 0
    /\ calls = 0
    /\ report = NoReport
    /\ lock = Nobody
    /\ reporter = [r \in Reporters |-> IdleReporter]
    /\ responder = [r \in Responders |-> "Idle"]
    /\ overruns = 0
    /\ storeFaults = 0
    /\ crashes = 0

GoTo(t, where) == pc' = [pc EXCEPT ![t] = where]

\* The deadline of the last kind, and the answer or exception of its probe.
LastProbe(w) ==
    /\ pc[w] = "Probe"
    /\ \E where \in IF late THEN {"Expire"} ELSE {"Transition", "Except"} : GoTo(w, where)
    /\ UNCHANGED <<tables, lease, late, requests, environment>>

\* _transition looks neither at the lease nor at the state it replaces.
CommitState(t) ==
    /\ \/ /\ pc[t] = "Transition"
          /\ \E verdict \in TerminalStates : state' = verdict
          /\ GoTo(t, "Complete")
       \/ /\ pc[t] = "Expire"
          /\ state' = "UNKNOWN"
          /\ GoTo(t, "Exceeded")
       \/ /\ pc[t] = "Failing"
          /\ state' = "FAILED"
          /\ GoTo(t, "Fail")
    /\ UNCHANGED <<chain, restarts, report, lease, late, requests, environment>>

RecordState(t) ==
    /\ \/ /\ pc[t] \in {"Complete", "Fail"}
          /\ AppendEvidence("shutdown.completed", "completed")
          /\ GoTo(t, IF pc[t] = "Complete" THEN "Finish" ELSE "Idle")
       \/ /\ pc[t] = "Exceeded"
          /\ AppendEvidence("shutdown.recovery.deadline.exceeded", "exceeded")
          /\ GoTo(t, "Finish")
    /\ UNCHANGED <<state, restarts, report, lease, late, requests, environment>>

\* _finish_shutdown_work, or _fail_shutdown_work of the except clause: only
\* the owner's UPDATE matches the row.
CompleteWork(t) ==
    /\ \/ pc[t] = "Finish" /\ GoTo(t, "Idle")
       \/ pc[t] = "Except" /\ GoTo(t, "Failing")
    /\ lease' = IF lease.owner = t THEN Complete ELSE lease
    /\ UNCHANGED <<tables, late, requests, environment>>

\* _adapter_run of a resumed worker.
LoadState(w) ==
    /\ pc[w] = "Load"
    /\ GoTo(w, IF state \in TerminalStates THEN "Ended" ELSE "Live")
    /\ UNCHANGED <<tables, lease, late, requests, environment>>

\* Its event, and the deadline, which comes before the state.
RecordResume(w) ==
    /\ pc[w] \in {"Live", "Ended"}
    /\ AppendEvidence("shutdown.recovery.resumed", "resumed")
    /\ GoTo(w, CASE late                     -> "Expire"
                 [] ~late /\ pc[w] = "Live"  -> "Probe"
                 [] ~late /\ pc[w] = "Ended" -> "Finish")
    /\ UNCHANGED <<state, restarts, report, lease, late, requests, environment>>

-----------------------------------------------------------------------------
(* recover_incomplete_shutdowns                                            *)

\* Mutant: a lease that has not lapsed is claimed as well.
ClaimableAlways == lease # Complete

Claimable == lease.open

\* The rows of the incomplete shutdowns are read once.
StartRound ==
    /\ pc[Recovery] = "Idle"
    /\ state \notin TerminalStates
    /\ GoTo(Recovery, "Claim")
    /\ UNCHANGED <<tables, lease, late, requests, environment>>

RecoverBusy ==
    /\ pc[Recovery] = "Claim"
    /\ ~Claimable
    /\ GoTo(Recovery, "Idle")
    /\ UNCHANGED <<tables, lease, late, requests, environment>>

\* _expire_shutdown gets the row of StartRound.
RecoverExpired ==
    /\ pc[Recovery] = "Claim"
    /\ Claimable
    /\ late
    /\ lease' = Held(Recovery)
    /\ GoTo(Recovery, "Expire")
    /\ UNCHANGED <<tables, late, requests, environment>>

RecoverResumable(w) ==
    /\ pc[Recovery] = "Claim"
    /\ Claimable
    /\ ~late
    /\ pc[w] = "Idle"
    /\ lease' = Held(w)
    /\ pc' = [pc EXCEPT ![Recovery] = "Idle", ![w] = "Load"]
    /\ UNCHANGED <<tables, late, requests, environment>>

PassDeadline ==
    /\ ~late
    /\ late' = TRUE
    /\ UNCHANGED <<tables, pc, lease, requests, environment>>

\* The time of a lease is over, under a thread that is still at work or not.
LapseLease ==
    /\ lease.owner # Nobody
    /\ ~lease.open
    /\ lease' = [lease EXCEPT !.open = TRUE]
    /\ IF lease.owner \in Threads
          THEN overruns < MaxOverruns /\ overruns' = overruns + 1
          ELSE overruns' = overruns
    /\ UNCHANGED <<tables, pc, late, requests, storeFaults, crashes>>

-----------------------------------------------------------------------------
(* report                                                                  *)

Reporting(r, where) == reporter[r].pc = where

\* Mutant: every caller enters.
MayReportUnlocked(r) == Reporting(r, "Idle")

\* _report_lock is free for r.
MayReport(r) == Reporting(r, "Idle") /\ lock = Nobody

\* A stored report is returned as it is.
BeginReport(r) ==
    /\ MayReport(r)
    /\ report = NoReport
    /\ lock' = r
    /\ reporter' = [reporter EXCEPT ![r].pc = "Load"]
    /\ UNCHANGED <<tables, shutdown, responder, calls, environment>>

Reportable == state \in TerminalStates

EndReport(r) == /\ lock' = Nobody
                /\ reporter' = [reporter EXCEPT ![r] = IdleReporter]

\* get_run, and the ConflictError of a run that is still being shut down.
LoadRun(r) ==
    /\ Reporting(r, "Load")
    /\ \/ /\ Reportable
          /\ reporter' = [reporter EXCEPT ![r] =
                            [pc |-> "Manifest", state |-> state,
                             restarted |-> restarts > 0, count |-> 0]]
          /\ UNCHANGED lock
       \/ ~Reportable /\ EndReport(r)
    /\ UNCHANGED <<tables, shutdown, responder, calls, environment>>

\* evidence: only the manifest goes into the report.
ReadManifest(r) ==
    /\ Reporting(r, "Manifest")
    /\ reporter' = [reporter EXCEPT ![r].pc = "Save", ![r].count = Len(chain)]
    /\ UNCHANGED <<tables, shutdown, lock, responder, calls, environment>>

\* The report that r has put together.
ReportOf(r) == [state |-> reporter[r].state, restarted |-> reporter[r].restarted,
                count |-> reporter[r].count]

\* run_id is the primary key of the table, which refuses a second report.
SaveReport(r) ==
    /\ Reporting(r, "Save")
    /\ report = NoReport
    /\ report' = ReportOf(r)
    /\ reporter' = [reporter EXCEPT ![r].pc = "Announce"]
    /\ UNCHANGED <<state, chain, restarts, shutdown, lock, responder, calls,
                   environment>>

AnnounceReport(r) ==
    /\ Reporting(r, "Announce")
    /\ AppendEvidence("shutdown.report.signed", "report")
    /\ EndReport(r)
    /\ UNCHANGED <<state, restarts, report, shutdown, responder, calls,
                   environment>>

-----------------------------------------------------------------------------
(* request_restart                                                         *)

\* Mutant: a second restart is always another one.
RestartNeededAgain == state \in TerminalStates

\* A restart row there already is returned as it is.
RestartNeeded == state \in TerminalStates /\ restarts = 0

\* _adapter_run, and the look for a restart row.
CheckRestart(r) ==
    /\ responder[r] = "Idle"
    /\ RestartNeeded
    /\ responder' = [responder EXCEPT ![r] = "Call"]
    /\ UNCHANGED <<tables, shutdown, reports, calls, environment>>

\* The gateway is asked: whatever it answers, or nothing, becomes a row.
CallGateway(r) ==
    /\ responder[r] = "Call"
    /\ calls' = calls + 1
    /\ responder' = [responder EXCEPT ![r] = "Save"]
    /\ UNCHANGED <<tables, shutdown, reports, environment>>

SaveRestart(r) ==
    /\ responder[r] = "Save"
    /\ restarts' = restarts + 1
    /\ responder' = [responder EXCEPT ![r] = "Record"]
    /\ UNCHANGED <<state, chain, report, shutdown, reports, calls, environment>>

RecordRestart(r) ==
    /\ responder[r] = "Record"
    /\ AppendEvidence("shutdown.restart.probe.result", "restart")
    /\ responder' = [responder EXCEPT ![r] = "Idle"]
    /\ UNCHANGED <<state, restarts, report, shutdown, reports, calls, environment>>

-----------------------------------------------------------------------------
(* Failing transactions and restarts                                       *)

\* These threads end without a transaction: a lease of theirs has to lapse.
Orphaned(threads) ==
    IF lease.owner \in threads THEN [lease EXCEPT !.owner = Dead] ELSE lease

\* _orchestrate raises in its try block; or the except clause, or the recovery
\* round, is over, the latter perhaps between a claim and its thread.
ShutdownRaises(t) ==
    /\ pc[t] # "Idle"
    /\ IF t # Recovery /\ pc[t] \notin {"Except", "Failing", "Fail"}
          THEN GoTo(t, "Except") /\ lease' = lease
          ELSE /\ GoTo(t, "Idle")
               /\ \/ lease' = Orphaned({t})
                  \/ pc[t] = "Claim" /\ Claimable /\ ~late /\ lease' = Held(Dead)
    /\ UNCHANGED <<late, requests>>

\* A request fails, or a thread of the shutdown raises.
StoreRaises ==
    /\ storeFaults < MaxStoreFaults
    /\ storeFaults' = storeFaults + 1
    /\ \/ \E t \in Threads : ShutdownRaises(t)
       \/ /\ lock # Nobody
          /\ EndReport(lock)
          /\ UNCHANGED <<shutdown, responder, calls>>
       \/ \E r \in Responders :
              /\ responder[r] \in {"Save", "Record"}
              /\ responder' = [responder EXCEPT ![r] = "Idle"]
              /\ UNCHANGED <<shutdown, reports, calls>>
    /\ UNCHANGED <<tables, overruns, crashes>>

\* Every thread is gone; what is in the tables stays.
CrashRestart ==
    /\ crashes < MaxCrashes
    /\ crashes' = crashes + 1
    /\ pc' = [t \in Threads |-> "Idle"]
    /\ lease' = Orphaned(Threads)
    /\ lock' = Nobody
    /\ reporter' = [r \in Reporters |-> IdleReporter]
    /\ responder' = [r \in Responders |-> "Idle"]
    /\ UNCHANGED <<tables, late, calls, overruns, storeFaults>>

-----------------------------------------------------------------------------
(* The specification                                                       *)

ReportStep(r) == \/ BeginReport(r) \/ LoadRun(r) \/ ReadManifest(r)
                 \/ SaveReport(r) \/ AnnounceReport(r)

RestartStep(r) == \/ CheckRestart(r) \/ CallGateway(r)
                  \/ SaveRestart(r) \/ RecordRestart(r)

WorkerStep(w) == LastProbe(w) \/ LoadState(w) \/ RecordResume(w) \/ RecoverResumable(w)

ThreadStep(t) == CommitState(t) \/ RecordState(t) \/ CompleteWork(t)

Next ==
    \/ \E t \in Threads : ThreadStep(t)
    \/ \E w \in Workers : WorkerStep(w)
    \/ StartRound
    \/ RecoverBusy
    \/ RecoverExpired
    \/ PassDeadline
    \/ LapseLease
    \/ \E r \in Reporters : ReportStep(r)
    \/ \E r \in Responders : RestartStep(r)
    \/ StoreRaises
    \/ CrashRestart

Spec == Init /\ [][Next]_vars

-----------------------------------------------------------------------------
(* Properties                                                              *)

EventTypes == {"shutdown.requested", "shutdown.completed",
               "shutdown.recovery.resumed", "shutdown.recovery.deadline.exceeded",
               "shutdown.report.signed", "shutdown.restart.probe.result"}

Payloads == {"requested", "completed", "resumed", "exceeded", "report", "restart"}

Record == [sequence_no : Nat, event_type : EventTypes, payload_hash : Payloads,
           previous_hash : Payloads \cup {Genesis}]

Report == [state : TerminalStates, restarted : BOOLEAN, count : Nat]

RecoveryPCs == {"Idle", "Claim", "Expire", "Exceeded", "Finish"}

WorkerPCs == {"Idle", "Load", "Live", "Ended", "Probe", "Transition", "Complete",
              "Expire", "Exceeded", "Finish", "Except", "Failing", "Fail"}

\* Every variable has its type, a state on its way to the evidence is terminal,
\* the thread that holds _report_lock is the one that reports, and nothing was
\* read that is not there.
TypeOK ==
    /\ state \in {"PROBING"} \cup TerminalStates
    /\ pc \in [Threads -> WorkerPCs \cup {"Claim"}]
    /\ \A t \in Threads :
           /\ pc[t] \in IF t = Recovery THEN RecoveryPCs ELSE WorkerPCs
           /\ pc[t] \in {"Complete", "Exceeded", "Fail"} => state \in TerminalStates
    /\ lease \in [owner : Threads \cup {Dead, Nobody}, open : BOOLEAN]
    /\ lease.owner = Nobody => lease = Complete
    /\ late \in BOOLEAN
    /\ chain \in Seq(Record)
    /\ restarts \in Nat
    /\ calls \in Nat
    /\ \/ report = NoReport
       \/ report \in Report /\ report.count <= Len(chain)
    /\ lock \in Reporters \cup {Nobody}
    /\ reporter \in [Reporters -> [pc : {"Idle", "Load", "Manifest", "Save", "Announce"},
                                   state : {"RUNNING"} \cup TerminalStates,
                                   restarted : BOOLEAN, count : Nat]]
    /\ \A r \in Reporters :
           /\ reporter[r].pc # "Idle" <=> lock = r
           /\ reporter[r].pc \in {"Manifest", "Save"} => reporter[r].state \in TerminalStates
           /\ reporter[r].count <= Len(chain)
    /\ responder \in [Responders -> {"Idle", "Call", "Save", "Record"}]
    /\ overruns \in 0 .. MaxOverruns
    /\ storeFaults \in 0 .. MaxStoreFaults
    /\ crashes \in 0 .. MaxCrashes

\* README "Stores a per-run SHA-256 evidence chain": whatever threads append
\* at the same time, verify_chain accepts the chain.
ChainVerifies == VerifyChain(chain)

\* docs/report-siem-restart.md "The first request creates and stores an
\* immutable report": of two first requests at once, none runs into the
\* other's report.
ReportsNeverConflict ==
    \A r \in Reporters : reporter[r].pc = "Save" => report = NoReport

\* docs/report-siem-restart.md "available after a run reaches a terminal
\* shutdown state": the signed report names the state in which the run stays,
\* whatever recovery does with the row it read before. There are two ways out:
\* after a transaction raised, the except clause writes FAILED and recovery
\* UNKNOWN over a verdict, and a thread whose lease lapsed writes whatever it
\* was about to (the run `unknown` of ShutdownOrchestrator).
Describes(reported) ==
    \/ reported = state
    \/ state \in {"FAILED", "UNKNOWN"} /\ storeFaults > 0
    \/ overruns > 0

ReportDescribesRun == report # NoReport => Describes(report.state)

\* docs/report-siem-restart.md: the restart result "is idempotent per run".
RestartIdempotent == restarts <= 1

\* What is left of it: however often requests are repeated, the gateway is
\* asked for more than one restart only by requests at the same time, and
\* again only after a restart of the process or a transaction that raised
\* between its answer and the row.
RestartCallsBounded ==
    calls <= Cardinality(Responders) * (1 + crashes) + storeFaults

\* docs/report-siem-restart.md: the report includes "every probe result
\* (including restart when executed)". A restart in the evidence that the
\* report covers is among its results.
ReportIncludesRestart ==
    report # NoReport /\ ~report.restarted =>
        \A i \in 1 .. report.count :
            chain[i].event_type # "shutdown.restart.probe.result"

=============================================================================
