--------------------------- MODULE EvidenceProofs ---------------------------
(***************************************************************************)
(* What holds of RunEvidence for any request threads, any number of        *)
(* failing transactions and restarts.                                      *)
(***************************************************************************)
EXTENDS RunEvidence, FiniteSetTheorems, TLAPS

-----------------------------------------------------------------------------
(* The chain                                                               *)

\* verify_chain accepts the chain, whose records are typed.
ChainInv == chain \in Seq(Record) /\ VerifyChain(chain)

\* append links the new record to the last one, so a verified chain stays one.
LEMMA AppendVerified ==
    ASSUME ChainInv, NEW type \in EventTypes, NEW payload \in Payloads,
           AppendEvidence(type, payload)
    PROVE  ChainInv' /\ Len(chain') = Len(chain) + 1
<1> DEFINE n == Len(chain)
           rec == [sequence_no |-> Sequence, event_type |-> type,
                   payload_hash |-> payload, previous_hash |-> PreviousHash]
<1>1. n \in Nat /\ \A i \in 1 .. n : chain[i] \in Record
  BY DEF ChainInv
<1>2. n > 0 => n \in 1 .. n /\ chain # <<>>
  BY <1>1
<1>3. n = 0 => chain = <<>>
  BY DEF ChainInv
<1>4. Sequence = n + 1
  BY <1>1, <1>2, <1>3 DEF Sequence, ChainInv, VerifyChain
<1>5. PreviousHash = IF n + 1 = 1 THEN Genesis ELSE chain[n].payload_hash
  BY <1>1, <1>2, <1>3 DEF PreviousHash
<1>6. PreviousHash \in Payloads \cup {Genesis}
  BY <1>1, <1>2, <1>5 DEF Record
<1>7. rec \in Record
  BY <1>1, <1>4, <1>6 DEF Record
<1> HIDE DEF rec
<1>8. chain' = Append(chain, rec)
  BY DEF AppendEvidence, rec
<1>9. /\ chain' \in Seq(Record) /\ Len(chain') = n + 1
      /\ \A i \in 1 .. n : chain'[i] = chain[i]
      /\ chain'[n + 1] = rec
  BY <1>7, <1>8 DEF ChainInv
<1>10. ASSUME NEW i \in 1 .. n + 1
       PROVE  /\ chain'[i].sequence_no = i
              /\ chain'[i].previous_hash =
                     IF i = 1 THEN Genesis ELSE chain'[i - 1].payload_hash
  <2>1. CASE i = n + 1
    <3>1. rec.sequence_no = n + 1 /\ rec.previous_hash = PreviousHash
      BY <1>4 DEF rec
    <3>2. i # 1 => i - 1 = n /\ n \in 1 .. n
      BY <1>1, <2>1
    <3>3. QED BY <1>5, <1>9, <2>1, <3>1, <3>2
  <2>2. CASE i # n + 1
    <3>1. i \in 1 .. n /\ (i # 1 => i - 1 \in 1 .. n)
      BY <1>1, <2>2
    <3>2. QED BY <1>9, <3>1 DEF ChainInv, VerifyChain
  <2>3. QED BY <2>1, <2>2
<1>11. DOMAIN chain' = 1 .. n + 1
  BY <1>9
<1>12. QED BY <1>9, <1>10, <1>11 DEF ChainInv, VerifyChain
\* The steps of the shutdown that write no evidence, and the steps of no thread.
SilentStep ==
    \/ \E t \in Threads : CommitState(t) \/ CompleteWork(t)
    \/ \E w \in Workers : LastProbe(w) \/ LoadState(w) \/ RecoverResumable(w)
    \/ StartRound \/ RecoverBusy \/ RecoverExpired \/ PassDeadline \/ LapseLease
    \/ UNCHANGED vars

LEMMA SilentKeeps ==
    SilentStep => /\ UNCHANGED <<chain, restarts, report, requests, storeFaults, crashes>>
                  /\ UNCHANGED overruns \/ LapseLease
BY DEF SilentStep, CommitState, CompleteWork, LastProbe, LoadState, RecoverResumable,
       StartRound, RecoverBusy, RecoverExpired, PassDeadline, LapseLease, tables,
       environment, vars

\* Every step is silent, or writes evidence, or is a request's, or a failure.
LEMMA Steps ==
    ASSUME [Next]_vars
    PROVE  \/ SilentStep
           \/ \E t \in Threads : RecordState(t)
           \/ \E w \in Workers : RecordResume(w)
           \/ \E r \in Reporters : ReportStep(r)
           \/ \E r \in Responders : RestartStep(r)
           \/ StoreRaises
           \/ CrashRestart
BY DEF Next, ThreadStep, WorkerStep, SilentStep

LEMMA ChainInit == Init => ChainInv
<1> SUFFICES ASSUME Init PROVE ChainInv
  OBVIOUS
<1> DEFINE rec == [sequence_no |-> 1, event_type |-> "shutdown.requested",
                   payload_hash |-> "requested", previous_hash |-> Genesis]
<1>1. rec \in Record
  BY DEF Record, EventTypes, Payloads
<1>2. chain = <<rec>>
  BY DEF Init
<1>3. QED BY <1>1, <1>2 DEF ChainInv, VerifyChain

LEMMA ChainStep == ChainInv /\ [Next]_vars => ChainInv'
<1> SUFFICES ASSUME ChainInv, [Next]_vars PROVE ChainInv'
  OBVIOUS
<1>1. CASE UNCHANGED chain
  BY <1>1 DEF ChainInv, VerifyChain
<1>2. ASSUME NEW t \in Threads, RecordState(t) PROVE ChainInv'
  BY <1>2, AppendVerified DEF RecordState, EventTypes, Payloads
<1>3. ASSUME NEW w \in Workers, RecordResume(w) PROVE ChainInv'
  BY <1>3, AppendVerified DEF RecordResume, EventTypes, Payloads
<1>4. ASSUME NEW r \in Reporters, ReportStep(r) PROVE ChainInv'
  <2>1. CASE AnnounceReport(r)
    BY <2>1, AppendVerified DEF AnnounceReport, EventTypes, Payloads
  <2>2. QED BY <1>1, <1>4, <2>1 DEF ReportStep, BeginReport, LoadRun, ReadManifest,
                                    SaveReport, tables
<1>5. ASSUME NEW r \in Responders, RestartStep(r) PROVE ChainInv'
  <2>1. CASE RecordRestart(r)
    BY <2>1, AppendVerified DEF RecordRestart, EventTypes, Payloads
  <2>2. QED BY <1>1, <1>5, <2>1 DEF RestartStep, CheckRestart, CallGateway, SaveRestart,
                                    tables
<1>6. CASE StoreRaises \/ CrashRestart
  BY <1>1, <1>6 DEF StoreRaises, CrashRestart, tables
<1>7. CASE SilentStep
  BY <1>1, <1>7, SilentKeeps
<1>8. QED BY <1>2, <1>3, <1>4, <1>5, <1>6, <1>7, Steps

\* Every chain the service writes is accepted by verify_chain.
THEOREM ChainAlwaysVerifies == Spec => []ChainVerifies
<1>1. ChainInv => ChainVerifies
  BY DEF ChainInv, ChainVerifies
<1>2. QED BY <1>1, ChainInit, ChainStep, PTL DEF Spec

-----------------------------------------------------------------------------
(* Type correctness: the shutdown                                          *)

Lease == [owner : Threads \cup {Dead, Nobody}, open : BOOLEAN]

\* Where a thread may be.
Places(t) == IF t = Recovery THEN RecoveryPCs ELSE WorkerPCs

\* What TypeOK says of the shutdown.
ShutdownOK ==
    /\ state \in {"PROBING"} \cup TerminalStates
    /\ pc \in [Threads -> WorkerPCs \cup {"Claim"}]
    /\ \A t \in Threads :
           /\ pc[t] \in Places(t)
           /\ pc[t] \in {"Complete", "Exceeded", "Fail"} => state \in TerminalStates
    /\ lease \in Lease
    /\ lease.owner = Nobody => lease = Complete
    /\ late \in BOOLEAN

LEMMA Recoverer ==
    /\ Recovery \in Threads /\ Workers \subseteq Threads
    /\ \A w \in Workers : w # Recovery /\ Places(w) = WorkerPCs
    /\ Places(Recovery) = RecoveryPCs
    /\ \A t \in Threads : Places(t) \subseteq WorkerPCs \cup {"Claim"}
BY EvidenceAssumption DEF Threads, Places, WorkerPCs, RecoveryPCs

LEMMA LeaseTypes ==
    /\ \A t \in Threads : Held(t) \in Lease /\ Held(t).owner = t /\ ~Held(t).open
    /\ Held(Dead) \in Lease /\ Held(Dead).owner = Dead /\ ~Held(Dead).open
    /\ Complete \in Lease /\ Complete.owner = Nobody /\ ~Complete.open
    /\ Nobody \notin Threads /\ Dead \notin Threads /\ Dead # Nobody
BY EvidenceAssumption DEF Held, Complete, Lease, Threads

\* A thread that goes on, in a state that only turns terminal.
LEMMA ThreadMoves ==
    ASSUME ShutdownOK, NEW t \in Threads, NEW where \in Places(t), GoTo(t, where),
           where \in {"Complete", "Exceeded", "Fail"} => state' \in TerminalStates,
           state' = state \/ state' \in TerminalStates,
           lease' \in Lease, lease'.owner = Nobody => lease' = Complete,
           late' = late
    PROVE  ShutdownOK'
<1>1. pc' \in [Threads -> WorkerPCs \cup {"Claim"}]
      /\ \A u \in Threads : pc'[u] = IF u = t THEN where ELSE pc[u]
  BY Recoverer DEF ShutdownOK, GoTo
<1>2. \A u \in Threads :
          /\ pc'[u] \in Places(u)
          /\ pc'[u] \in {"Complete", "Exceeded", "Fail"} => state' \in TerminalStates
  BY <1>1 DEF ShutdownOK
<1>3. Complete' = Complete
  BY DEF Complete, Held
<1>4. QED BY <1>1, <1>2, <1>3 DEF ShutdownOK

LEMMA ShutdownInit == Init => ShutdownOK
<1> SUFFICES ASSUME Init PROVE ShutdownOK
  OBVIOUS
<1>1. PICK w \in Workers :
          /\ pc = [t \in Threads |-> IF t = w THEN "Probe" ELSE "Idle"]
          /\ lease = Held(w)
  BY DEF Init
<1>2. w \in Threads /\ lease \in Lease /\ lease.owner # Nobody
  BY <1>1, Recoverer, LeaseTypes
<1>3. \A t \in Threads : pc[t] \in Places(t) /\ pc[t] \in {"Probe", "Idle"}
  BY <1>1, Recoverer DEF Places, RecoveryPCs, WorkerPCs
<1>4. QED BY <1>1, <1>2, <1>3 DEF Init, ShutdownOK, WorkerPCs

LEMMA ShutdownRaisesOK ==
    ASSUME ShutdownOK, NEW t \in Threads, ShutdownRaises(t), UNCHANGED state
    PROVE  ShutdownOK'
<1>1. late' = late
  BY DEF ShutdownRaises
<1>2. CASE t # Recovery /\ pc[t] \notin {"Except", "Failing", "Fail"}
  BY <1>1, <1>2, ThreadMoves DEF ShutdownRaises, Places, WorkerPCs, ShutdownOK
<1>3. CASE ~(t # Recovery /\ pc[t] \notin {"Except", "Failing", "Fail"})
  <2>1. GoTo(t, "Idle") /\ (lease' = Orphaned({t}) \/ lease' = Held(Dead))
    BY <1>3 DEF ShutdownRaises
  <2>2. lease' \in Lease /\ (lease'.owner = Nobody => lease' = Complete)
    BY <2>1, LeaseTypes DEF Orphaned, ShutdownOK, Lease
  <2>3. "Idle" \in Places(t)
    BY DEF Places, WorkerPCs, RecoveryPCs
  <2>4. QED BY <1>1, <2>1, <2>2, <2>3, ThreadMoves
<1>4. QED BY <1>2, <1>3

LEMMA ShutdownStep == ShutdownOK /\ [Next]_vars => ShutdownOK'
<1> SUFFICES ASSUME ShutdownOK, [Next]_vars PROVE ShutdownOK'
  OBVIOUS
<1>1. CASE UNCHANGED <<state, pc, lease, late>>
  BY <1>1 DEF ShutdownOK, Complete, Held
<1>2. ASSUME NEW t \in Threads, CommitState(t) PROVE ShutdownOK'
  <2>1. lease' = lease /\ late' = late
    BY <1>2 DEF CommitState
  <2>2. pc[t] \in Places(t) /\ lease \in Lease /\ (lease.owner = Nobody => lease = Complete)
    BY DEF ShutdownOK
  <2>3. PICK where \in Places(t) : GoTo(t, where) /\ state' \in TerminalStates
    BY <1>2, <2>2
    DEF CommitState, Places, WorkerPCs, RecoveryPCs, TerminalStates
  <2>4. QED BY <2>1, <2>2, <2>3, ThreadMoves
<1>3. ASSUME NEW t \in Threads, RecordState(t) PROVE ShutdownOK'
  <2>1. lease' = lease /\ late' = late /\ state' = state
    BY <1>3 DEF RecordState
  <2>2. pc[t] \in Places(t) /\ lease \in Lease /\ (lease.owner = Nobody => lease = Complete)
    BY DEF ShutdownOK
  <2>3. PICK where \in Places(t) : GoTo(t, where) /\ where \in {"Finish", "Idle"}
    BY <1>3, <2>2 DEF RecordState, Places, WorkerPCs, RecoveryPCs
  <2>4. QED BY <2>1, <2>2, <2>3, ThreadMoves
<1>4. ASSUME NEW t \in Threads, CompleteWork(t) PROVE ShutdownOK'
  <2>1. late' = late /\ state' = state
    BY <1>4 DEF CompleteWork, tables
  <2>2. lease' \in Lease /\ (lease'.owner = Nobody => lease' = Complete)
    BY <1>4, LeaseTypes DEF CompleteWork, ShutdownOK
  <2>3. pc[t] \in Places(t)
    BY DEF ShutdownOK
  <2>4. PICK where \in Places(t) : GoTo(t, where) /\ where \in {"Failing", "Idle"}
    BY <1>4, <2>3 DEF CompleteWork, Places, WorkerPCs, RecoveryPCs
  <2>5. QED BY <2>1, <2>2, <2>4, ThreadMoves
<1>5. ASSUME NEW w \in Workers, LastProbe(w) \/ LoadState(w) \/ RecordResume(w)
      PROVE  ShutdownOK'
  <2>1. late' = late /\ state' = state /\ lease' = lease
    BY <1>5 DEF LastProbe, LoadState, RecordResume, tables
  <2>2. lease \in Lease /\ (lease.owner = Nobody => lease = Complete) /\ late \in BOOLEAN
    BY DEF ShutdownOK
  <2>3. PICK where \in Places(w) : GoTo(w, where) /\ where \notin {"Complete", "Exceeded", "Fail"}
    BY <1>5, <2>2, Recoverer DEF LastProbe, LoadState, RecordResume, WorkerPCs
  <2>4. QED BY <2>1, <2>2, <2>3, Recoverer, ThreadMoves
<1>6. CASE StartRound \/ RecoverBusy \/ RecoverExpired
  <2>1. late' = late /\ state' = state
    BY <1>6 DEF StartRound, RecoverBusy, RecoverExpired, tables
  <2>2. lease' \in Lease /\ (lease'.owner = Nobody => lease' = Complete)
    BY <1>6, LeaseTypes, Recoverer
    DEF StartRound, RecoverBusy, RecoverExpired, ShutdownOK
  <2>3. PICK where \in Places(Recovery) :
            GoTo(Recovery, where) /\ where \in {"Claim", "Idle", "Expire"}
    BY <1>6, Recoverer DEF StartRound, RecoverBusy, RecoverExpired, RecoveryPCs
  <2>4. QED BY <2>1, <2>2, <2>3, Recoverer, ThreadMoves
<1>7. ASSUME NEW w \in Workers, RecoverResumable(w) PROVE ShutdownOK'
  <2>1. /\ late' = late /\ state' = state /\ lease' = Held(w)
        /\ pc' = [pc EXCEPT ![Recovery] = "Idle", ![w] = "Load"]
    BY <1>7 DEF RecoverResumable, tables
  <2>2. \A u \in Threads : pc'[u] = IF u = w THEN "Load"
                                   ELSE IF u = Recovery THEN "Idle" ELSE pc[u]
    BY <2>1, Recoverer DEF ShutdownOK
  <2>3. lease' \in Lease /\ lease'.owner # Nobody
    BY <2>1, LeaseTypes, Recoverer
  <2>4. \A u \in Threads :
            /\ pc'[u] \in Places(u)
            /\ pc'[u] \in {"Complete", "Exceeded", "Fail"} => state' \in TerminalStates
    BY <2>1, <2>2 DEF ShutdownOK, Places, WorkerPCs, RecoveryPCs
  <2>5. pc' \in [Threads -> WorkerPCs \cup {"Claim"}]
    BY <2>1, Recoverer DEF ShutdownOK, WorkerPCs
  <2>6. QED BY <2>1, <2>3, <2>4, <2>5 DEF ShutdownOK
<1>8. CASE PassDeadline \/ LapseLease
  <2>1. UNCHANGED <<state, pc>> /\ late' \in BOOLEAN
    BY <1>8 DEF PassDeadline, LapseLease, tables, ShutdownOK
  <2>2. lease' \in Lease /\ (lease'.owner = Nobody => lease' = Complete)
    BY <1>8 DEF PassDeadline, LapseLease, ShutdownOK, Lease
  <2>3. QED BY <2>1, <2>2 DEF ShutdownOK, Complete, Held
<1>9. ASSUME NEW r \in Reporters, ReportStep(r) PROVE ShutdownOK'
  BY <1>1, <1>9 DEF ReportStep, BeginReport, LoadRun, ReadManifest, SaveReport,
                    AnnounceReport, tables, shutdown
<1>10. ASSUME NEW r \in Responders, RestartStep(r) PROVE ShutdownOK'
  BY <1>1, <1>10 DEF RestartStep, CheckRestart, CallGateway, SaveRestart, RecordRestart,
                     tables, shutdown
<1>11. CASE StoreRaises
  <2>1. CASE UNCHANGED shutdown
    BY <1>1, <1>11, <2>1 DEF StoreRaises, tables, shutdown
  <2>2. CASE \E t \in Threads : ShutdownRaises(t)
    BY <1>11, <2>2, ShutdownRaisesOK DEF StoreRaises, tables
  <2>3. QED BY <1>11, <2>1, <2>2 DEF StoreRaises
<1>12. CASE CrashRestart
  <2>1. /\ pc' = [t \in Threads |-> "Idle"] /\ lease' = Orphaned(Threads)
        /\ state' = state /\ late' = late
    BY <1>12 DEF CrashRestart, tables
  <2>2. lease' \in Lease /\ (lease'.owner = Nobody => lease' = Complete)
    BY <2>1, LeaseTypes DEF Orphaned, ShutdownOK, Lease
  <2>3. QED BY <2>1, <2>2 DEF ShutdownOK, Places, WorkerPCs, RecoveryPCs, Complete, Held
<1>13. CASE UNCHANGED vars
  BY <1>1, <1>13 DEF vars, tables, shutdown
<1>14. QED
  BY <1>2, <1>3, <1>4, <1>5, <1>6, <1>7, <1>8, <1>9, <1>10, <1>11, <1>12, <1>13
  DEF Next, ThreadStep, WorkerStep

-----------------------------------------------------------------------------
(* Type correctness: the requests                                          *)

ReporterType == [pc : {"Idle", "Load", "Manifest", "Save", "Announce"},
                 state : {"RUNNING"} \cup TerminalStates,
                 restarted : BOOLEAN, count : Nat]

\* What TypeOK says of a reporter.
ReporterOK(r) ==
    /\ reporter[r].pc # "Idle" <=> lock = r
    /\ reporter[r].pc \in {"Manifest", "Save"} => reporter[r].state \in TerminalStates
    /\ reporter[r].count <= Len(chain)

\* What TypeOK says of reports and reporters.
ReportersOK ==
    /\ \/ report = NoReport
       \/ report \in Report /\ report.count <= Len(chain)
    /\ lock \in Reporters \cup {Nobody}
    /\ reporter \in [Reporters -> ReporterType]
    /\ \A r \in Reporters : ReporterOK(r)

LEMMA IdleType == IdleReporter \in ReporterType /\ IdleReporter.pc = "Idle"
                  /\ IdleReporter.count = 0
BY DEF IdleReporter, ReporterType

LEMMA ReporterFacts ==
    ASSUME TypeOK, NEW r \in Reporters
    PROVE  reporter[r] \in ReporterType /\ ReporterOK(r)
BY DEF TypeOK, ReporterType, ReporterOK

\* A step that leaves the reporters, the lock and the report alone, and does
\* not shorten the chain.
LEMMA ReportersKept ==
    ASSUME TypeOK, ChainInv, ChainInv', UNCHANGED <<lock, reporter, report>>,
           Len(chain) <= Len(chain')
    PROVE  ReportersOK'
<1>1. Len(chain) \in Nat /\ Len(chain') \in Nat
  BY DEF ChainInv
<1>2. report = NoReport \/ (report \in Report /\ report.count \in Nat)
  BY DEF TypeOK, Report
<1>3. \A r \in Reporters : reporter[r].count \in Nat
  BY DEF TypeOK
<1>4. QED BY <1>1, <1>2, <1>3 DEF TypeOK, ReportersOK, ReporterType, ReporterOK

\* The reporter that may hold the lock goes on with the record v.
LEMMA ReporterMoves ==
    ASSUME TypeOK, ChainInv, NEW r \in Reporters, NEW v \in ReporterType,
           lock \in {r, Nobody}, lock' \in {r, Nobody},
           reporter' = [reporter EXCEPT ![r] = v],
           v.pc # "Idle" <=> lock' = r,
           v.pc \in {"Manifest", "Save"} => v.state \in TerminalStates,
           v.count <= Len(chain'),
           \/ report' = report
           \/ report' \in Report /\ report'.count <= Len(chain'),
           ChainInv', Len(chain) <= Len(chain')
    PROVE  ReportersOK'
<1>1. Len(chain) \in Nat /\ Len(chain') \in Nat
  BY DEF ChainInv
<1>2. reporter' \in [Reporters -> ReporterType]
  BY DEF TypeOK, ReporterType
<1>3. ReporterOK(r)'
  BY DEF TypeOK, ReporterOK
<1>4. ASSUME NEW q \in Reporters, q # r PROVE ReporterOK(q)'
  <2>1. reporter'[q] = reporter[q] /\ reporter[q].count \in Nat
    BY <1>4 DEF TypeOK
  <2>2. reporter[q].pc = "Idle" /\ lock' # q
    BY <1>4, EvidenceAssumption DEF TypeOK
  <2>3. QED BY <1>1, <2>1, <2>2 DEF TypeOK, ReporterOK
<1>5. \/ report' = NoReport
      \/ report' \in Report /\ report'.count <= Len(chain')
  BY <1>1 DEF TypeOK, Report
<1>6. lock' \in Reporters \cup {Nobody}
  OBVIOUS
<1>7. QED BY <1>2, <1>3, <1>4, <1>5, <1>6 DEF ReportersOK

LEMMA ShutdownTyped == TypeOK => ShutdownOK
BY DEF TypeOK, ShutdownOK, Places, Lease

LEMMA TypeInit == Init => TypeOK
<1> SUFFICES ASSUME Init PROVE TypeOK
  OBVIOUS
<1>1. ChainInv
  BY ChainInit
<1>2. Len(chain) \in Nat /\ chain \in Seq(Record)
  BY <1>1 DEF ChainInv
<1>3. \A r \in Reporters : reporter[r].pc = "Idle" /\ lock # r /\ reporter[r].count = 0
  BY IdleType, EvidenceAssumption DEF Init
<1>4. reporter \in [Reporters -> ReporterType]
  BY IdleType DEF Init
<1>5. ShutdownOK
  BY ShutdownInit
<1>6. QED BY <1>2, <1>3, <1>4, <1>5, EvidenceAssumption
          DEF Init, TypeOK, ShutdownOK, Places, Lease, ReporterType

\* The parts of TypeOK that no reporter touches.
OthersOK ==
    /\ ShutdownOK
    /\ chain \in Seq(Record)
    /\ restarts \in Nat
    /\ calls \in Nat
    /\ responder \in [Responders -> {"Idle", "Call", "Save", "Record"}]
    /\ overruns \in 0 .. MaxOverruns
    /\ storeFaults \in 0 .. MaxStoreFaults
    /\ crashes \in 0 .. MaxCrashes

LEMMA TypeParts == TypeOK <=> OthersOK /\ ReportersOK
BY DEF TypeOK, OthersOK, ReportersOK, ShutdownOK, Places, Lease, ReporterType, ReporterOK

LEMMA OthersStep == OthersOK /\ ChainInv' /\ ShutdownOK' /\ [Next]_vars => OthersOK'
<1> SUFFICES ASSUME OthersOK, ChainInv', ShutdownOK', [Next]_vars PROVE OthersOK'
  OBVIOUS
<1>1. chain' \in Seq(Record)
  BY DEF ChainInv
<1>2. CASE SilentStep
  <2>1. UNCHANGED <<restarts, calls, responder, storeFaults, crashes>>
    BY <1>2, SilentKeeps DEF requests
  <2>2. overruns' \in 0 .. MaxOverruns
    BY <1>2, SilentKeeps, EvidenceAssumption DEF LapseLease, OthersOK
  <2>3. QED BY <1>1, <2>1, <2>2 DEF OthersOK
<1>3. ASSUME NEW t \in Threads, RecordState(t) PROVE OthersOK'
  BY <1>1, <1>3 DEF RecordState, OthersOK, requests, environment
<1>4. ASSUME NEW w \in Workers, RecordResume(w) PROVE OthersOK'
  BY <1>1, <1>4 DEF RecordResume, OthersOK, requests, environment
<1>5. ASSUME NEW r \in Reporters, ReportStep(r) PROVE OthersOK'
  BY <1>1, <1>5 DEF ReportStep, BeginReport, LoadRun, ReadManifest, SaveReport,
                    AnnounceReport, OthersOK, tables, environment
<1>6. ASSUME NEW r \in Responders, RestartStep(r) PROVE OthersOK'
  BY <1>1, <1>6 DEF RestartStep, CheckRestart, CallGateway, SaveRestart, RecordRestart,
                    OthersOK, tables, environment
<1>7. CASE StoreRaises
  <2>1. UNCHANGED <<restarts, calls, overruns, crashes>>
    BY <1>7 DEF StoreRaises, ShutdownRaises, tables, requests
  <2>2. storeFaults' \in 0 .. MaxStoreFaults
    BY <1>7, EvidenceAssumption DEF StoreRaises, OthersOK
  <2>3. responder' \in [Responders -> {"Idle", "Call", "Save", "Record"}]
    BY <1>7 DEF StoreRaises, ShutdownRaises, OthersOK, requests
  <2>4. QED BY <1>1, <2>1, <2>2, <2>3 DEF OthersOK
<1>8. CASE CrashRestart
  BY <1>1, <1>8, EvidenceAssumption DEF CrashRestart, OthersOK, tables
<1>9. QED BY <1>2, <1>3, <1>4, <1>5, <1>6, <1>7, <1>8, Steps

LEMMA ReportersStep == TypeOK /\ ChainInv /\ ChainInv' /\ [Next]_vars => ReportersOK'
<1> SUFFICES ASSUME TypeOK, ChainInv, ChainInv', [Next]_vars PROVE ReportersOK'
  OBVIOUS
<1>1. Len(chain) \in Nat /\ Len(chain') \in Nat
  BY DEF ChainInv
<1>2. ASSUME UNCHANGED <<lock, reporter, report>>, Len(chain) <= Len(chain')
      PROVE  ReportersOK'
  BY <1>2, ReportersKept
<1>3. CASE UNCHANGED <<lock, reporter, report, chain>>
  BY <1>1, <1>2, <1>3
<1>4. ASSUME \/ \E t \in Threads : RecordState(t)
             \/ \E w \in Workers : RecordResume(w)
      PROVE  ReportersOK'
  <2>1. Len(chain') = Len(chain) + 1
    BY <1>4, AppendVerified DEF RecordState, RecordResume, EventTypes, Payloads
  <2>2. QED BY <1>1, <1>2, <1>4, <2>1 DEF RecordState, RecordResume, requests, reports
<1>5. ASSUME NEW r \in Responders, RecordRestart(r) PROVE ReportersOK'
  <2>1. Len(chain') = Len(chain) + 1
    BY <1>5, AppendVerified DEF RecordRestart, EventTypes, Payloads
  <2>2. QED BY <1>1, <1>2, <1>5, <2>1 DEF RecordRestart, reports
<1>6. ASSUME NEW r \in Reporters, BeginReport(r) PROVE ReportersOK'
  <2> DEFINE v == [reporter[r] EXCEPT !.pc = "Load"]
  <2>1. v \in ReporterType /\ v.pc = "Load" /\ v.count <= Len(chain)
    BY ReporterFacts DEF ReporterType, ReporterOK
  <2>2. reporter' = [reporter EXCEPT ![r] = v] /\ lock = Nobody /\ lock' = r
        /\ chain' = chain /\ report' = report
    BY <1>6 DEF BeginReport, MayReport, tables
  <2> HIDE DEF v
  <2>3. v.pc \notin {"Manifest", "Save"} /\ v.pc # "Idle"
    BY <2>1
  <2>4. v.count <= Len(chain') /\ Len(chain) <= Len(chain')
    BY <1>1, <2>1, <2>2
  <2>5. QED BY <2>1, <2>2, <2>3, <2>4, ReporterMoves
<1>7. ASSUME NEW r \in Reporters, EndReport(r), lock = r, report' = report,
             Len(chain) <= Len(chain')
      PROVE  ReportersOK'
  <2>1. lock' = Nobody /\ reporter' = [reporter EXCEPT ![r] = IdleReporter]
    BY <1>7 DEF EndReport
  <2>2. r # Nobody
    BY EvidenceAssumption
  <2>3. /\ IdleReporter.pc \notin {"Manifest", "Save"}
        /\ IdleReporter.count <= Len(chain')
    BY <1>1, IdleType
  <2>4. QED BY <1>7, <2>1, <2>2, <2>3, IdleType, ReporterMoves
<1>8. ASSUME NEW r \in Reporters, LoadRun(r) PROVE ReportersOK'
  <2>1. lock = r /\ chain' = chain /\ report' = report
    BY <1>8 DEF LoadRun, Reporting, TypeOK, tables
  <2>2. CASE EndReport(r)
    BY <1>1, <1>7, <2>1, <2>2
  <2>3. CASE ~EndReport(r)
    <3> DEFINE v == [pc |-> "Manifest", state |-> state, restarted |-> restarts > 0,
                     count |-> 0]
    <3>1. state \in TerminalStates /\ lock' = r /\ reporter' = [reporter EXCEPT ![r] = v]
      BY <1>8, <2>1, <2>3 DEF LoadRun, Reportable
    <3>2. v \in ReporterType
      BY <3>1 DEF ReporterType
    <3>3. v.pc = "Manifest" /\ v.state = state /\ v.count = 0
      OBVIOUS
    <3> HIDE DEF v
    <3>4. v.pc # "Idle" /\ v.count <= Len(chain') /\ Len(chain) <= Len(chain')
      BY <1>1, <2>1, <3>3
    <3>5. QED BY <2>1, <3>1, <3>2, <3>3, <3>4, ReporterMoves
  <2>4. QED BY <2>2, <2>3
<1>9. ASSUME NEW r \in Reporters, ReadManifest(r) PROVE ReportersOK'
  <2> DEFINE v == [reporter[r] EXCEPT !.pc = "Save", !.count = Len(chain)]
  <2>1. v \in ReporterType /\ v.pc = "Save" /\ v.count = Len(chain)
        /\ v.state = reporter[r].state
    BY <1>1, ReporterFacts DEF ReporterType
  <2>2. lock = r /\ reporter[r].state \in TerminalStates
    BY <1>9 DEF ReadManifest, Reporting, TypeOK
  <2>3. reporter' = [reporter EXCEPT ![r] = v] /\ lock' = r
        /\ chain' = chain /\ report' = report
    BY <1>9, <2>2 DEF ReadManifest, tables
  <2> HIDE DEF v
  <2>4. v.pc # "Idle" /\ v.count <= Len(chain') /\ Len(chain) <= Len(chain')
    BY <1>1, <2>1, <2>3
  <2>5. QED BY <2>1, <2>2, <2>3, <2>4, ReporterMoves
<1>10. ASSUME NEW r \in Reporters, SaveReport(r) PROVE ReportersOK'
  <2> DEFINE v == [reporter[r] EXCEPT !.pc = "Announce"]
  <2>1. v \in ReporterType /\ v.pc = "Announce" /\ v.count <= Len(chain)
    BY ReporterFacts DEF ReporterType, ReporterOK
  <2>2. lock = r /\ reporter[r].state \in TerminalStates
    BY <1>10 DEF SaveReport, Reporting, TypeOK
  <2>3. report' \in Report /\ report'.count <= Len(chain)
    BY <1>10, <2>2 DEF SaveReport, ReportOf, Report, TypeOK
  <2>4. reporter' = [reporter EXCEPT ![r] = v] /\ lock' = r /\ chain' = chain
    BY <1>10, <2>2 DEF SaveReport
  <2> HIDE DEF v
  <2>5. v.pc \notin {"Manifest", "Save"} /\ v.pc # "Idle"
    BY <2>1
  <2>6. /\ v.count <= Len(chain') /\ Len(chain) <= Len(chain')
        /\ report'.count <= Len(chain')
    BY <1>1, <2>1, <2>3, <2>4
  <2>7. QED BY <2>1, <2>2, <2>3, <2>4, <2>5, <2>6, ReporterMoves
<1>11. ASSUME NEW r \in Reporters, AnnounceReport(r) PROVE ReportersOK'
  <2>1. Len(chain') = Len(chain) + 1
    BY <1>11, AppendVerified DEF AnnounceReport, EventTypes, Payloads
  <2>2. lock = r
    BY <1>11 DEF AnnounceReport, Reporting, TypeOK
  <2>3. QED BY <1>1, <1>7, <1>11, <2>1, <2>2 DEF AnnounceReport
<1>12. CASE StoreRaises
  <2>1. CASE UNCHANGED <<lock, reporter>>
    BY <1>3, <1>12, <2>1 DEF StoreRaises, tables
  <2>2. CASE lock # Nobody /\ EndReport(lock)
    BY <1>1, <1>7, <1>12, <2>2 DEF StoreRaises, TypeOK, tables
  <2>3. QED BY <1>12, <2>1, <2>2 DEF StoreRaises, ShutdownRaises, requests, reports
<1>13. CASE CrashRestart
  <2>1. reporter' \in [Reporters -> ReporterType] /\ lock' = Nobody
        /\ \A r \in Reporters : reporter'[r] = IdleReporter
    BY <1>13, IdleType DEF CrashRestart
  <2>2. \A r \in Reporters : ReporterOK(r)'
    BY <1>1, <2>1, IdleType, EvidenceAssumption DEF ReporterOK
  <2>3. QED BY <1>13, <2>1, <2>2 DEF CrashRestart, ReportersOK, TypeOK, tables
<1>14. QED
  <2>1. CASE SilentStep
    BY <1>3, <2>1, SilentKeeps DEF requests, reports
  <2>2. ASSUME NEW r \in Responders, RestartStep(r) PROVE ReportersOK'
    BY <1>3, <1>5, <2>2 DEF RestartStep, CheckRestart, CallGateway, SaveRestart, tables,
                            reports
  <2>3. QED BY <1>4, <1>6, <1>8, <1>9, <1>10, <1>11, <1>12, <1>13, <2>1, <2>2, Steps
            DEF ReportStep

LEMMA TypeStep == TypeOK /\ ChainInv /\ ChainInv' /\ ShutdownOK' /\ [Next]_vars => TypeOK'
<1>1. OthersOK' /\ ReportersOK' => TypeOK'
  BY TypeParts, PTL
<1>2. QED BY <1>1, TypeParts, OthersStep, ReportersStep

\* Every reachable state is typed, and the reporter that is under way holds
\* the lock.
THEOREM TypeCorrect == Spec => []TypeOK
<1>1. QED BY TypeInit, TypeStep, ShutdownTyped, ShutdownStep, ChainInit, ChainStep,
             PTL DEF Spec

-----------------------------------------------------------------------------
(* One report                                                              *)

\* A reporter that saw no report works on the first one: _report_lock keeps
\* the others out until it is stored.
FirstReport ==
    \A r \in Reporters : reporter[r].pc \in {"Load", "Manifest", "Save"} => report = NoReport

LEMMA FirstInit == Init => FirstReport
BY IdleType DEF Init, FirstReport

LEMMA FirstStep == TypeOK /\ FirstReport /\ [Next]_vars => FirstReport'
<1> SUFFICES ASSUME TypeOK, FirstReport, [Next]_vars PROVE FirstReport'
  OBVIOUS
<1>1. CASE UNCHANGED <<reporter, report>>
  BY <1>1 DEF FirstReport
<1>2. ASSUME NEW r \in Reporters, BeginReport(r) PROVE FirstReport'
  BY <1>2 DEF BeginReport, FirstReport, tables
<1>3. ASSUME NEW r \in Reporters, EndReport(r), report' = report PROVE FirstReport'
  <2>1. \A q \in Reporters : reporter'[q] = IF q = r THEN IdleReporter ELSE reporter[q]
    BY <1>3 DEF EndReport, TypeOK
  <2>2. QED BY <1>3, <2>1, IdleType DEF FirstReport
<1>4. ASSUME NEW r \in Reporters, LoadRun(r) PROVE FirstReport'
  <2>1. report' = report /\ reporter[r].pc = "Load"
    BY <1>4 DEF LoadRun, Reporting, tables
  <2>2. CASE EndReport(r)
    BY <1>3, <2>1, <2>2
  <2>3. CASE ~EndReport(r)
    BY <1>4, <2>1, <2>3 DEF LoadRun, FirstReport, TypeOK
  <2>4. QED BY <2>2, <2>3
<1>5. ASSUME NEW r \in Reporters, ReadManifest(r) PROVE FirstReport'
  BY <1>5 DEF ReadManifest, Reporting, FirstReport, TypeOK, tables
<1>6. ASSUME NEW r \in Reporters, SaveReport(r) PROVE FirstReport'
  <2>1. \A q \in Reporters : q # r => reporter[q].pc = "Idle"
    BY <1>6 DEF SaveReport, Reporting, TypeOK
  <2>2. reporter'[r].pc = "Announce"
    BY <1>6, ReporterFacts DEF SaveReport, TypeOK, ReporterType
  <2>3. \A q \in Reporters : q # r => reporter'[q] = reporter[q]
    BY <1>6 DEF SaveReport, TypeOK
  <2>4. QED BY <2>1, <2>2, <2>3 DEF FirstReport
<1>7. ASSUME NEW r \in Reporters, AnnounceReport(r) PROVE FirstReport'
  BY <1>3, <1>7 DEF AnnounceReport
<1>8. CASE StoreRaises
  <2>1. CASE UNCHANGED reporter
    BY <1>1, <1>8, <2>1 DEF StoreRaises, tables
  <2>2. CASE lock # Nobody /\ EndReport(lock)
    BY <1>3, <1>8, <2>2 DEF StoreRaises, TypeOK, tables
  <2>3. QED BY <1>8, <2>1, <2>2 DEF StoreRaises, ShutdownRaises, requests, reports
<1>9. CASE CrashRestart
  BY <1>9, IdleType DEF CrashRestart, FirstReport
<1>10. CASE SilentStep
  BY <1>1, <1>10, SilentKeeps DEF requests, reports
<1>11. ASSUME \/ \E t \in Threads : RecordState(t)
              \/ \E w \in Workers : RecordResume(w)
       PROVE  FirstReport'
  BY <1>1, <1>11 DEF RecordState, RecordResume, requests, reports
<1>12. ASSUME NEW r \in Responders, RestartStep(r) PROVE FirstReport'
  BY <1>1, <1>12 DEF RestartStep, CheckRestart, CallGateway, SaveRestart, RecordRestart,
                     tables, reports
<1>13. QED
  BY <1>2, <1>4, <1>5, <1>6, <1>7, <1>8, <1>9, <1>10, <1>11, <1>12, Steps DEF ReportStep

\* No reporter ever runs into the primary key of another one's report.
THEOREM OneReporter == Spec => []ReportsNeverConflict
<1>1. FirstReport => ReportsNeverConflict
  BY DEF FirstReport, ReportsNeverConflict
<1>2. QED BY <1>1, TypeCorrect, FirstInit, FirstStep, PTL DEF Spec

-----------------------------------------------------------------------------
(* The report and the run                                                  *)

-----------------------------------------------------------------------------
(* The report and the run                                                  *)

\* Where a thread takes the lease of the work to be its own.
Owning == {"Load", "Live", "Ended", "Probe", "Transition", "Complete", "Expire",
           "Exceeded", "Finish", "Except"}

\* Once the except clause has given the lease up, nobody can claim it.
Surrendered == {"Failing", "Fail"}

\* As long as no lease lapses under a living thread, one thread at a time is at
\* work on the shutdown, and it probes what has no verdict yet.
LeaseKept ==
    /\ \A t \in Threads :
           /\ pc[t] \in Owning => lease = Held(t)
           /\ pc[t] \in Surrendered =>
                  lease = Complete /\ \A u \in Threads \ {t} : pc[u] \notin Surrendered
           /\ pc[t] \in {"Live", "Probe", "Transition"} => state \notin TerminalStates
    /\ lease.open => lease.owner = Dead

\* As long as no transaction raises either, a thread that would expire or fail
\* the shutdown finds it without a verdict as well.
Unfaulted ==
    /\ \A t \in Threads :
           /\ pc[t] \in {"Load", "Expire", "Except", "Failing"} => state \notin TerminalStates
           /\ pc[t] # "Ended"
    /\ pc[Recovery] = "Claim" /\ lease.owner = Dead => state \notin TerminalStates

WriterInv == overruns = 0 => LeaseKept /\ (storeFaults = 0 => Unfaulted)

LEMMA WriterInit == Init => WriterInv
<1> SUFFICES ASSUME Init PROVE WriterInv
  OBVIOUS
<1>1. PICK w \in Workers :
          /\ pc = [t \in Threads |-> IF t = w THEN "Probe" ELSE "Idle"]
          /\ lease = Held(w)
  BY DEF Init
<1>2. state \notin TerminalStates
  BY DEF Init, TerminalStates
<1>3. \A t \in Threads : pc[t] = IF t = w THEN "Probe" ELSE "Idle"
  BY <1>1
<1>4. ~lease.open /\ pc[Recovery] = "Idle"
  BY <1>1, <1>3, LeaseTypes, Recoverer
<1>5. QED BY <1>1, <1>2, <1>3, <1>4 DEF WriterInv, LeaseKept, Unfaulted, Owning, Surrendered

\* Owning and Surrendered exclude each other, and one owns the lease at a time.
LEMMA OneOwner ==
    ASSUME LeaseKept, NEW t \in Threads, NEW u \in Threads, u # t
    PROVE  /\ pc[t] \in Owning => pc[u] \notin Owning \cup Surrendered
           /\ pc[t] \in Surrendered => pc[u] \notin Owning \cup Surrendered
           /\ pc[t] \in Owning \cup Surrendered => lease.owner # Dead /\ ~lease.open
<1>1. Held(t) # Held(u) /\ Held(t) # Complete /\ Held(u) # Complete
  BY LeaseTypes
<1>2. QED BY <1>1, LeaseTypes DEF LeaseKept

\* A step of a thread that owns the lease and keeps it.
LEMMA OwnerMoves ==
    ASSUME ShutdownOK, WriterInv, NEW t \in Threads, NEW where \in Owning \cup {"Idle"},
           pc[t] \in Owning, GoTo(t, where), UNCHANGED <<lease, overruns, storeFaults>>,
           overruns = 0 => /\ where \in {"Live", "Probe", "Transition"} =>
                                  state' \notin TerminalStates
                           /\ storeFaults = 0 /\ where \in {"Load", "Expire", "Except"} =>
                                  state' \notin TerminalStates
                           /\ storeFaults = 0 => where # "Ended"
    PROVE  WriterInv'
<1> SUFFICES ASSUME overruns = 0 PROVE LeaseKept' /\ (storeFaults = 0 => Unfaulted')
  BY DEF WriterInv
<1>1. LeaseKept /\ (storeFaults = 0 => Unfaulted) /\ lease = Held(t)
  BY DEF WriterInv, LeaseKept
<1>2. \A u \in Threads : pc'[u] = IF u = t THEN where ELSE pc[u]
  BY DEF GoTo, ShutdownOK
<1>3. \A u \in Threads \ {t} : pc'[u] \notin Owning \cup Surrendered
  BY <1>1, <1>2, OneOwner
<1>4. lease.owner # Dead /\ ~lease.open
  BY <1>1, LeaseTypes
<1>5. \A u \in Threads : Held(u)' = Held(u)
  BY DEF Held
<1>6. LeaseKept'
  BY <1>1, <1>2, <1>3, <1>4, <1>5 DEF LeaseKept, Owning, Surrendered
<1>7. storeFaults = 0 => Unfaulted'
  BY <1>1, <1>2, <1>3, <1>4 DEF Unfaulted, Owning, Surrendered
<1>8. QED BY <1>6, <1>7

\* A step that takes a lease which nobody owns.
LEMMA ClaimMoves ==
    ASSUME ShutdownOK, WriterInv, NEW t \in Threads, NEW where \in {"Load", "Expire"},
           pc[Recovery] = "Claim", lease.open, lease' = Held(t),
           \A u \in Threads : pc'[u] = IF u = t THEN where
                                       ELSE IF u = Recovery THEN "Idle" ELSE pc[u],
           UNCHANGED <<state, overruns, storeFaults>>
    PROVE  WriterInv'
<1> SUFFICES ASSUME overruns = 0 PROVE LeaseKept' /\ (storeFaults = 0 => Unfaulted')
  BY DEF WriterInv
<1>1. LeaseKept /\ (storeFaults = 0 => Unfaulted) /\ lease.owner = Dead
  BY DEF WriterInv, LeaseKept
<1>2. \A u \in Threads : pc[u] \notin Owning \cup Surrendered
  BY <1>1, OneOwner, LeaseTypes DEF LeaseKept
<1>3. \A u \in Threads \ {t} : pc'[u] \notin Owning \cup Surrendered
  BY <1>2 DEF Owning, Surrendered
<1>4. Held(t)' = Held(t) /\ ~lease'.open /\ lease'.owner # Dead /\ pc'[t] = where
  BY LeaseTypes DEF Held
<1>5. LeaseKept'
  BY <1>3, <1>4 DEF LeaseKept, Owning, Surrendered
<1>6. storeFaults = 0 => Unfaulted'
  BY <1>1, <1>3, <1>4, Recoverer DEF Unfaulted, Owning, Surrendered
<1>7. QED BY <1>5, <1>6

\* A step that changes neither the threads of the shutdown nor what they own.
LEMMA WriterKept ==
    ASSUME WriterInv, UNCHANGED <<state, pc, lease, overruns>>,
           storeFaults' = 0 => storeFaults = 0
    PROVE  WriterInv'
BY DEF WriterInv, LeaseKept, Unfaulted, Held, Complete

\* A thread that is on its way, or the recovery round, raises.
LEMMA RaisesWriter ==
    ASSUME ShutdownOK, WriterInv, NEW t \in Threads, ShutdownRaises(t),
           UNCHANGED <<state, overruns>>, storeFaults' # 0
    PROVE  WriterInv'
<1> SUFFICES ASSUME overruns = 0 PROVE LeaseKept'
  BY DEF WriterInv
<1>1. LeaseKept
  BY DEF WriterInv
<1>2. \A u \in Threads : Held(u)' = Held(u) /\ Complete' = Complete
  BY DEF Held, Complete
<1>3. CASE t # Recovery /\ pc[t] \notin {"Except", "Failing", "Fail"}
  <2>1. pc[t] \in Owning /\ lease' = lease
        /\ \A u \in Threads : pc'[u] = IF u = t THEN "Except" ELSE pc[u]
    BY <1>3 DEF ShutdownRaises, GoTo, ShutdownOK, Places, WorkerPCs, Owning
  <2>2. QED BY <1>1, <1>2, <2>1, OneOwner DEF LeaseKept, Owning, Surrendered
<1>4. CASE ~(t # Recovery /\ pc[t] \notin {"Except", "Failing", "Fail"})
  <2>1. /\ \A u \in Threads : pc'[u] = IF u = t THEN "Idle" ELSE pc[u]
        /\ \/ lease' = Orphaned({t})
           \/ pc[t] = "Claim" /\ lease.open /\ lease' = Held(Dead)
    BY <1>4 DEF ShutdownRaises, GoTo, ShutdownOK, Claimable
  <2>2. CASE lease' = Orphaned({t}) /\ lease.owner # t
    BY <1>1, <1>2, <2>1, <2>2 DEF Orphaned, LeaseKept, Owning, Surrendered
  <2>3. CASE lease' = Orphaned({t}) /\ lease.owner = t
    <3>1. lease'.owner = Dead
      BY <2>3 DEF Orphaned, ShutdownOK, Lease
    <3>2. \A u \in Threads : pc'[u] \notin Owning \cup Surrendered
      BY <1>1, <2>1, <2>3, LeaseTypes DEF LeaseKept, Owning, Surrendered
    <3>3. QED BY <3>1, <3>2 DEF LeaseKept, Owning, Surrendered
  <2>4. CASE lease.open /\ lease' = Held(Dead)
    <3>1. \A u \in Threads : pc[u] \notin Owning \cup Surrendered
      BY <1>1, <2>4, LeaseTypes DEF LeaseKept
    <3>2. \A u \in Threads : pc'[u] \notin Owning \cup Surrendered
      BY <2>1, <3>1 DEF Owning, Surrendered
    <3>3. ~lease'.open
      BY <2>4, LeaseTypes
    <3>4. QED BY <3>2, <3>3 DEF LeaseKept, Owning, Surrendered
  <2>5. QED BY <2>1, <2>2, <2>3, <2>4
<1>5. QED BY <1>3, <1>4

LEMMA WriterStep == TypeOK /\ WriterInv /\ [Next]_vars => WriterInv'
<1> SUFFICES ASSUME TypeOK, WriterInv, [Next]_vars PROVE WriterInv'
  OBVIOUS
<1>1. ShutdownOK /\ overruns \in Nat /\ storeFaults \in Nat
  BY ShutdownTyped, EvidenceAssumption DEF TypeOK
<1>2. CASE UNCHANGED <<state, pc, lease, overruns, storeFaults>>
  BY <1>2, WriterKept
<1>3. ASSUME NEW t \in Threads, CommitState(t) PROVE WriterInv'
  <2>1. UNCHANGED <<lease, overruns, storeFaults>>
    BY <1>3 DEF CommitState, environment
  <2>2. CASE pc[t] \in {"Transition", "Expire"}
    BY <1>1, <1>3, <2>1, <2>2, OwnerMoves DEF CommitState, Owning
  <2>3. CASE pc[t] = "Failing"
    <3> SUFFICES ASSUME overruns = 0 PROVE LeaseKept' /\ (storeFaults = 0 => Unfaulted')
      BY <2>1 DEF WriterInv
    <3>1. LeaseKept /\ lease = Complete
      BY <2>3 DEF WriterInv, LeaseKept, Surrendered
    <3>2. \A u \in Threads : pc'[u] = IF u = t THEN "Fail" ELSE pc[u]
      BY <1>1, <1>3, <2>3 DEF CommitState, GoTo, ShutdownOK
    <3>3. \A u \in Threads \ {t} : pc'[u] \notin Owning \cup Surrendered
      BY <2>3, <3>1, <3>2, OneOwner DEF Surrendered
    <3>4. lease' = Complete' /\ ~lease'.open /\ lease'.owner # Dead
      BY <2>1, <3>1, LeaseTypes DEF Complete, Held
    <3>5. LeaseKept'
      BY <3>2, <3>3, <3>4 DEF LeaseKept, Owning, Surrendered
    <3>6. storeFaults = 0 => Unfaulted'
      BY <3>2, <3>3, <3>4 DEF WriterInv, Unfaulted, Owning, Surrendered
    <3>7. QED BY <3>5, <3>6
  <2>4. QED BY <1>3, <2>2, <2>3 DEF CommitState
<1>4. ASSUME NEW t \in Threads, RecordState(t) PROVE WriterInv'
  <2>1. UNCHANGED <<state, lease, overruns, storeFaults>>
    BY <1>4 DEF RecordState, environment
  <2>2. CASE pc[t] \in {"Complete", "Exceeded"}
    BY <1>1, <1>4, <2>1, <2>2, OwnerMoves DEF RecordState, Owning
  <2>3. CASE pc[t] = "Fail"
    <3>1. \A u \in Threads : pc'[u] = IF u = t THEN "Idle" ELSE pc[u]
      BY <1>1, <1>4, <2>3 DEF RecordState, GoTo, ShutdownOK
    <3>2. \A u \in Threads : Held(u)' = Held(u) /\ Complete' = Complete
      BY DEF Held, Complete
    <3>3. LeaseKept => LeaseKept'
      BY <2>1, <3>1, <3>2 DEF LeaseKept, Owning, Surrendered
    <3>4. Unfaulted => Unfaulted'
      BY <2>1, <3>1, Recoverer DEF Unfaulted
    <3>5. QED BY <2>1, <3>3, <3>4 DEF WriterInv
  <2>4. QED BY <1>4, <2>2, <2>3 DEF RecordState
<1>5. ASSUME NEW t \in Threads, CompleteWork(t) PROVE WriterInv'
  <2>1. UNCHANGED <<state, overruns, storeFaults>>
    BY <1>5 DEF CompleteWork, tables, environment
  <2> SUFFICES ASSUME overruns = 0 PROVE LeaseKept' /\ (storeFaults = 0 => Unfaulted')
    BY <2>1 DEF WriterInv
  <2>2. LeaseKept /\ pc[t] \in Owning /\ lease' = Complete
    BY <1>5, LeaseTypes DEF CompleteWork, WriterInv, LeaseKept, Owning
  <2>3. PICK where \in {"Idle", "Failing"} :
            /\ \A u \in Threads : pc'[u] = IF u = t THEN where ELSE pc[u]
            /\ where = "Failing" => pc[t] = "Except"
    BY <1>1, <1>5 DEF CompleteWork, GoTo, ShutdownOK
  <2>4. \A u \in Threads \ {t} : pc'[u] \notin Owning \cup Surrendered
    BY <2>2, <2>3, OneOwner
  <2>5. lease' = Complete' /\ ~lease'.open /\ lease'.owner # Dead
    BY <2>2, LeaseTypes DEF Complete, Held
  <2>6. LeaseKept'
    BY <2>3, <2>4, <2>5 DEF LeaseKept, Owning, Surrendered
  <2>7. storeFaults = 0 => Unfaulted'
    BY <2>1, <2>3, <2>4, <2>5 DEF WriterInv, Unfaulted, Owning, Surrendered
  <2>8. QED BY <2>6, <2>7
<1>6. ASSUME NEW w \in Workers, LastProbe(w) PROVE WriterInv'
  <2>1. UNCHANGED <<state, lease, overruns, storeFaults>> /\ pc[w] = "Probe"
    BY <1>6 DEF LastProbe, tables, environment
  <2>2. PICK where \in {"Expire", "Transition", "Except"} : GoTo(w, where)
    BY <1>6 DEF LastProbe
  <2>3. overruns = 0 => state \notin TerminalStates
    BY <2>1, Recoverer DEF WriterInv, LeaseKept
  <2>4. QED BY <1>1, <2>1, <2>2, <2>3, OwnerMoves, Recoverer DEF Owning
<1>7. ASSUME NEW w \in Workers, LoadState(w) PROVE WriterInv'
  <2>1. UNCHANGED <<state, lease, overruns, storeFaults>> /\ pc[w] = "Load"
    BY <1>7 DEF LoadState, tables, environment
  <2>2. PICK where \in {"Ended", "Live"} :
            GoTo(w, where) /\ where = IF state \in TerminalStates THEN "Ended" ELSE "Live"
    BY <1>7 DEF LoadState
  <2>3. overruns = 0 /\ storeFaults = 0 => state \notin TerminalStates
    BY <2>1, Recoverer DEF WriterInv, Unfaulted
  <2>4. QED BY <1>1, <2>1, <2>2, <2>3, OwnerMoves, Recoverer DEF Owning
<1>8. ASSUME NEW w \in Workers, RecordResume(w) PROVE WriterInv'
  <2>1. UNCHANGED <<state, lease, overruns, storeFaults>> /\ pc[w] \in {"Live", "Ended"}
    BY <1>8 DEF RecordResume, environment
  <2>2. PICK where \in {"Expire", "Probe", "Finish"} :
            GoTo(w, where) /\ (where = "Probe" => pc[w] = "Live")
    BY <1>1, <1>8 DEF RecordResume, ShutdownOK
  <2>3. overruns = 0 => /\ pc[w] = "Live" => state \notin TerminalStates
                        /\ storeFaults = 0 => pc[w] = "Live"
    BY <2>1, Recoverer DEF WriterInv, LeaseKept, Unfaulted
  <2>4. QED BY <1>1, <2>1, <2>2, <2>3, OwnerMoves, Recoverer DEF Owning
<1>9. ASSUME NEW w \in Workers, RecoverResumable(w) PROVE WriterInv'
  <2>1. /\ UNCHANGED <<state, overruns, storeFaults>> /\ pc[Recovery] = "Claim"
        /\ lease.open /\ lease' = Held(w)
        /\ pc' = [pc EXCEPT ![Recovery] = "Idle", ![w] = "Load"]
    BY <1>9 DEF RecoverResumable, Claimable, tables, environment
  <2>2. \A u \in Threads : pc'[u] = IF u = w THEN "Load"
                                    ELSE IF u = Recovery THEN "Idle" ELSE pc[u]
    BY <1>1, <2>1, Recoverer DEF ShutdownOK
  <2>3. QED BY <1>1, <2>1, <2>2, ClaimMoves, Recoverer
<1>10. CASE RecoverExpired
  <2>1. /\ UNCHANGED <<state, overruns, storeFaults>> /\ pc[Recovery] = "Claim"
        /\ lease.open /\ lease' = Held(Recovery)
        /\ pc' = [pc EXCEPT ![Recovery] = "Expire"]
    BY <1>10 DEF RecoverExpired, Claimable, GoTo, tables, environment
  <2>2. \A u \in Threads : pc'[u] = IF u = Recovery THEN "Expire"
                                    ELSE IF u = Recovery THEN "Idle" ELSE pc[u]
    BY <1>1, <2>1, Recoverer DEF ShutdownOK
  <2>3. QED BY <1>1, <2>1, <2>2, ClaimMoves, Recoverer
<1>11. CASE StartRound \/ RecoverBusy
  <2>1. UNCHANGED <<state, lease, overruns, storeFaults>>
    BY <1>11 DEF StartRound, RecoverBusy, tables, environment
  <2>2. PICK where \in {"Claim", "Idle"} :
            /\ \A u \in Threads : pc'[u] = IF u = Recovery THEN where ELSE pc[u]
            /\ where = "Claim" => state \notin TerminalStates
    BY <1>1, <1>11 DEF StartRound, RecoverBusy, GoTo, ShutdownOK
  <2>3. \A u \in Threads : Held(u)' = Held(u) /\ Complete' = Complete
    BY DEF Held, Complete
  <2>4. LeaseKept => LeaseKept'
    BY <2>1, <2>2, <2>3 DEF LeaseKept, Owning, Surrendered
  <2>5. Unfaulted => Unfaulted'
    BY <2>1, <2>2, Recoverer DEF Unfaulted
  <2>6. QED BY <2>1, <2>4, <2>5 DEF WriterInv
<1>12. CASE PassDeadline
  BY <1>2, <1>12 DEF PassDeadline, tables, environment
<1>13. CASE LapseLease
  <2>1. CASE lease.owner \in Threads
    <3>1. overruns' = overruns + 1
      BY <1>13, <2>1 DEF LapseLease
    <3>2. overruns' # 0
      BY <1>1, <3>1
    <3>3. QED BY <3>2 DEF WriterInv
  <2>2. CASE lease.owner \notin Threads
    <3>1. /\ UNCHANGED <<state, pc, overruns, storeFaults>> /\ lease.owner = Dead
          /\ lease'.owner = Dead
      BY <1>1, <1>13, <2>2 DEF LapseLease, ShutdownOK, Lease, tables
    <3>2. LeaseKept => LeaseKept'
      BY <3>1, LeaseTypes DEF LeaseKept
    <3>3. Unfaulted => Unfaulted'
      BY <3>1 DEF Unfaulted
    <3>4. QED BY <3>1, <3>2, <3>3 DEF WriterInv
  <2>3. QED BY <2>1, <2>2
<1>14. ASSUME NEW r \in Reporters, ReportStep(r) PROVE WriterInv'
  <2>1. UNCHANGED <<state, shutdown, environment>>
    BY <1>14 DEF ReportStep, BeginReport, LoadRun, ReadManifest, SaveReport, AnnounceReport,
                 tables
  <2>2. QED BY <1>2, <2>1 DEF shutdown, environment
<1>15. ASSUME NEW r \in Responders, RestartStep(r) PROVE WriterInv'
  <2>1. UNCHANGED <<state, shutdown, environment>>
    BY <1>15 DEF RestartStep, CheckRestart, CallGateway, SaveRestart, RecordRestart, tables
  <2>2. QED BY <1>2, <2>1 DEF shutdown, environment
<1>16. CASE StoreRaises
  <2>1. UNCHANGED <<state, overruns>> /\ storeFaults' = storeFaults + 1
    BY <1>16 DEF StoreRaises, tables
  <2>2. storeFaults' # 0
    BY <1>1, <2>1
  <2>3. CASE UNCHANGED shutdown
    BY <2>1, <2>2, <2>3, WriterKept DEF shutdown
  <2>4. CASE \E t \in Threads : ShutdownRaises(t)
    BY <1>1, <2>1, <2>2, <2>4, RaisesWriter
  <2>5. QED BY <1>16, <2>3, <2>4 DEF StoreRaises
<1>17. CASE CrashRestart
  <2>1. /\ UNCHANGED <<state, overruns, storeFaults>>
        /\ \A t \in Threads : pc'[t] = "Idle"
        /\ lease' = Orphaned(Threads)
    BY <1>17 DEF CrashRestart, tables
  <2>2. LeaseKept => LeaseKept'
    BY <1>1, <2>1, LeaseTypes DEF LeaseKept, Orphaned, Owning, Surrendered, ShutdownOK, Lease
  <2>3. Unfaulted'
    BY <2>1, Recoverer DEF Unfaulted
  <2>4. QED BY <2>1, <2>2, <2>3 DEF WriterInv
<1>18. CASE UNCHANGED vars
  BY <1>2, <1>18 DEF vars, tables, shutdown, environment
<1>19. QED
  BY <1>3, <1>4, <1>5, <1>6, <1>7, <1>8, <1>9, <1>10, <1>11, <1>12, <1>13, <1>14, <1>15,
     <1>16, <1>17, <1>18
  DEF Next, ThreadStep, WorkerStep

\* A verdict that describes the run goes on describing it.
LEMMA DescribesKept ==
    ASSUME TypeOK, WriterInv, [Next]_vars, NEW x \in TerminalStates, Describes(x)
    PROVE  Describes(x)'
<1>1. overruns \in Nat /\ storeFaults \in Nat
  BY EvidenceAssumption DEF TypeOK
<1>2. CASE UNCHANGED <<state, overruns>> /\ (storeFaults > 0 => storeFaults' > 0)
  BY <1>2 DEF Describes
<1>3. ASSUME NEW t \in Threads, CommitState(t) PROVE Describes(x)'
  <2>1. UNCHANGED <<overruns, storeFaults>>
    BY <1>3 DEF CommitState, environment
  <2>2. CASE overruns > 0
    BY <2>1, <2>2 DEF Describes
  <2>3. CASE overruns = 0
    <3>1. pc[t] = "Transition" => state \notin TerminalStates
      BY <2>3 DEF WriterInv, LeaseKept
    <3>2. state \in TerminalStates
      BY <2>3, <1>1 DEF Describes, TerminalStates
    <3>3. state' \in {"FAILED", "UNKNOWN"} /\ pc[t] \in {"Expire", "Failing"}
      BY <1>3, <3>1, <3>2 DEF CommitState
    <3>4. storeFaults # 0
      BY <2>3, <3>2, <3>3 DEF WriterInv, Unfaulted
    <3>5. QED BY <1>1, <2>1, <3>3, <3>4 DEF Describes
  <2>4. QED BY <1>1, <2>2, <2>3
<1>4. CASE SilentStep
  <2>1. CASE LapseLease
    <3>1. state' = state /\ storeFaults' = storeFaults
          /\ (overruns' = overruns \/ overruns' = overruns + 1)
      BY <2>1 DEF LapseLease, tables
    <3>2. QED BY <1>1, <3>1 DEF Describes
  <2>2. CASE \E t \in Threads : CommitState(t)
    BY <1>3, <2>2
  <2>3. CASE ~LapseLease /\ ~\E t \in Threads : CommitState(t)
    <3>1. UNCHANGED <<overruns, storeFaults>>
      BY <1>4, <2>3, SilentKeeps
    <3>2. state' = state
      BY <1>4, <2>3 DEF SilentStep, CompleteWork, LastProbe, LoadState, RecoverResumable,
                        StartRound, RecoverBusy, RecoverExpired, PassDeadline, tables, vars
    <3>3. QED BY <1>2, <3>1, <3>2
  <2>4. QED BY <2>1, <2>2, <2>3
<1>5. ASSUME \/ \E t \in Threads : RecordState(t)
             \/ \E w \in Workers : RecordResume(w)
      PROVE  Describes(x)'
  BY <1>2, <1>5 DEF RecordState, RecordResume, environment
<1>6. ASSUME NEW r \in Reporters, ReportStep(r) PROVE Describes(x)'
  BY <1>2, <1>6 DEF ReportStep, BeginReport, LoadRun, ReadManifest, SaveReport,
                    AnnounceReport, tables, environment
<1>7. ASSUME NEW r \in Responders, RestartStep(r) PROVE Describes(x)'
  BY <1>2, <1>7 DEF RestartStep, CheckRestart, CallGateway, SaveRestart, RecordRestart,
                    tables, environment
<1>8. CASE StoreRaises
  <2>1. state' = state /\ overruns' = overruns /\ storeFaults' = storeFaults + 1
    BY <1>8 DEF StoreRaises, tables
  <2>2. QED BY <1>1, <1>2, <2>1
<1>9. CASE CrashRestart
  BY <1>2, <1>9 DEF CrashRestart, tables
<1>10. QED BY <1>4, <1>5, <1>6, <1>7, <1>8, <1>9, Steps

\* What a reporter is about to sign, and what has been signed, describe the run.
Signed ==
    /\ \A r \in Reporters :
           reporter[r].pc \in {"Manifest", "Save"} => Describes(reporter[r].state)
    /\ ReportDescribesRun

LEMMA SignedInit == Init => Signed
BY IdleType DEF Init, Signed, ReportDescribesRun

LEMMA SignedStep ==
    ASSUME TypeOK, WriterInv, Signed, [Next]_vars
    PROVE  Signed'
<1>1. report # NoReport => Describes(report.state)' \/ report' # report
  BY DescribesKept DEF Signed, ReportDescribesRun, TypeOK, Report
<1>2. \A r \in Reporters : reporter[r].pc \in {"Manifest", "Save"} =>
          \A x : x = reporter[r].state => x \in TerminalStates /\ Describes(x)'
  BY DescribesKept DEF Signed, TypeOK
<1>3. CASE UNCHANGED <<report, reporter>>
  BY <1>1, <1>2, <1>3 DEF Signed, ReportDescribesRun
<1>4. ASSUME report' = report,
             \A q \in Reporters : \/ reporter'[q] = reporter[q]
                                  \/ reporter'[q].pc \notin {"Manifest", "Save"}
      PROVE  Signed'
  BY <1>1, <1>2, <1>4 DEF Signed, ReportDescribesRun
<1>5. ASSUME NEW r \in Reporters, EndReport(r), report' = report PROVE Signed'
  <2>1. \A q \in Reporters : reporter'[q] = IF q = r THEN IdleReporter ELSE reporter[q]
    BY <1>5 DEF EndReport, TypeOK
  <2>2. QED BY <1>4, <1>5, <2>1, IdleType
<1>6. ASSUME NEW r \in Reporters, BeginReport(r) PROVE Signed'
  BY <1>4, <1>6, ReporterFacts DEF BeginReport, TypeOK, ReporterType, tables
<1>7. ASSUME NEW r \in Reporters, LoadRun(r) PROVE Signed'
  <2>1. UNCHANGED <<state, report>>
    BY <1>7 DEF LoadRun, tables
  <2>2. CASE EndReport(r)
    BY <1>5, <2>1, <2>2
  <2>3. CASE ~EndReport(r)
    <3>1. \A q \in Reporters : IF q = r THEN reporter'[q].state = state'
                               ELSE reporter'[q] = reporter[q]
      BY <1>7, <2>1, <2>3 DEF LoadRun, TypeOK
    <3>2. \A q \in Reporters :
              reporter'[q].pc \in {"Manifest", "Save"} => Describes(reporter[q].state)'
      BY <1>2, <3>1 DEF Describes
    <3>3. QED BY <1>1, <2>1, <3>2 DEF Signed, ReportDescribesRun
  <2>4. QED BY <2>2, <2>3
<1>8. ASSUME NEW r \in Reporters, ReadManifest(r) PROVE Signed'
  <2>1. \A q \in Reporters : reporter'[q].state = reporter[q].state
                             /\ (q # r => reporter'[q] = reporter[q])
    BY <1>8 DEF ReadManifest, TypeOK
  <2>2. reporter[r].pc = "Manifest" /\ report' = report
    BY <1>8 DEF ReadManifest, Reporting, tables
  <2>3. QED BY <1>1, <1>2, <2>1, <2>2 DEF Signed, ReportDescribesRun
<1>9. ASSUME NEW r \in Reporters, SaveReport(r) PROVE Signed'
  <2>1. \A q \in Reporters : reporter'[q].state = reporter[q].state
                             /\ (q # r => reporter'[q] = reporter[q])
    BY <1>9 DEF SaveReport, TypeOK
  <2>2. report'.state = reporter[r].state /\ reporter[r].pc = "Save"
    BY <1>9 DEF SaveReport, ReportOf, Reporting
  <2>3. QED BY <1>2, <2>1, <2>2 DEF Signed, ReportDescribesRun
<1>10. ASSUME NEW r \in Reporters, AnnounceReport(r) PROVE Signed'
  BY <1>5, <1>10 DEF AnnounceReport
<1>11. ASSUME NEW r \in Responders, RestartStep(r) PROVE Signed'
  BY <1>3, <1>11 DEF RestartStep, CheckRestart, CallGateway, SaveRestart, RecordRestart,
                     tables, reports
<1>12. CASE StoreRaises
  <2>1. report' = report
    BY <1>12 DEF StoreRaises, tables
  <2>2. CASE UNCHANGED reporter
    BY <1>3, <2>1, <2>2
  <2>3. CASE lock # Nobody /\ EndReport(lock)
    BY <1>5, <2>1, <2>3 DEF TypeOK
  <2>4. QED BY <1>12, <2>2, <2>3 DEF StoreRaises, ShutdownRaises, requests, reports
<1>13. CASE CrashRestart
  BY <1>4, <1>13, IdleType DEF CrashRestart, tables
<1>14. CASE SilentStep
  BY <1>3, <1>14, SilentKeeps DEF requests, reports
<1>15. ASSUME \/ \E t \in Threads : RecordState(t)
              \/ \E w \in Workers : RecordResume(w)
       PROVE  Signed'
  BY <1>3, <1>15 DEF RecordState, RecordResume, requests, reports
<1>16. QED
  BY <1>6, <1>7, <1>8, <1>9, <1>10, <1>11, <1>12, <1>13, <1>14, <1>15, Steps DEF ReportStep

\* The signed report names the state in which the run stays, whatever workers,
\* recovery and restarts of the process do, as long as no lease lapses under a
\* living thread; a raising transaction makes FAILED or UNKNOWN of the state
\* and nothing else.
THEOREM ReportIsFinal == Spec => []ReportDescribesRun
<1>1. TypeOK /\ WriterInv /\ Signed /\ [Next]_vars => Signed'
  BY SignedStep
<1>2. Signed => ReportDescribesRun
  BY DEF Signed
<1>3. QED BY <1>1, <1>2, TypeCorrect, WriterInit, WriterStep, SignedInit, PTL DEF Spec

-----------------------------------------------------------------------------
(* Restarts                                                                *)

\* The requests that are about to ask the gateway, and those it has answered.
Calling == {r \in Responders : responder[r] = "Call"}
Answered == {r \in Responders : responder[r] = "Save"}

N == Cardinality(Responders)

\* The calls of the restarts before, which nothing recorded.
Lost == N * crashes + storeFaults

\* Each request under way will ask once more; as long as there is no row, every
\* call belongs to a request whose row is to come, or was lost.
RestartInv ==
    /\ calls + Cardinality(Calling) <= N + Lost
    /\ restarts = 0 => calls <= Cardinality(Answered) + Lost

Counted == /\ N \in Nat /\ Lost \in Nat /\ calls \in Nat
           /\ IsFiniteSet(Calling) /\ Cardinality(Calling) \in Nat
           /\ IsFiniteSet(Answered) /\ Cardinality(Answered) \in Nat
           /\ Cardinality(Calling) + Cardinality(Answered) <= N

LEMMA Counts == ASSUME IsFiniteSet(Responders) PROVE TypeOK => Counted
<1> SUFFICES ASSUME TypeOK PROVE Counted
  OBVIOUS
<1>1. N \in Nat /\ calls \in Nat /\ crashes \in Nat /\ storeFaults \in Nat
  BY FS_CardinalityType, EvidenceAssumption DEF N, TypeOK
<1>2. N * crashes \in Nat
  BY <1>1
<1>3. Calling \subseteq Responders /\ Answered \subseteq Responders
      /\ Calling \cup Answered \subseteq Responders /\ Calling \cap Answered = {}
  BY DEF Calling, Answered
<1>4. IsFiniteSet(Calling) /\ IsFiniteSet(Answered) /\ Cardinality(Calling \cup Answered) <= N
  BY <1>3, FS_Subset DEF N
<1>5. Cardinality(Calling) \in Nat /\ Cardinality(Answered) \in Nat
      /\ Cardinality(Calling \cap Answered) = 0
  BY <1>3, <1>4, FS_CardinalityType, FS_EmptySet
<1>6. Cardinality(Calling \cup Answered) = Cardinality(Calling) + Cardinality(Answered)
  <2>1. Cardinality(Calling \cup Answered) =
            Cardinality(Calling) + Cardinality(Answered) - Cardinality(Calling \cap Answered)
    BY <1>4, FS_Union
  <2>2. QED BY <1>5, <2>1
<1>7. QED BY <1>1, <1>2, <1>4, <1>5, <1>6 DEF Lost, Counted

LEMMA CountsNext == ASSUME IsFiniteSet(Responders) PROVE TypeOK' => Counted'
<1>1. TypeOK => Counted
  BY Counts
<1>2. QED BY <1>1, PTL

LEMMA RestartInit == IsFiniteSet(Responders) /\ Init /\ TypeOK => RestartInv
<1> SUFFICES ASSUME IsFiniteSet(Responders), Init, TypeOK PROVE RestartInv
  OBVIOUS
<1>1. Calling = {} /\ Cardinality(Calling) = 0 /\ calls = 0
  BY FS_EmptySet DEF Init, Calling
<1>2. QED BY <1>1, Counts DEF RestartInv, Counted

LEMMA RestartInvStep ==
    IsFiniteSet(Responders) /\ TypeOK /\ TypeOK' /\ RestartInv /\ [Next]_vars => RestartInv'
<1> SUFFICES ASSUME IsFiniteSet(Responders), TypeOK, TypeOK', RestartInv, [Next]_vars
             PROVE  RestartInv'
  OBVIOUS
<1>1. /\ Counted /\ Counted' /\ N' = N
      /\ crashes \in Nat /\ storeFaults \in Nat /\ restarts \in Nat
  BY Counts, CountsNext, EvidenceAssumption DEF N, TypeOK
<1>2. UNCHANGED <<crashes, storeFaults>> => Lost' = Lost
  BY <1>1 DEF Lost
<1>3. CASE UNCHANGED <<responder, restarts, calls, crashes, storeFaults>>
  BY <1>1, <1>2, <1>3 DEF RestartInv, Calling, Answered
<1>4. ASSUME NEW r \in Responders, CheckRestart(r) PROVE RestartInv'
  <2>1. restarts = 0 /\ UNCHANGED <<calls, crashes, storeFaults>>
    BY <1>4 DEF CheckRestart, RestartNeeded, environment
  <2>2. Answered' = Answered
    BY <1>4 DEF CheckRestart, Answered, TypeOK
  <2>3. QED BY <1>1, <1>2, <2>1, <2>2 DEF RestartInv, Counted
<1>5. ASSUME NEW r \in Responders, CallGateway(r) PROVE RestartInv'
  <2>1. /\ calls' = calls + 1 /\ UNCHANGED <<restarts, crashes, storeFaults>>
        /\ responder[r] = "Call" /\ responder' = [responder EXCEPT ![r] = "Save"]
    BY <1>5 DEF CallGateway, tables, environment
  <2>2. /\ r \in Calling /\ Calling' = Calling \ {r}
        /\ r \notin Answered /\ Answered' = Answered \cup {r}
    BY <2>1 DEF Calling, Answered, TypeOK
  <2>3. /\ Cardinality(Calling') = Cardinality(Calling) - 1
        /\ Cardinality(Answered') = Cardinality(Answered) + 1
    BY <1>1, <2>2, FS_RemoveElement, FS_AddElement DEF Counted
  <2>4. QED BY <1>1, <1>2, <2>1, <2>3 DEF RestartInv, Counted
<1>6. ASSUME NEW r \in Responders, SaveRestart(r) PROVE RestartInv'
  <2>1. /\ restarts' = restarts + 1 /\ UNCHANGED <<calls, crashes, storeFaults>>
        /\ responder[r] = "Save" /\ responder' = [responder EXCEPT ![r] = "Record"]
    BY <1>6 DEF SaveRestart, environment
  <2>2. Calling' = Calling
    BY <2>1 DEF Calling, TypeOK
  <2>3. restarts' # 0
    BY <1>1, <2>1
  <2>4. QED BY <1>1, <1>2, <2>1, <2>2, <2>3 DEF RestartInv, Counted
<1>7. ASSUME NEW r \in Responders, RecordRestart(r) PROVE RestartInv'
  <2>1. /\ UNCHANGED <<restarts, calls, crashes, storeFaults>>
        /\ responder[r] = "Record" /\ responder' = [responder EXCEPT ![r] = "Idle"]
    BY <1>7 DEF RecordRestart, environment
  <2>2. Calling' = Calling /\ Answered' = Answered
    BY <2>1 DEF Calling, Answered, TypeOK
  <2>3. QED BY <1>1, <1>2, <2>1, <2>2 DEF RestartInv, Counted
<1>8. CASE StoreRaises
  <2>1. /\ UNCHANGED <<restarts, calls, crashes>>
        /\ storeFaults' = storeFaults + 1
    BY <1>8 DEF StoreRaises, ShutdownRaises, tables, requests
  <2>2. Lost' = Lost + 1
    <3>1. N * crashes \in Nat
      BY <1>1 DEF Counted
    <3>2. QED BY <1>1, <2>1, <3>1 DEF Lost
  <2>3. CASE responder' = responder
    <3>1. Calling' = Calling /\ Answered' = Answered
      BY <2>3 DEF Calling, Answered
    <3>2. QED BY <1>1, <2>1, <2>2, <3>1 DEF RestartInv, Counted
  <2>4. ASSUME NEW r \in Responders, responder[r] \in {"Save", "Record"},
               responder' = [responder EXCEPT ![r] = "Idle"]
        PROVE  RestartInv'
    <3>1. Calling' = Calling /\ Answered' = Answered \ {r}
      BY <2>4 DEF Calling, Answered, TypeOK
    <3>2. Cardinality(Answered) <= Cardinality(Answered') + 1
      BY <1>1, <3>1, FS_RemoveElement DEF Counted
    <3>3. QED BY <1>1, <2>1, <2>2, <3>1, <3>2 DEF RestartInv, Counted
  <2>5. QED BY <1>8, <2>3, <2>4 DEF StoreRaises, ShutdownRaises, requests
<1>9. CASE CrashRestart
  <2>1. /\ UNCHANGED <<restarts, calls, storeFaults>> /\ crashes' = crashes + 1
        /\ responder' = [r \in Responders |-> "Idle"]
    BY <1>9 DEF CrashRestart, tables
  <2>2. Lost' = Lost + N
    <3>1. N * crashes \in Nat /\ N * (crashes + 1) = N * crashes + N
      BY <1>1 DEF Counted
    <3>2. QED BY <1>1, <2>1, <3>1 DEF Lost, Counted
  <2>3. Cardinality(Calling') = 0 /\ Cardinality(Answered') = 0
    <3>1. Calling' = {} /\ Answered' = {}
      BY <2>1 DEF Calling, Answered
    <3>2. QED BY <3>1, FS_EmptySet
  <2>4. QED BY <1>1, <2>1, <2>2, <2>3 DEF RestartInv, Counted
<1>10. CASE SilentStep
  BY <1>3, <1>10, SilentKeeps DEF requests
<1>11. ASSUME \/ \E t \in Threads : RecordState(t)
              \/ \E w \in Workers : RecordResume(w)
       PROVE  RestartInv'
  BY <1>3, <1>11 DEF RecordState, RecordResume, requests, environment
<1>12. ASSUME NEW r \in Reporters, ReportStep(r) PROVE RestartInv'
  BY <1>3, <1>12 DEF ReportStep, BeginReport, LoadRun, ReadManifest, SaveReport,
                     AnnounceReport, tables, environment
<1>13. QED
  BY <1>4, <1>5, <1>6, <1>7, <1>8, <1>9, <1>10, <1>11, <1>12, Steps DEF RestartStep

\* However often a restart is requested, the gateway is asked no more than once
\* per request at a time, and as often again after each restart of the process,
\* and once more for each transaction that raised: once there is a row, no
\* request that comes later asks again.
THEOREM RestartsBounded ==
    ASSUME IsFiniteSet(Responders)
    PROVE  Spec => []RestartCallsBounded
<1>1. TypeOK /\ RestartInv => RestartCallsBounded
  <2> SUFFICES ASSUME TypeOK, RestartInv PROVE RestartCallsBounded
    OBVIOUS
  <2>1. N \in Nat /\ crashes \in Nat /\ N * (1 + crashes) = N + N * crashes
    BY Counts, EvidenceAssumption DEF TypeOK, Counted
  <2>2. N * crashes \in Nat /\ storeFaults \in Nat
    BY <2>1, EvidenceAssumption DEF TypeOK
  <2>3. calls <= N + Lost
    BY Counts DEF RestartInv, Counted
  <2>4. calls <= N * (1 + crashes) + storeFaults
    BY <2>1, <2>2, <2>3 DEF Lost
  <2>5. QED BY <2>4 DEF RestartCallsBounded, N
<1>2. Init /\ TypeOK => RestartInv
  BY RestartInit
<1>3. TypeOK /\ TypeOK' /\ RestartInv /\ [Next]_vars => RestartInv'
  BY RestartInvStep
<1>4. QED BY <1>1, <1>2, <1>3, TypeCorrect, PTL DEF Spec

=============================================================================
