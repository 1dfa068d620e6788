----------------------------- MODULE DrillProofs -----------------------------
(***************************************************************************)
(* What holds of DrillApproval for any drills and people, any number of    *)
(* failing transactions and restarts.                                      *)
(***************************************************************************)
EXTENDS DrillApproval, TLAPS

-----------------------------------------------------------------------------
(* Type correctness                                                        *)

LEMMA FreeFacts ==
    /\ Free.task = "none" /\ Free.at = NoDrill /\ Free.pc = "Idle" /\ Free.left = {}
BY DEF Free

\* A thread that holds the lock and is past Pick works on an approved drill.
LEMMA HolderFacts ==
    ASSUME TypeOK, holder # Free
    PROVE  /\ holder \in [task : {"approve", "recover"}, at : Drills \cup {NoDrill},
                          pc : WorkPCs \cup {"Pick"}, left : SUBSET Drills]
           /\ holder.pc # "Pick" => /\ holder.at \in Drills
                                    /\ drill[holder.at].status = "APPROVED"
BY DrillAssumption DEF TypeOK, HolderType, Approved

LEMMA Working ==
    ASSUME TypeOK, NEW pc \in WorkPCs, At(pc)
    PROVE  /\ holder # Free
           /\ holder.pc = pc
           /\ holder.at \in Drills
           /\ drill[holder.at].status = "APPROVED"
<1>1. holder # Free
  BY FreeFacts DEF At
<1>2. holder.pc = pc /\ pc # "Pick"
  BY DEF At, WorkPCs
<1>3. QED BY <1>1, <1>2, HolderFacts

LEMMA RaisedType ==
    ASSUME TypeOK, holder # Free, holder.pc # "Pick"
    PROVE  \/ Raised = Free
           \/ /\ holder.task = "approve"
              /\ Raised = [task |-> "approve", at |-> holder.at, pc |-> "Fail",
                           left |-> {}]
<1>1. /\ holder \in [task : {"approve", "recover"}, at : Drills \cup {NoDrill},
                     pc : WorkPCs \cup {"Pick"}, left : SUBSET Drills]
      /\ holder.task = "approve" => holder.left = {}
  BY HolderFacts DEF TypeOK, HolderType
<1>2. QED BY <1>1 DEF Raised

LEMMA TypeInit == Init => TypeOK
BY DrillAssumption, FreeFacts
DEF Init, TypeOK, HolderType, DecidingType, Keys, DrillRow, NoRow, Statuses

\* While the holder works, nobody decides.
LEMMA HolderAlone ==
    ASSUME TypeOK, holder # Free
    PROVE  deciding = {}
BY DEF TypeOK, DecidingType

\* Nobody is between the read and the UPDATE of a decision.
LEMMA NobodyDecides ==
    ASSUME deciding' = {}
    PROVE  DecidingType'
BY DEF DecidingType

\* A row written while the thread with the lock works on another drill, or none.
LEMMA OtherRow ==
    ASSUME TypeOK, NEW d \in Drills, drill[d].status # "APPROVED",
           NEW r \in DrillRow, drill' = [drill EXCEPT ![d] = r], DecidingType',
           UNCHANGED <<runs, holder, environment>>
    PROVE  TypeOK'
<1>1. drill' \in [Drills -> DrillRow]
  BY DEF TypeOK
<1>2. ASSUME NEW e \in Drills, drill[e].status = "APPROVED"
      PROVE  drill'[e].status = "APPROVED"
  BY <1>2 DEF TypeOK
<1>3. Approved \subseteq Approved'
  BY <1>2 DEF Approved
<1>4. QED BY <1>1, <1>3 DEF TypeOK, HolderType, runs, environment

LEMMA TypeStep == TypeOK /\ [Next]_vars => TypeOK'
<1> SUFFICES ASSUME TypeOK, [Next]_vars PROVE TypeOK'
  OBVIOUS
<1> USE DrillAssumption
<1>1. ASSUME NEW d \in Drills, NEW a \in Actors, RequestDrill(d, a) PROVE TypeOK'
  <2> DEFINE r == [status |-> "PENDING_APPROVAL", author |-> a, approver |-> Nobody]
  <2>1. r \in DrillRow
    BY DEF DrillRow, Statuses
  <2>2. DecidingType'
    BY <1>1 DEF RequestDrill, TypeOK, DecidingType, MayDecide, threads
  <2>3. QED BY <1>1, <2>1, <2>2, OtherRow DEF RequestDrill, threads
<1>2. ASSUME NEW d \in Drills, NEW a \in Actors, NEW to \in Decisions, ReadDrill(d, a, to)
      PROVE  TypeOK'
  <2> DEFINE t == [at |-> d, actor |-> a, to |-> to]
  <2>1. deciding' = {t} /\ holder' = Free /\ MayDecide(d, a)'
    BY <1>2 DEF ReadDrill, LockFree, MayDecide
  <2>2. DecidingType'
    BY <2>1 DEF DecidingType
  <2>3. Approved' = Approved
    BY <1>2 DEF ReadDrill, Approved
  <2>4. QED BY <1>2, <2>2, <2>3 DEF ReadDrill, TypeOK, HolderType, runs, environment
<1>3. ASSUME NEW t \in deciding, RejectDrill(t) PROVE TypeOK'
  <2> DEFINE r == [drill[t.at] EXCEPT !.status = "REJECTED"]
  <2>1. t.at \in Drills /\ MayDecide(t.at, t.actor) /\ deciding = {t}
    BY DEF TypeOK, DecidingType
  <2>2. r \in DrillRow
    BY <2>1 DEF TypeOK, DrillRow, Statuses
  <2>3. /\ drill' = [drill EXCEPT ![t.at] = r] /\ drill[t.at].status # "APPROVED"
        /\ DecidingType'
    BY <1>3, <2>1, NobodyDecides DEF RejectDrill, MayDecide
  <2>4. QED BY <1>3, <2>1, <2>2, <2>3, OtherRow DEF RejectDrill
<1>4. ASSUME NEW t \in deciding, ApproveDrill(t) PROVE TypeOK'
  <2> DEFINE r == [drill[t.at] EXCEPT !.status = "APPROVED", !.approver = t.actor]
             h == [task |-> "approve", at |-> t.at, pc |-> "Create", left |-> {}]
  <2>1. t.at \in Drills /\ t.actor \in Actors /\ deciding = {t}
    BY DEF TypeOK, DecidingType
  <2>2. r \in DrillRow /\ r.status = "APPROVED"
    BY <2>1 DEF TypeOK, DrillRow, Statuses
  <2>3. drill' = [drill EXCEPT ![t.at] = r] /\ holder' = h /\ DecidingType'
    BY <1>4, <2>1, NobodyDecides DEF ApproveDrill
  <2>4. drill' \in [Drills -> DrillRow] /\ t.at \in Approved'
    BY <2>1, <2>2, <2>3 DEF TypeOK, Approved
  <2>5. HolderType' /\ (holder.left \subseteq Approved)'
    BY <2>1, <2>3 DEF HolderType, WorkPCs
  <2>6. QED BY <1>4, <2>3, <2>4, <2>5 DEF ApproveDrill, TypeOK, runs, environment
<1>5. ASSUME NEW d \in Drills, CreateDirectly(d) PROVE TypeOK'
  <2>1. Approved' = Approved /\ DecidingType'
    BY <1>5 DEF CreateDirectly, Approved, TypeOK, DecidingType, MayDecide, threads
  <2>2. QED BY <1>5, <2>1 DEF CreateDirectly, TypeOK, HolderType, environment, threads
<1>6. ASSUME NEW d \in Drills, NEW k \in Keys, ShutdownDirectly(d, k) PROVE TypeOK'
  <2>1. Approved' = Approved /\ DecidingType'
    BY <1>6 DEF ShutdownDirectly, Approved, TypeOK, DecidingType, MayDecide, threads
  <2>2. QED BY <1>6, <2>1 DEF ShutdownDirectly, TypeOK, HolderType, environment, threads
<1>7. CASE StartRound
  <2> DEFINE h == [task |-> "recover", at |-> NoDrill, pc |-> "Pick", left |-> Approved]
  <2>1. holder' = h /\ Approved' = Approved /\ Approved \subseteq Drills
    BY <1>7 DEF StartRound, Recoverable, Approved
  <2>2. HolderType'
    BY <2>1 DEF HolderType
  <2>3. DecidingType'
    BY <1>7, NobodyDecides DEF StartRound, LockFree
  <2>4. QED BY <1>7, <2>1, <2>2, <2>3 DEF StartRound, TypeOK, runs, environment
<1>8. ASSUME NEW d \in Drills, RecoverDrill(d) PROVE TypeOK'
  <2>1. holder # Free /\ holder.task = "recover"
    BY <1>8, FreeFacts DEF RecoverDrill, TypeOK, HolderType
  <2>2. /\ AfterLookup(d) \in {"Create", "Request", "Start"}
        /\ AfterLookup(d) # "Create" => run[d] # "NONE"
    BY DEF AfterLookup, TypeOK
  <2>3. Approved' = Approved /\ d \in Approved
    BY <1>8 DEF RecoverDrill, Approved, TypeOK
  <2>4. HolderType'
    BY <1>8, <2>1, <2>2, HolderFacts DEF RecoverDrill, HolderType, WorkPCs
  <2>5. holder'.at = d /\ holder'.pc = AfterLookup(d) /\ holder'.left = holder.left
    BY <1>8, <2>1, HolderFacts DEF RecoverDrill
  <2>6. DecidingType'
    BY <1>8, <2>1, HolderAlone, NobodyDecides DEF RecoverDrill
  <2>7. QED BY <1>8, <2>2, <2>3, <2>4, <2>5, <2>6
            DEF RecoverDrill, TypeOK, runs, environment
<1>9. CASE CreateRun
  <2>1. /\ holder # Free /\ holder.pc = "Create" /\ holder.at \in Drills
        /\ Approved' = Approved /\ DecidingType'
    BY <1>9, Working, HolderAlone, NobodyDecides DEF CreateRun, WorkPCs, Approved
  <2>2. HolderType' /\ holder'.at = holder.at /\ holder'.left = holder.left
        /\ holder'.pc = "Request"
    BY <1>9, <2>1, HolderFacts DEF CreateRun, TypeOK, HolderType, WorkPCs
  <2>3. QED BY <1>9, <2>1, <2>2 DEF CreateRun, TypeOK, environment
<1>10. CASE RequestShutdown
  <2>1. /\ holder # Free /\ holder.pc = "Request" /\ holder.at \in Drills
        /\ Approved' = Approved /\ DecidingType'
    BY <1>10, Working, HolderAlone, NobodyDecides DEF RequestShutdown, WorkPCs, Approved
  <2>2. HolderType' /\ holder'.at = holder.at /\ holder'.left = holder.left
        /\ holder'.pc = "Announce"
    BY <1>10, <2>1, HolderFacts DEF RequestShutdown, TypeOK, HolderType, WorkPCs
  <2>3. QED BY <1>10, <2>1, <2>2 DEF RequestShutdown, TypeOK, Keys, environment
<1>11. ASSUME holder # Free, holder.pc # "Pick", holder' = Raised,
             UNCHANGED <<drill, runs>>, deciding' = {},
             storeFaults' \in 0 .. MaxStoreFaults, crashes' \in 0 .. MaxCrashes
      PROVE  TypeOK'
  <2>1. Approved' = Approved
    BY <1>11 DEF Approved
  <2>2. HolderType' /\ holder'.left = {} /\ holder'.pc \in {"Idle", "Fail"}
        /\ holder'.at \in {NoDrill, holder.at}
    BY <1>11, RaisedType, FreeFacts, HolderFacts DEF HolderType, WorkPCs
  <2>3. QED BY <1>11, <2>1, <2>2, NobodyDecides DEF TypeOK, runs
<1>12. CASE RequestConflicts \/ CreateConflicts
  <2>1. holder # Free /\ holder.pc # "Pick" /\ deciding' = {}
    BY <1>12, Working, HolderAlone DEF RequestConflicts, CreateConflicts, WorkPCs
  <2>2. QED BY <1>11, <1>12, <2>1 DEF RequestConflicts, CreateConflicts, TypeOK, environment
<1>13. CASE RequestRepeated
  <2>1. /\ holder # Free /\ holder.pc = "Request" /\ holder.at \in Drills
        /\ Approved' = Approved /\ DecidingType'
    BY <1>13, Working, HolderAlone, NobodyDecides DEF RequestRepeated, WorkPCs, Approved
  <2>2. HolderType' /\ holder'.at = holder.at /\ holder'.left = holder.left
        /\ holder'.pc = "Start"
    BY <1>13, <2>1, HolderFacts DEF RequestRepeated, TypeOK, HolderType, WorkPCs
  <2>3. QED BY <1>13, <2>1, <2>2 DEF RequestRepeated, TypeOK, runs, environment
<1>14. CASE Announce
  <2>1. /\ holder # Free /\ holder.pc = "Announce" /\ holder.at \in Drills
        /\ Approved' = Approved /\ DecidingType'
    BY <1>14, Working, HolderAlone, NobodyDecides DEF Announce, WorkPCs, Approved
  <2>2. HolderType' /\ holder'.at = holder.at /\ holder'.left = holder.left
        /\ holder'.pc = "Start"
    BY <1>14, <2>1, HolderFacts DEF Announce, TypeOK, HolderType, WorkPCs
  <2>3. QED BY <1>14, <2>1, <2>2 DEF Announce, TypeOK, runs, environment
<1>15. CASE StartDrill
  <2>1. /\ holder # Free /\ holder.pc = "Start" /\ holder.at \in Drills
        /\ DecidingType'
    BY <1>15, Working, HolderAlone, NobodyDecides DEF StartDrill, WorkPCs
  <2>2. drill' \in [Drills -> DrillRow] /\ Approved' = Approved \ {holder.at}
    BY <1>15, <2>1 DEF StartDrill, TypeOK, DrillRow, Statuses, Approved
  <2>3. CASE holder.task = "recover" /\ holder.left # {holder.at}
    <3>1. /\ HolderType'
          /\ holder'.at = NoDrill /\ holder'.left = holder.left \ {holder.at}
          /\ holder'.pc = "Pick"
      BY <1>15, <2>1, <2>3, HolderFacts DEF StartDrill, Released, HolderType
    <3>2. QED BY <1>15, <2>1, <2>2, <3>1 DEF StartDrill, TypeOK, runs, environment
  <2>4. CASE ~(holder.task = "recover" /\ holder.left # {holder.at})
    BY <1>15, <2>1, <2>2, <2>4, FreeFacts
    DEF StartDrill, Released, TypeOK, HolderType, runs, environment
  <2>5. QED BY <2>3, <2>4
<1>16. CASE FailDrill
  <2>1. holder.at \in Drills /\ DecidingType'
    BY <1>16, Working, HolderAlone, NobodyDecides DEF FailDrill, WorkPCs
  <2>2. drill' \in [Drills -> DrillRow]
    BY <1>16, <2>1 DEF FailDrill, TypeOK, DrillRow, Statuses
  <2>3. QED BY <1>16, <2>1, <2>2, FreeFacts
            DEF FailDrill, TypeOK, HolderType, runs, environment
<1>17. CASE StoreRaises
  <2>1. storeFaults' \in 0 .. MaxStoreFaults /\ crashes' \in 0 .. MaxCrashes
    BY <1>17 DEF StoreRaises, TypeOK
  <2>2. CASE holder' = Free
    BY <1>17, <2>1, <2>2, FreeFacts, NobodyDecides DEF StoreRaises, TypeOK, HolderType, runs
  <2>3. CASE holder' # Free
    BY <1>11, <1>17, <2>1, <2>3, FreeFacts DEF StoreRaises
  <2>4. QED BY <2>2, <2>3
<1>18. CASE CrashRestart
  BY <1>18, FreeFacts, NobodyDecides DEF CrashRestart, TypeOK, HolderType, runs
<1>19. CASE UNCHANGED vars
  BY <1>19 DEF vars, runs, environment, TypeOK, HolderType, DecidingType, MayDecide, Approved
<1>20. QED
  BY <1>1, <1>2, <1>3, <1>4, <1>5, <1>6, <1>7, <1>8, <1>9, <1>10, <1>12, <1>13,
     <1>14, <1>15, <1>16, <1>17, <1>18, <1>19
  DEF Next, HolderStep

\* Every reachable state is typed, and whoever holds the lock works on an
\* approved drill.
THEOREM TypeCorrect == Spec => []TypeOK
<1>1. QED BY TypeInit, TypeStep, PTL DEF Spec

-----------------------------------------------------------------------------
(* Separation of duty                                                      *)

\* The drills somebody approved, whatever has become of them since.
EverApproved == {"APPROVED", "STARTED", "FAILED"}

\* An approver other than the author is recorded exactly when the status says
\* that there was one, and the control plane worked for no other drill.
ApprovalRecorded(d) ==
    /\ drill[d].status \in EverApproved => drill[d].approver \in Actors \ {drill[d].author}
    /\ drill[d].status \notin EverApproved => drill[d].approver = Nobody
    /\ d \in byDrill => drill[d].status \in EverApproved
    /\ drill[d].status = "STARTED" => run[d] = "REQUESTED"

\* Past Request, the shutdown that StartDrill reports is there.
DispatchedBeforeStart ==
    holder.pc \in {"Announce", "Start"} => run[holder.at] = "REQUESTED"

ApprovalInv == (\A d \in Drills : ApprovalRecorded(d)) /\ DispatchedBeforeStart

\* A step that only moves the thread, on to a state DispatchedBeforeStart allows.
LEMMA ThreadMoves ==
    ASSUME ApprovalInv, UNCHANGED <<drill, runs>>, DispatchedBeforeStart'
    PROVE  ApprovalInv'
BY DEF ApprovalInv, ApprovalRecorded, runs

\* A step that changes the row of one drill without a shutdown being undone.
LEMMA RowChanges ==
    ASSUME TypeOK, ApprovalInv, NEW d \in Drills, NEW r \in DrillRow,
           drill' = [drill EXCEPT ![d] = r], UNCHANGED runs,
           ApprovalRecorded(d)', DispatchedBeforeStart'
    PROVE  ApprovalInv'
<1>1. ASSUME NEW e \in Drills, e # d PROVE ApprovalRecorded(e)'
  BY <1>1 DEF ApprovalInv, ApprovalRecorded, TypeOK, runs
<1>2. QED BY <1>1 DEF ApprovalInv

\* A step that takes a run to RUNNING or REQUESTED, for an approved drill or
\* not on behalf of any.
LEMMA RunChanges ==
    ASSUME TypeOK, ApprovalInv, NEW d \in Drills, NEW s \in {"RUNNING", "REQUESTED"},
           run' = [run EXCEPT ![d] = s], UNCHANGED drill,
           \/ byDrill' = byDrill
           \/ byDrill' = byDrill \cup {d} /\ drill[d].status \in EverApproved,
           drill[d].status = "STARTED" => s = "REQUESTED",
           DispatchedBeforeStart'
    PROVE  ApprovalInv'
BY DEF ApprovalInv, ApprovalRecorded, TypeOK

LEMMA ApprovalInit == Init => ApprovalInv
BY FreeFacts DEF Init, ApprovalInv, ApprovalRecorded, DispatchedBeforeStart, NoRow,
                 EverApproved

LEMMA ApprovalStep == TypeOK /\ ApprovalInv /\ [Next]_vars => ApprovalInv'
<1> SUFFICES ASSUME TypeOK, ApprovalInv, [Next]_vars PROVE ApprovalInv'
  OBVIOUS
<1> USE DrillAssumption
<1>1. ASSUME NEW d \in Drills, NEW a \in Actors, RequestDrill(d, a) PROVE ApprovalInv'
  <2> DEFINE r == [status |-> "PENDING_APPROVAL", author |-> a, approver |-> Nobody]
  <2>1. r \in DrillRow /\ drill' = [drill EXCEPT ![d] = r]
    BY <1>1 DEF DrillRow, Statuses, RequestDrill
  <2>2. ApprovalRecorded(d)'
    BY <1>1, <2>1 DEF ApprovalInv, ApprovalRecorded, EverApproved, RequestDrill, TypeOK, runs
  <2>3. DispatchedBeforeStart'
    BY <1>1 DEF ApprovalInv, DispatchedBeforeStart, RequestDrill, runs, threads
  <2>4. QED BY <1>1, <2>1, <2>2, <2>3, RowChanges DEF RequestDrill
<1>2. ASSUME NEW d \in Drills, NEW a \in Actors, NEW to \in Decisions, ReadDrill(d, a, to)
      PROVE  ApprovalInv'
  BY <1>2, ThreadMoves DEF ReadDrill, ApprovalInv, DispatchedBeforeStart, runs
<1>3. ASSUME NEW t \in deciding, RejectDrill(t) PROVE ApprovalInv'
  <2> DEFINE d == t.at
             r == [drill[d] EXCEPT !.status = "REJECTED"]
  <2>1. d \in Drills /\ drill[d].status = "PENDING_APPROVAL"
    BY DEF TypeOK, DecidingType, MayDecide
  <2>2. r \in DrillRow /\ r.status = "REJECTED" /\ r.approver = drill[d].approver
    BY <2>1 DEF TypeOK, DrillRow, Statuses
  <2>3. drill' = [drill EXCEPT ![d] = r]
    BY <1>3 DEF RejectDrill
  <2>4. ApprovalRecorded(d)'
    BY <1>3, <2>1, <2>2, <2>3
    DEF ApprovalInv, ApprovalRecorded, EverApproved, RejectDrill, TypeOK, runs
  <2>5. DispatchedBeforeStart'
    BY <1>3 DEF ApprovalInv, DispatchedBeforeStart, RejectDrill, runs
  <2>6. QED BY <1>3, <2>1, <2>2, <2>3, <2>4, <2>5, RowChanges DEF RejectDrill
<1>4. ASSUME NEW t \in deciding, ApproveDrill(t) PROVE ApprovalInv'
  <2> DEFINE d == t.at
             r == [drill[d] EXCEPT !.status = "APPROVED", !.approver = t.actor]
  <2>1. d \in Drills /\ t.actor \in Actors /\ drill[d].author # t.actor
    BY DEF TypeOK, DecidingType, MayDecide
  <2>2. /\ r \in DrillRow /\ r.status = "APPROVED"
        /\ r.approver = t.actor /\ r.author = drill[d].author
    BY <2>1 DEF TypeOK, DrillRow, Statuses
  <2>3. drill' = [drill EXCEPT ![d] = r]
    BY <1>4 DEF ApproveDrill
  <2>4. ApprovalRecorded(d)'
    BY <1>4, <2>1, <2>2, <2>3
    DEF ApprovalInv, ApprovalRecorded, EverApproved, ApproveDrill, TypeOK, runs
  <2>5. DispatchedBeforeStart'
    BY <1>4 DEF DispatchedBeforeStart, ApproveDrill
  <2>6. QED BY <1>4, <2>1, <2>2, <2>3, <2>4, <2>5, RowChanges DEF ApproveDrill
<1>5. ASSUME NEW d \in Drills, CreateDirectly(d) PROVE ApprovalInv'
  <2>1. drill[d].status # "STARTED"
    BY <1>5 DEF CreateDirectly, ApprovalInv, ApprovalRecorded
  <2>2. DispatchedBeforeStart'
    BY <1>5 DEF CreateDirectly, ApprovalInv, DispatchedBeforeStart, TypeOK, threads
  <2>3. QED BY <1>5, <2>1, <2>2, RunChanges DEF CreateDirectly
<1>6. ASSUME NEW d \in Drills, NEW k \in Keys, ShutdownDirectly(d, k) PROVE ApprovalInv'
  <2>1. DispatchedBeforeStart'
    BY <1>6 DEF ShutdownDirectly, ApprovalInv, DispatchedBeforeStart, TypeOK, threads
  <2>2. QED BY <1>6, <2>1, RunChanges DEF ShutdownDirectly
<1>7. CASE StartRound
  <2>1. holder'.pc = "Pick"
    BY <1>7 DEF StartRound
  <2>2. QED BY <1>7, <2>1, ThreadMoves DEF StartRound, DispatchedBeforeStart
<1>8. ASSUME NEW d \in Drills, RecoverDrill(d) PROVE ApprovalInv'
  <2>1. holder # Free
    BY <1>8, FreeFacts DEF RecoverDrill
  <2>2. holder'.at = d /\ holder'.pc = AfterLookup(d)
    BY <1>8, <2>1, HolderFacts DEF RecoverDrill
  <2>3. AfterLookup(d) \in {"Announce", "Start"} => run[d] = "REQUESTED"
    BY DEF AfterLookup, TypeOK
  <2>4. QED BY <1>8, <2>2, <2>3, ThreadMoves DEF RecoverDrill, DispatchedBeforeStart, runs
<1>9. CASE CreateRun
  <2>1. holder # Free /\ holder.at \in Drills /\ drill[holder.at].status = "APPROVED"
    BY <1>9, Working DEF CreateRun, WorkPCs
  <2>2. holder'.pc = "Request"
    BY <1>9, <2>1, HolderFacts DEF CreateRun
  <2>3. DispatchedBeforeStart'
    BY <2>2 DEF DispatchedBeforeStart
  <2>4. QED BY <1>9, <2>1, <2>3, RunChanges DEF CreateRun, EverApproved
<1>10. CASE RequestShutdown
  <2>1. holder # Free /\ holder.at \in Drills /\ drill[holder.at].status = "APPROVED"
    BY <1>10, Working DEF RequestShutdown, WorkPCs
  <2>2. holder'.at = holder.at /\ run'[holder.at] = "REQUESTED"
    BY <1>10, <2>1, HolderFacts DEF RequestShutdown, TypeOK
  <2>3. DispatchedBeforeStart'
    BY <2>2 DEF DispatchedBeforeStart
  <2>4. QED BY <1>10, <2>1, <2>3, RunChanges DEF RequestShutdown, EverApproved
<1>11. ASSUME holder # Free, holder.pc # "Pick", holder' = Raised, UNCHANGED <<drill, runs>>
      PROVE  ApprovalInv'
  <2>1. holder'.pc \in {"Idle", "Fail"}
    BY <1>11, RaisedType, FreeFacts
  <2>2. QED BY <1>11, <2>1, ThreadMoves DEF DispatchedBeforeStart
<1>12. CASE RequestConflicts \/ CreateConflicts
  <2>1. holder # Free /\ holder.pc # "Pick"
    BY <1>12, Working DEF RequestConflicts, CreateConflicts, WorkPCs
  <2>2. QED BY <1>11, <1>12, <2>1 DEF RequestConflicts, CreateConflicts
<1>13. CASE RequestRepeated
  <2>1. holder # Free /\ holder.pc = "Request" /\ run[holder.at] = "REQUESTED"
    BY <1>13, Working DEF RequestRepeated, WorkPCs
  <2>2. holder'.at = holder.at /\ run' = run
    BY <1>13, <2>1, HolderFacts DEF RequestRepeated, runs
  <2>3. QED BY <1>13, <2>1, <2>2, ThreadMoves DEF RequestRepeated, DispatchedBeforeStart
<1>14. CASE Announce
  <2>1. holder # Free /\ holder.pc = "Announce"
    BY <1>14, Working DEF Announce, WorkPCs
  <2>2. holder'.at = holder.at /\ run' = run
    BY <1>14, <2>1, HolderFacts DEF Announce, runs
  <2>3. QED BY <1>14, <2>1, <2>2, ThreadMoves
            DEF Announce, ApprovalInv, DispatchedBeforeStart
<1>15. ASSUME NEW pc \in {"Start", "Fail"}, At(pc), UNCHANGED runs,
              drill' = [drill EXCEPT ![holder.at].status =
                           IF pc = "Start" THEN "STARTED" ELSE "FAILED"],
              holder'.pc \in {"Idle", "Pick"}
       PROVE  ApprovalInv'
  <2> DEFINE s == IF pc = "Start" THEN "STARTED" ELSE "FAILED"
             r == [drill[holder.at] EXCEPT !.status = s]
  <2>1. /\ holder.pc = pc /\ holder.at \in Drills
        /\ drill[holder.at].status = "APPROVED"
    BY <1>15, Working DEF WorkPCs
  <2>2. /\ r \in DrillRow /\ r.status = s
        /\ r.approver = drill[holder.at].approver /\ r.author = drill[holder.at].author
    BY <2>1 DEF TypeOK, DrillRow, Statuses
  <2>3. drill' = [drill EXCEPT ![holder.at] = r] /\ drill'[holder.at] = r
    BY <1>15, <2>1 DEF TypeOK
  <2> HIDE DEF r
  <2>4. run'[holder.at] = run[holder.at] /\ (s = "STARTED" => run[holder.at] = "REQUESTED")
    BY <1>15, <2>1 DEF ApprovalInv, DispatchedBeforeStart, runs
  <2>5. DispatchedBeforeStart'
    BY <1>15 DEF DispatchedBeforeStart
  <2>6. \A e \in Drills : e = holder.at => ApprovalRecorded(e)'
    BY <2>1, <2>2, <2>3, <2>4 DEF ApprovalInv, ApprovalRecorded, EverApproved
  <2>7. \A e \in Drills : e # holder.at => ApprovalRecorded(e)'
    BY <1>15, <2>3 DEF ApprovalInv, ApprovalRecorded, TypeOK, runs
  <2>8. QED BY <2>5, <2>6, <2>7 DEF ApprovalInv
<1>16. CASE StartDrill
  <2>1. holder # Free
    BY <1>16, Working DEF StartDrill, WorkPCs
  <2>2. holder'.pc \in {"Idle", "Pick"}
    BY <1>16, <2>1, FreeFacts, HolderFacts DEF StartDrill, Released
  <2>3. QED BY <1>15, <1>16, <2>2 DEF StartDrill
<1>17. CASE FailDrill
  BY <1>15, <1>17, FreeFacts DEF FailDrill
<1>18. CASE StoreRaises
  <2>1. CASE holder' = Free
    BY <1>18, <2>1, FreeFacts, ThreadMoves DEF StoreRaises, DispatchedBeforeStart
  <2>2. CASE holder' # Free
    BY <1>11, <1>18, <2>2, FreeFacts DEF StoreRaises
  <2>3. QED BY <2>1, <2>2
<1>19. CASE CrashRestart
  BY <1>19, FreeFacts, ThreadMoves DEF CrashRestart, DispatchedBeforeStart
<1>20. CASE UNCHANGED vars
  BY <1>20, ThreadMoves DEF vars, runs, ApprovalInv, DispatchedBeforeStart
<1>21. QED
  BY <1>1, <1>2, <1>3, <1>4, <1>5, <1>6, <1>7, <1>8, <1>9, <1>10, <1>12, <1>13,
     <1>14, <1>16, <1>17, <1>18, <1>19, <1>20
  DEF Next, HolderStep

LEMMA ApprovalInvariant == Spec => []ApprovalInv
<1>1. QED BY TypeCorrect, ApprovalInit, ApprovalStep, PTL DEF Spec

\* The control plane creates no reserved run and requests no shutdown for a
\* drill that nobody but its author approved, across approval, recovery,
\* failures and restarts, whoever creates or shuts down the run meanwhile.
THEOREM DutySeparated == Spec => []SeparationOfDuty
<1>1. TypeOK /\ ApprovalInv => SeparationOfDuty
  BY DEF TypeOK, ApprovalInv, ApprovalRecorded, EverApproved, SeparationOfDuty
<1>2. QED BY <1>1, TypeCorrect, ApprovalInvariant, PTL

\* A drill that says STARTED has a requested shutdown.
THEOREM StartedHasShutdown == Spec => []StartedIsDispatched
<1>1. ApprovalInv => StartedIsDispatched
  BY DEF ApprovalInv, ApprovalRecorded, StartedIsDispatched
<1>2. QED BY <1>1, ApprovalInvariant, PTL

-----------------------------------------------------------------------------
(* Decisions                                                               *)

\* What DecisionsStand says of a step and a drill.
DecisionStands(d) ==
    /\ drill[d].approver # Nobody => drill'[d].approver = drill[d].approver
    /\ drill[d].status \in {"REJECTED", "STARTED", "FAILED"}
          => drill'[d].status = drill[d].status

\* A row may change while it is undecided, or, but for its approver, while it
\* is approved.
LEMMA DecisionRow ==
    ASSUME TypeOK, ApprovalInv, NEW d \in Drills, NEW r,
           drill' = [drill EXCEPT ![d] = r],
           \/ drill[d].status \in {"NONE", "PENDING_APPROVAL"}
           \/ drill[d].status = "APPROVED" /\ r.approver = drill[d].approver
    PROVE  \A e \in Drills : DecisionStands(e)
<1>1. DecisionStands(d)
  BY DEF DecisionStands, ApprovalInv, ApprovalRecorded, EverApproved, TypeOK
<1>2. ASSUME NEW e \in Drills, e # d PROVE DecisionStands(e)
  BY <1>2 DEF DecisionStands, TypeOK
<1>3. QED BY <1>1, <1>2

LEMMA DecisionStep ==
    TypeOK /\ ApprovalInv /\ [Next]_vars => \A d \in Drills : DecisionStands(d)
<1> SUFFICES ASSUME TypeOK, ApprovalInv, [Next]_vars
             PROVE  \A d \in Drills : DecisionStands(d)
  OBVIOUS
<1>1. CASE UNCHANGED drill
  BY <1>1 DEF DecisionStands
<1>2. ASSUME NEW d \in Drills, NEW a \in Actors, RequestDrill(d, a)
      PROVE  \A e \in Drills : DecisionStands(e)
  BY <1>2, DecisionRow DEF RequestDrill
<1>3. ASSUME NEW t \in deciding, RejectDrill(t)
      PROVE  \A e \in Drills : DecisionStands(e)
  BY <1>3, DecisionRow DEF RejectDrill, MayDecide, TypeOK, DecidingType
<1>4. ASSUME NEW t \in deciding, ApproveDrill(t)
      PROVE  \A e \in Drills : DecisionStands(e)
  <2> DEFINE r == [[drill[t.at] EXCEPT !.status = "APPROVED"] EXCEPT !.approver = t.actor]
  <2>1. t.at \in Drills /\ drill[t.at].status = "PENDING_APPROVAL"
    BY DEF TypeOK, DecidingType, MayDecide
  <2>2. drill' = [drill EXCEPT ![t.at] = r]
    BY <1>4, <2>1 DEF ApproveDrill, TypeOK, DrillRow
  <2> HIDE DEF r
  <2>3. QED BY <2>1, <2>2, DecisionRow
<1>5. ASSUME NEW pc \in {"Start", "Fail"}, At(pc), NEW s,
             drill' = [drill EXCEPT ![holder.at].status = s]
      PROVE  \A e \in Drills : DecisionStands(e)
  <2> DEFINE r == [drill[holder.at] EXCEPT !.status = s]
  <2>1. holder.at \in Drills /\ drill[holder.at].status = "APPROVED"
    BY <1>5, Working DEF WorkPCs
  <2>2. r.approver = drill[holder.at].approver
    BY <2>1 DEF TypeOK, DrillRow
  <2>3. QED BY <1>5, <2>1, <2>2, DecisionRow
<1>6. CASE StartDrill \/ FailDrill
  BY <1>5, <1>6 DEF StartDrill, FailDrill
<1>7. QED
  BY <1>1, <1>2, <1>3, <1>4, <1>6
  DEF Next, HolderStep, ReadDrill, CreateDirectly, ShutdownDirectly, StartRound,
      RecoverDrill, CreateRun, CreateConflicts, RequestShutdown, RequestRepeated,
      RequestConflicts, Announce, StoreRaises, CrashRestart, vars

\* No step changes an approver or takes a drill out of REJECTED, STARTED or
\* FAILED.
THEOREM DecisionsFinal == Spec => DecisionsStand
<1>1. TypeOK /\ ApprovalInv /\ [Next]_vars
          => [\A d \in Drills : DecisionStands(d)]_vars
  BY DecisionStep
<1>2. Spec => [][\A d \in Drills : DecisionStands(d)]_vars
  BY <1>1, TypeCorrect, ApprovalInvariant, PTL DEF Spec
<1>3. QED BY <1>2 DEF DecisionsStand, DecisionStands

=============================================================================
