---------------------------- MODULE DrillApproval ----------------------------
(***************************************************************************)
(* Drills under separation of duty (asv/service.py): an author requests a  *)
(* drill, somebody else approves or rejects it, and approval creates the   *)
(* reserved run and requests its shutdown. The recovery worker finishes    *)
(* what a restart interrupted. The reserved run is no secret of the        *)
(* drill's: its author may create it directly, and a responder may shut it *)
(* down, under any idempotency key, as soon as it exists.                  *)
(*                                                                         *)
(* approve_drill, reject_drill and recover_approved_drills hold            *)
(* _drill_lock from their first read to their last write: a thread in      *)
(* `deciding` has read a drill and not yet written its decision, `holder`  *)
(* works on approved drills. An action is one transaction of a thread.     *)
(* What becomes of a requested shutdown is ShutdownOrchestrator's subject. *)
(***************************************************************************)
EXTENDS Naturals

CONSTANTS
    Drills,         \* drills that may be requested, each with its reserved run
    Actors,         \* the people who author, approve and reject
    Nobody,         \* a NULL actor column
    NoDrill,        \* no drill is being worked on
    MaxStoreFaults, \* bound on the transactions that raise
    MaxCrashes      \* bound on the restarts of the process

ASSUME DrillAssumption ==
    /\ Nobody \notin Actors
    /\ NoDrill \notin Drills
    /\ MaxStoreFaults \in Nat
    /\ MaxCrashes \in Nat

VARIABLES
    drill,       \* the row of each drill
    run,         \* its reserved run: NONE, RUNNING, REQUESTED
    key,         \* the idempotency key of its shutdown: none, drill, direct
    byDrill,     \* history: the drills for which the control plane itself
                 \*   created the run or requested its shutdown
    deciding,    \* the threads between the read and the UPDATE of a decision
    holder,      \* the thread that has approved a drill or recovers drills
    storeFaults, \* transactions that raised so far
    crashes      \* restarts so far

vars == <<drill, run, key, byDrill, deciding, holder, storeFaults, crashes>>
runs == <<run, key, byDrill>>
threads == <<deciding, holder>>
environment == <<storeFaults, crashes>>

NoRow == [status |-> "NONE", author |-> Nobody, approver |-> Nobody]

Free == [task |-> "none", at |-> NoDrill, pc |-> "Idle", left |-> {}]

Init ==
    /\ drill = [d \in Drills |-> NoRow]
    /\ run = [d \in Drills |-> "NONE"]
    /\ key = [d \in Drills |-> "none"]
    /\ byDrill = {}
    /\ deciding = {}
    /\ holder = Free
    /\ storeFaults = 0
    /\ crashes = 0

-----------------------------------------------------------------------------
(* request_drill, reject_drill, and the first transaction of approve_drill *)

RequestDrill(d, a) ==
    /\ drill[d].status = "NONE"
    /\ drill' = [drill EXCEPT ![d] = [status   |-> "PENDING_APPROVAL",
                                      author   |-> a,
                                      approver |-> Nobody]]
    /\ UNCHANGED <<runs, threads, environment>>

\* Mutant: nobody takes _drill_lock.
LockIgnored == TRUE

\* _drill_lock is nobody's.
LockFree == deciding = {} /\ holder = Free

\* Mutant: the author decides.
MayDecideOwn(d, a) == drill[d].status = "PENDING_APPROVAL"

\* Both decisions are open: a stays different from the author of d.
MayDecide(d, a) == /\ drill[d].status = "PENDING_APPROVAL"
                   /\ drill[d].author # a

\* get_drill and the checks of approve_drill and reject_drill.
ReadDrill(d, a, to) ==
    /\ LockFree
    /\ MayDecide(d, a)
    /\ deciding' = deciding \cup {[at |-> d, actor |-> a, to |-> to]}
    /\ UNCHANGED <<drill, runs, holder, environment>>

RejectDrill(t) ==
    /\ t.to = "REJECTED"
    /\ drill' = [drill EXCEPT ![t.at].status = "REJECTED"]
    /\ deciding' = deciding \ {t}
    /\ UNCHANGED <<runs, holder, environment>>

\* The approver's thread keeps the lock and goes on in start_synthetic_drill.
ApproveDrill(t) ==
    /\ t.to = "APPROVED"
    /\ drill' = [drill EXCEPT ![t.at].status = "APPROVED", ![t.at].approver = t.actor]
    /\ deciding' = deciding \ {t}
    /\ holder' = [task |-> "approve", at |-> t.at, pc |-> "Create", left |-> {}]
    /\ UNCHANGED <<runs, environment>>

-----------------------------------------------------------------------------
(* recover_approved_drills                                                 *)

Approved == {d \in Drills : drill[d].status = "APPROVED"}

\* Mutant: only drills without a run are recovered.
RecoverableUncreated == {d \in Approved : run[d] = "NONE"}

Recoverable == Approved

StartRound ==
    /\ LockFree
    /\ Recoverable # {}
    /\ holder' = [task |-> "recover", at |-> NoDrill, pc |-> "Pick",
                  left |-> Recoverable]
    /\ UNCHANGED <<drill, runs, deciding, environment>>

\* Mutants: a run that exists counts as shut down; as one never created.
AfterLookupDispatched(d) == IF run[d] = "NONE" THEN "Create" ELSE "Start"
AfterLookupCreated(d) == IF run[d] = "REQUESTED" THEN "Start" ELSE "Request"

\* Where the recovery of d goes on, from what get_run says of its run.
AfterLookup(d) == CASE run[d] = "NONE"      -> "Create"
                    [] run[d] = "RUNNING"   -> "Request"
                    [] run[d] = "REQUESTED" -> "Start"

\* The rows come in the order of approved_at, which no step depends on.
RecoverDrill(d) ==
    /\ holder.pc = "Pick"
    /\ d \in holder.left
    /\ holder' = [holder EXCEPT !.at = d, !.pc = AfterLookup(d)]
    /\ UNCHANGED <<drill, runs, deciding, environment>>

-----------------------------------------------------------------------------
(* start_synthetic_drill and the end of a drill's work, for either thread  *)

At(pc) == holder.task # "none" /\ holder.pc = pc

\* An exception: approve_drill records FAILED, a recovery round is over.
Raised == IF holder.task = "approve" THEN [holder EXCEPT !.pc = "Fail"]
          ELSE Free

\* create_run and agent.run.started.
CreateRun ==
    /\ At("Create")
    /\ run[holder.at] = "NONE"
    /\ run' = [run EXCEPT ![holder.at] = "RUNNING"]
    /\ byDrill' = byDrill \cup {holder.at}
    /\ holder' = [holder EXCEPT !.pc = "Request"]
    /\ UNCHANGED <<drill, key, deciding, environment>>

\* IntegrityError, hence ConflictError: the run was created directly.
CreateConflicts ==
    /\ At("Create")
    /\ run[holder.at] # "NONE"
    /\ holder' = Raised
    /\ UNCHANGED <<drill, runs, deciding, environment>>

\* request_shutdown with the key of the drill.
RequestShutdown ==
    /\ At("Request")
    /\ run[holder.at] = "RUNNING"
    /\ run' = [run EXCEPT ![holder.at] = "REQUESTED"]
    /\ key' = [key EXCEPT ![holder.at] = "drill"]
    /\ byDrill' = byDrill \cup {holder.at}
    /\ holder' = [holder EXCEPT !.pc = "Announce"]
    /\ UNCHANGED <<drill, deciding, environment>>

\* A responder used the drill's key: its shutdown is the answer.
RequestRepeated ==
    /\ At("Request")
    /\ run[holder.at] = "REQUESTED"
    /\ key[holder.at] = "drill"
    /\ holder' = [holder EXCEPT !.pc = "Start"]
    /\ UNCHANGED <<drill, runs, deciding, environment>>

\* ConflictError: a responder's own key came first.
RequestConflicts ==
    /\ At("Request")
    /\ run[holder.at] = "REQUESTED"
    /\ key[holder.at] # "drill"
    /\ holder' = Raised
    /\ UNCHANGED <<drill, runs, deciding, environment>>

\* shutdown.requested, and the orchestrating thread starts.
Announce ==
    /\ At("Announce")
    /\ holder' = [holder EXCEPT !.pc = "Start"]
    /\ UNCHANGED <<drill, runs, deciding, environment>>

\* The approver is done; the recovery round goes on with its other rows.
Released ==
    IF holder.task = "recover" /\ holder.left # {holder.at}
    THEN [holder EXCEPT !.left = @ \ {holder.at}, !.at = NoDrill, !.pc = "Pick"]
    ELSE Free

StartDrill ==
    /\ At("Start")
    /\ drill' = [drill EXCEPT ![holder.at].status = "STARTED"]
    /\ holder' = Released
    /\ UNCHANGED <<runs, deciding, environment>>

FailDrill ==
    /\ At("Fail")
    /\ drill' = [drill EXCEPT ![holder.at].status = "FAILED"]
    /\ holder' = Free
    /\ UNCHANGED <<runs, deciding, environment>>

-----------------------------------------------------------------------------
(* The API, failing transactions and restarts                              *)

\* POST /v1/runs hands its body to create_run, _run_id included, and
\* request_drill told the author which id is reserved.
CreateDirectly(d) ==
    /\ drill[d].status # "NONE"
    /\ run[d] = "NONE"
    /\ run' = [run EXCEPT ![d] = "RUNNING"]
    /\ UNCHANGED <<drill, key, byDrill, threads, environment>>

\* request_shutdown from the API: the Idempotency-Key header is the
\* responder's choice, the drill's own key included.
ShutdownDirectly(d, k) ==
    /\ run[d] = "RUNNING"
    /\ run' = [run EXCEPT ![d] = "REQUESTED"]
    /\ key' = [key EXCEPT ![d] = k]
    /\ UNCHANGED <<drill, byDrill, threads, environment>>

\* Only start_synthetic_drill is inside approve_drill's try.
StoreRaises ==
    /\ storeFaults < MaxStoreFaults
    /\ storeFaults' = storeFaults + 1
    /\ ~LockFree
    /\ holder' = IF holder.pc \in {"Create", "Request", "Announce"} THEN Raised
                 ELSE Free
    /\ deciding' = {}
    /\ UNCHANGED <<drill, runs, crashes>>

CrashRestart ==
    /\ crashes < MaxCrashes
    /\ crashes' = crashes + 1
    /\ holder' = Free
    /\ deciding' = {}
    /\ UNCHANGED <<drill, runs, storeFaults>>

-----------------------------------------------------------------------------
(* The specification                                                       *)

Keys == {"drill", "direct"}
Decisions == {"APPROVED", "REJECTED"}

HolderStep ==
    \/ \E t \in deciding : RejectDrill(t) \/ ApproveDrill(t)
    \/ \E d \in Drills : RecoverDrill(d)
    \/ CreateRun
    \/ CreateConflicts
    \/ RequestShutdown
    \/ RequestRepeated
    \/ RequestConflicts
    \/ Announce
    \/ StartDrill
    \/ FailDrill

Next ==
    \/ \E d \in Drills : \/ \E a \in Actors : \/ RequestDrill(d, a)
                                              \/ \E to \in Decisions : ReadDrill(d, a, to)
                         \/ CreateDirectly(d)
                         \/ \E k \in Keys : ShutdownDirectly(d, k)
    \/ StartRound
    \/ HolderStep
    \/ StoreRaises
    \/ CrashRestart

\* A thread that holds the lock runs on, and the recovery worker polls.
Fairness == WF_vars(HolderStep) /\ WF_vars(StartRound)

Spec == Init /\ [][Next]_vars
FairSpec == Spec /\ Fairness

-----------------------------------------------------------------------------
(* Properties                                                              *)

Statuses == {"NONE", "PENDING_APPROVAL", "APPROVED", "REJECTED", "STARTED",
             "FAILED"}

DrillRow == [status : Statuses, author : Actors \cup {Nobody},
             approver : Actors \cup {Nobody}]

WorkPCs == {"Create", "Request", "Announce", "Start", "Fail"}

HolderType ==
    \/ holder = Free
    \/ /\ holder \in [task : {"approve", "recover"}, at : Drills \cup {NoDrill},
                      pc : WorkPCs \cup {"Pick"}, left : SUBSET Drills]
       /\ holder.task = "approve" => holder.left = {} /\ holder.pc # "Pick"
       /\ holder.task = "recover" => holder.pc # "Fail"
       /\ holder.pc # "Pick" => holder.at \in Drills

\* A thread that decides is alone, and what it read is still so.
DecidingType ==
    /\ deciding \subseteq [at : Drills, actor : Actors, to : Decisions]
    /\ \A t \in deciding : /\ MayDecide(t.at, t.actor)
                           /\ deciding = {t}
                           /\ holder = Free

\* Every row has its type, and the thread with the lock works on an approved
\* drill, with a run once create_run is behind it.
TypeOK ==
    /\ drill \in [Drills -> DrillRow]
    /\ run \in [Drills -> {"NONE", "RUNNING", "REQUESTED"}]
    /\ key \in [Drills -> Keys \cup {"none"}]
    /\ byDrill \subseteq Drills
    /\ DecidingType
    /\ HolderType
    /\ holder.left \subseteq Approved
    /\ holder.at # NoDrill => holder.at \in Approved
    /\ holder.pc \in {"Request", "Announce", "Start"} => run[holder.at] # "NONE"
    /\ storeFaults \in 0 .. MaxStoreFaults
    /\ crashes \in 0 .. MaxCrashes

\* README "Requires a different authenticated approver before a requested
\* drill can start": a drill for which the control plane created the run or
\* requested the shutdown, in the approver's thread or in the recovery worker
\* after a restart, and whatever others did to the run meanwhile, was approved
\* by somebody other than its author, and nobody rejected it.
SeparationOfDuty ==
    \A d \in byDrill :
        /\ drill[d].status \in {"APPROVED", "STARTED", "FAILED"}
        /\ drill[d].approver \in Actors \ {drill[d].author}

\* README "dispatches its idempotent shutdown before moving the drill to
\* STARTED": a drill that says STARTED has a shutdown, whichever of approval,
\* recovery and responder got there first.
StartedIsDispatched ==
    \A d \in Drills : drill[d].status = "STARTED" => run[d] = "REQUESTED"

\* A decision stands: no interleaving of approvers, rejecters, recovery and
\* restarts changes an approver, or takes a drill out of REJECTED, STARTED
\* or FAILED.
DecisionsStand ==
    [][\A d \in Drills :
          /\ drill[d].approver # Nobody => drill'[d].approver = drill[d].approver
          /\ drill[d].status \in {"REJECTED", "STARTED", "FAILED"}
                => drill'[d].status = drill[d].status]_vars

\* README "Reconciles independently approved drills if the controller stops
\* between approval, reserved-run creation, and shutdown dispatch".
ApprovedDrillEnds ==
    \A d \in Drills :
        drill[d].status = "APPROVED" ~> drill[d].status \in {"STARTED", "FAILED"}

=============================================================================
