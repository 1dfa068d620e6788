----------------------- MODULE KubernetesKafkaAdapter -----------------------
(***************************************************************************)
(* KubernetesKafkaAdapter of asv/integrations.py, driven through the       *)
(* persisted phases of one shutdown: fence, stop_process,                  *)
(* discover_children and the five probes, one action per API call. Between *)
(* any two calls the cluster goes on: the agent and its CronJobs create    *)
(* Jobs, controllers start Pods and report statuses, deletions and         *)
(* policies take effect late. One thread acts at a time: that the lease    *)
(* sees to it is ShutdownOrchestrator's concern.                           *)
(***************************************************************************)
EXTENDS ShutdownDomain, BoundaryProbes

CONSTANTS
    Jobs,        \* names of Jobs; a Job has at most one Pod that is not over
    CronJobs,
    BarePods,    \* Pods without a Job, and those that replace them
    Labelled,    \* the resources with RUN_LABEL (`run`), PARENT_RUN_LABEL
                 \* (`children`)
    Configured,  \* the services ASV_*_URL configures
    Answers,     \* the answers of services that are told apart
    None,
    MaxSpawns,   \* bound: Jobs created after the shutdown was requested
    MaxStarts,   \* bound: bare Pods and retries of Jobs started after it
    MaxErrors,   \* bound: calls that fail or are misread
    MaxCrashes   \* bound: restarts of the process

Labels == {"run", "children"}
Services == {"kafka", "credential", "network"}
Boundaries == {FirstBoundary[s] : s \in Services}
                  \cup {SecondBoundary[s] : s \in Services}
Pods == Jobs \cup BarePods  \* the Pod of a Job has its name here
Kinds == {"process", "delegation"} \cup Services

\* The order of PROBE_KINDS: the kinds before each kind.
Earlier == [process    |-> {},
            delegation |-> {"process"},
            kafka      |-> {"process", "delegation"},
            credential |-> {"process", "delegation", "kafka"},
            network    |-> {"process", "delegation", "kafka", "credential"}]

ASSUME WorkloadAssumption ==
    /\ DOMAIN Labelled = Labels
    /\ Labelled["run"] \cup Labelled["children"] = Pods \cup CronJobs
    /\ Jobs \cap CronJobs = {} /\ BarePods \cap (Jobs \cup CronJobs) = {}
    /\ Configured \subseteq Services
    /\ Answers \subseteq [status : Nat, claim : Claims]
    /\ None \notin ProbeResults /\ None \notin Answers
    /\ MaxSpawns \in Nat /\ MaxStarts \in Nat /\ MaxErrors \in Nat /\ MaxCrashes \in Nat

VARIABLES
    phase,      \* run.state
    results,    \* the probe rows
    pc,         \* the call the orchestrating thread makes next
    found,      \* locals pods, jobs, cronjobs (in a probe: the active ones)
    first,      \* first answer of a probe that asks twice
    verdict,    \* ProbeObservation.result before it is saved
    job,        \* "absent", "live" or "deleting" (has a deletionTimestamp)
    pod,        \* newest Pod: "none", "active" or "done" (Succeeded, Failed)
    status,     \* .status of each Job: "none" as long as it is missing
    cron,       \* "running", "suspended", and "quiet" once its controller
                \* knows
    policies,   \* labels with a NetworkPolicy
    isolated,   \* labels whose NetworkPolicy is enforced
    fenced,     \* services that took the fence
    authority,  \* boundaries still open to the agent
    before,     \* history: Jobs there when stop_process listed Jobs
    unreported, \* history: children the delegation probe had no status of
    later,      \* history: Jobs created after it listed the children
    replaced,   \* history: bare Pods and retries of a Job that started after
                \* the process probe listed the Pods
    misread,    \* history: refusals the adapter took for something else
    environment \* how many Jobs, Pods, errors and restarts there were

locals == <<found, first, verdict>>
cluster == <<job, pod, status, cron, isolated>>
services == <<policies, fenced, authority>>
history == <<before, unreported, later, replaced, misread>>
vars == <<phase, results, pc, locals, cluster, services, history, environment>>

-----------------------------------------------------------------------------
(* The calls of each operation, in order                                   *)

PolicyCall == [run |-> "PolicyRun", children |-> "PolicyChildren"]
ListCall == [cronjobs |-> [run |-> "CronJobsRun", children |-> "CronJobsChildren"],
             pods     |-> [run |-> "PodsRun", children |-> "PodsChildren"],
             jobs     |-> [run |-> "JobsRun", children |-> "JobsChildren"]]
FenceCall == [credential |-> "FenceCredential", network |-> "FenceNetwork"]

\* Where _orchestrate enters each phase, after a restart too.
FirstCall == [REQUESTED |-> "PolicyRun", FENCING |-> "PodsRun",
              PROCESS_STOP_SENT |-> "ChildJobs", CHILD_DISCOVERY |-> "Commit",
              PROBING |-> "NextProbe"]

NextCall ==
    [PolicyRun |-> "PolicyChildren", PolicyChildren |-> "CronJobsRun",
     CronJobsRun |-> "CronJobsChildren", CronJobsChildren |-> "Suspend",
     Suspend |-> "FenceCredential", FenceCredential |-> "FenceNetwork",
     FenceNetwork |-> "Commit",
     PodsRun |-> "PodsChildren",
     PodsChildren |-> IF phase = "PROBING" THEN "Judge" ELSE "JobsRun",
     JobsRun |-> "JobsChildren", JobsChildren |-> "DeletePods",
     DeletePods |-> "DeleteJobs", DeleteJobs |-> "Commit",
     ChildJobs |-> "ChildCronJobs",
     ChildCronJobs |-> IF phase = "PROBING" THEN "Judge" ELSE "Commit"]

\* The calls of the operation that each phase is about.
PCs(p) ==
    CASE p = "REQUESTED" ->
            {"PolicyRun", "PolicyChildren", "CronJobsRun", "CronJobsChildren",
             "Suspend", "FenceCredential", "FenceNetwork", "Commit"}
      [] p = "FENCING" ->
            {"PodsRun", "PodsChildren", "JobsRun", "JobsChildren", "DeletePods",
             "DeleteJobs", "Commit"}
      [] p = "PROCESS_STOP_SENT" -> {"ChildJobs", "ChildCronJobs", "Commit"}
      [] p = "CHILD_DISCOVERY" -> {"Commit"}
      [] p = "PROBING" ->
            {"NextProbe", "PodsRun", "PodsChildren", "ChildJobs",
             "ChildCronJobs", "Judge", "AskFirst", "AskSecond", "Save"}
      [] p \in TerminalStates -> {"Done"}

NothingFound == [pods |-> {}, jobs |-> {}, cronjobs |-> {}]

Init ==
    /\ phase = "REQUESTED" /\ pc = FirstCall["REQUESTED"]
    /\ results = [k \in Kinds |-> None]
    /\ found = NothingFound /\ first = None /\ verdict = None
    /\ \E present \in SUBSET Jobs :
          job = [j \in Jobs |-> IF j \in present THEN "live" ELSE "absent"]
    /\ \E running \in SUBSET BarePods :
          pod = [p \in Pods |-> IF p \in running THEN "active" ELSE "none"]
    /\ status = [j \in Jobs |-> "none"]
    /\ cron = [c \in CronJobs |-> "running"]
    /\ policies = {} /\ isolated = {} /\ fenced = {}
    /\ authority = Boundaries
    /\ before = {} /\ unreported = {} /\ later = {} /\ replaced = {} /\ misread = {}
    /\ environment = [spawns |-> 0, starts |-> 0, errors |-> 0, crashes |-> 0]

Proceed == pc' = NextCall[pc] /\ UNCHANGED <<phase, results>>

CanFail == environment.errors < MaxErrors
Fails == environment' = [environment EXCEPT !.errors = @ + 1]

\* An exception of an operation: _orchestrate ends the shutdown as FAILED.
Abort == phase' = "FAILED" /\ pc' = "Done" /\ UNCHANGED results

-----------------------------------------------------------------------------
(* fence                                                                   *)

\* Created, or refused as a conflict because it is there already; or refused
\* with an error whose text happens to contain "409".
CreatePolicy(l) ==
    /\ pc = PolicyCall[l]
    /\ Proceed
    /\ \/ /\ policies' = policies \cup {l}
          /\ UNCHANGED <<misread, environment>>
       \/ /\ CanFail /\ Fails
          /\ misread' = misread \cup {l}
          /\ UNCHANGED policies
    /\ UNCHANGED <<locals, cluster, fenced, authority, before, unreported, later,
                   replaced>>

SuspendCronJob(c) ==
    /\ pc = "Suspend"
    /\ c \in found.cronjobs
    /\ found' = [found EXCEPT !.cronjobs = @ \ {c}]
    /\ cron' = [cron EXCEPT ![c] = IF @ = "quiet" THEN @ ELSE "suspended"]
    /\ UNCHANGED <<phase, results, pc, first, verdict, job, pod, status,
                   isolated, services, history, environment>>

\* A 409 is a fence that is already there.
FenceService(s) ==
    /\ pc = FenceCall[s]
    /\ IF s \in Configured
       THEN \E answer \in Answers :
               IF FenceAccepts(answer)
               THEN /\ Proceed
                    /\ fenced' = IF FenceTaken(answer) THEN fenced \cup {s}
                                 ELSE fenced
               ELSE Abort /\ UNCHANGED fenced
       ELSE Proceed /\ UNCHANGED fenced
    /\ UNCHANGED <<locals, cluster, policies, authority, history, environment>>

-----------------------------------------------------------------------------
(* _related, stop_process, discover_children                               *)

There(resource) ==
    CASE resource = "pods"     -> {p \in Pods : pod[p] # "none"}
      [] resource = "jobs"     -> {j \in Jobs : job[j] # "absent"}
      [] resource = "cronjobs" -> CronJobs

\* Mutant: the second list, of the children, is left out.
MergedRunOnly(resource, listed) ==
    found[resource] \cup {i \in listed : /\ pc = ListCall[resource]["run"]
                                         /\ phase = "PROBING" => pod[i] = "active"}

Merged(resource, listed) ==
    (found[resource] \ listed)
        \cup IF phase = "PROBING"
             THEN {j \in listed : pod[j] = "active"} ELSE listed

\* One of the two requests of _related. An item of the second replaces the
\* one of the first that has its name.
List(resource, l) ==
    /\ pc = ListCall[resource][l]
    /\ found' = [found EXCEPT ![resource] =
                    Merged(resource, There(resource) \cap Labelled[l])]
    /\ before' = IF pc = "JobsRun" THEN There("jobs") ELSE before
    /\ replaced' = IF pc = "PodsRun" THEN {} ELSE replaced
    /\ Proceed
    /\ UNCHANGED <<first, verdict, cluster, services, unreported, later, misread,
                   environment>>

\* A 404 is a delete that was done before.
DeletePod(p) ==
    /\ pc = "DeletePods"
    /\ p \in found.pods
    /\ found' = [found EXCEPT !.pods = @ \ {p}]
    /\ pod' = [pod EXCEPT ![p] = "none"]
    /\ UNCHANGED <<phase, results, pc, first, verdict, job, status, cron,
                   isolated, services, history, environment>>

\* Foreground propagation: the Job stays until its Pod is gone.
DeleteJob(j) ==
    /\ pc = "DeleteJobs"
    /\ j \in found.jobs
    /\ found' = [found EXCEPT !.jobs = @ \ {j}]
    /\ job' = [job EXCEPT ![j] = IF @ = "absent" THEN @ ELSE "deleting"]
    /\ UNCHANGED <<phase, results, pc, first, verdict, pod, status, cron,
                   isolated, services, history, environment>>

Handled == [Suspend |-> "cronjobs", DeletePods |-> "pods", DeleteJobs |-> "jobs"]

AllHandled ==
    /\ pc \in DOMAIN Handled
    /\ found[Handled[pc]] = {}
    /\ Proceed
    /\ UNCHANGED <<locals, cluster, services, history, environment>>

\* Mutant: counts what has finished.
ChildActiveWhenDone(j) == status[j] = "inactive"

\* `active` in the status of a child Job, 0 when there is none.
ChildActive(j) == status[j] = "active"

\* The Jobs of discover_children. The delegation probe keeps those with an
\* active Pod in their status.
ListChildJobs ==
    /\ pc = "ChildJobs"
    /\ LET children == There("jobs") \cap Labelled["children"]
       IN found' = [NothingFound EXCEPT !.jobs = {j \in children : ChildActive(j)}]
    /\ IF phase = "PROBING"
       THEN /\ unreported' = {j \in There("jobs") \cap Labelled["children"] :
                                status[j] = "none"}
            /\ later' = {j \in Jobs : job[j] = "absent"}
       ELSE UNCHANGED <<unreported, later>>
    /\ Proceed
    /\ UNCHANGED <<first, verdict, cluster, services, before, replaced, misread,
                   environment>>

\* Its CronJobs, whose list of active Jobs is as old as their controller
\* leaves it.
ListChildCronJobs ==
    /\ pc = "ChildCronJobs"
    /\ \E active \in SUBSET (CronJobs \cap Labelled["children"]) :
          /\ phase # "PROBING" => active = {}
          /\ found' = [found EXCEPT !.cronjobs = active]
    /\ Proceed
    /\ UNCHANGED <<first, verdict, cluster, services, history, environment>>

\* The last call of the phase was answered: _transition.
Commit ==
    /\ pc = "Commit"
    /\ phase' = NextPhase[phase]
    /\ pc' = FirstCall[NextPhase[phase]]
    /\ found' = NothingFound
    /\ UNCHANGED <<results, first, verdict, cluster, services, history,
                   environment>>

-----------------------------------------------------------------------------
(* probe                                                                   *)

\* _orchestrate is at kind k: PROBE_KINDS without the saved ones.
Probing(k) ==
    /\ phase = "PROBING" /\ results[k] = None
    /\ \A e \in Earlier[k] : results[e] # None

\* Mutant: what Kafka answers to a publish does not matter.
ProbeCallConsumeOnly ==
    [process |-> "PodsRun", delegation |-> "ChildJobs", kafka |-> "AskSecond",
     credential |-> "AskFirst", network |-> "AskFirst"]

ProbeCall == [process |-> "PodsRun", delegation |-> "ChildJobs",
              kafka |-> "AskFirst", credential |-> "AskFirst",
              network |-> "AskFirst"]

Observe(result) == verdict' = result /\ pc' = "Save" /\ UNCHANGED <<phase, results>>

\* A service that is not configured is not asked.
StartProbe(k) ==
    /\ pc = "NextProbe" /\ Probing(k)
    /\ found' = NothingFound /\ first' = None
    /\ IF k \in Services \ Configured
       THEN Observe("UNKNOWN")
       ELSE /\ pc' = ProbeCall[k]
            /\ UNCHANGED <<phase, results, verdict>>
    /\ UNCHANGED <<cluster, services, history, environment>>

\* What is still active in the cluster decides process and delegation.
Judge ==
    /\ pc = "Judge"
    /\ Observe(IF found = NothingFound THEN "PASS" ELSE "FAIL")
    /\ UNCHANGED <<found, first, cluster, services, history, environment>>

\* A service closes a boundary some time after it took the fence; Kafka has
\* no fence call, the lab closes it. When it does shows in the next answer
\* only. An answer is true to the contract, but for a 401, which may refuse
\* the token that ASV_*_TOKEN configures, no longer valid, and not the agent.
\* Both calls of a probe send this token: refused twice, it is one error.
Answer(k, b, answer) ==
    /\ authority' \in {authority} \cup
          (IF k = "kafka" \/ k \in fenced THEN {authority \ {b}} ELSE {})
    /\ \/ /\ Refuses(b, answer) => b \notin authority'
          /\ Grants(b, answer) => b \in authority'
          /\ UNCHANGED <<misread, environment>>
       \/ /\ answer.status = 401
          /\ misread' = misread \cup {b}
          /\ IF {FirstBoundary[k], SecondBoundary[k]} \cap misread # {}
             THEN UNCHANGED environment
             ELSE CanFail /\ Fails

AskFirst(k) ==
    /\ pc = "AskFirst" /\ Probing(k)
    /\ \E answer \in Answers : Answer(k, FirstBoundary[k], answer) /\ first' = answer
    /\ pc' = "AskSecond"
    /\ UNCHANGED <<phase, results, found, verdict, cluster, policies, fenced,
                   before, unreported, later, replaced>>

AskSecond(k) ==
    /\ pc = "AskSecond" /\ Probing(k)
    /\ \E answer \in Answers :
          /\ Answer(k, SecondBoundary[k], answer)
          /\ Observe(ServiceResult(k, first, answer))
    /\ first' = None
    /\ UNCHANGED <<found, cluster, policies, fenced, before, unreported, later,
                   replaced>>

SaveProbe(k) ==
    /\ pc = "Save" /\ Probing(k)
    /\ results' = [results EXCEPT ![k] = verdict]
    /\ pc' = "NextProbe"
    /\ found' = NothingFound /\ verdict' = None
    /\ UNCHANGED <<phase, first, cluster, services, history, environment>>

Conclude ==
    /\ pc = "NextProbe"
    /\ \A k \in Kinds : results[k] # None
    /\ phase' = AggregateProbeResults({results[k] : k \in Kinds})
    /\ pc' = "Done"
    /\ UNCHANGED <<results, locals, cluster, services, history, environment>>

-----------------------------------------------------------------------------
(* Failures                                                                *)

\* A call gets no answer or an unexpected one. A probe turns that into
\* UNKNOWN, an operation raises.
CallFails ==
    /\ pc \in DOMAIN NextCall \cup {"AskFirst", "AskSecond"}
    /\ pc \in DOMAIN Handled => found[Handled[pc]] # {}
    /\ \A s \in {"credential", "network"} \ Configured : pc # FenceCall[s]
    /\ CanFail /\ Fails
    /\ IF phase = "PROBING" THEN Observe("UNKNOWN") ELSE Abort /\ UNCHANGED verdict
    /\ first' = None /\ found' = NothingFound
    /\ UNCHANGED <<cluster, services, history>>

\* The process restarts; recovery resumes at the persisted phase.
CrashRestart ==
    /\ environment.crashes < MaxCrashes
    /\ environment' = [environment EXCEPT !.crashes = @ + 1]
    /\ phase \in Phases
    /\ pc' = FirstCall[phase]
    /\ found' = NothingFound /\ first' = None /\ verdict' = None
    /\ UNCHANGED <<phase, results, cluster, services, history>>

-----------------------------------------------------------------------------
(* The cluster                                                             *)

\* The agent creates a child, while it has a Pod that a fence does not cut
\* off; or a CronJob does, until its controller knows that it is suspended.
SpawnJob(j) ==
    /\ environment.spawns < MaxSpawns
    /\ environment' = [environment EXCEPT !.spawns = @ + 1]
    /\ j \in Labelled["children"] /\ job[j] = "absent"
    /\ \/ \E agent \in Pods :
             /\ pod[agent] = "active"
             /\ \A l \in isolated : agent \notin Labelled[l]
       \/ \E c \in CronJobs : cron[c] # "quiet"
    /\ job' = [job EXCEPT ![j] = "live"]
    /\ later' = IF phase \in {"PROBING", "VERIFIED"} THEN later \cup {j} ELSE later
    /\ UNCHANGED <<phase, results, pc, locals, pod, status, cron, isolated,
                   services, before, unreported, replaced, misread>>

\* The first Pod of a Job, a retry of the Job after a Pod that failed or is
\* gone, or a bare Pod, which somebody may start at any time. A Pod has a name
\* of its own: if stop_process still holds the name of the Pod before,
\* deleting that one is a 404.
StartPod(p) ==
    /\ p \in Jobs => job[p] = "live"
    /\ pod[p] # "active"
    /\ pod' = [pod EXCEPT ![p] = "active"]
    /\ found' = IF phase = "FENCING" THEN [found EXCEPT !.pods = @ \ {p}]
                ELSE found
    /\ IF p \in BarePods \/ pod[p] = "done" \/ status[p] # "none"
       THEN /\ environment.starts < MaxStarts
            /\ environment' = [environment EXCEPT !.starts = @ + 1]
            /\ replaced' = IF phase \in {"PROBING", "VERIFIED"}
                           THEN replaced \cup {p} ELSE replaced
       ELSE UNCHANGED <<environment, replaced>>
    /\ UNCHANGED <<phase, results, pc, first, verdict, job, status, cron,
                   isolated, services, before, unreported, later, misread>>

\* It finishes, or it is evicted and its object is gone.
EndPod(p) ==
    /\ pod[p] = "active"
    /\ \E over \in {"done", "none"} : pod' = [pod EXCEPT ![p] = over]
    /\ UNCHANGED <<job, status, cron, isolated>>

\* The garbage collector removes the Pod of a Job that is being deleted, and
\* then the Job, whose name may be used again.
CollectPod(j) ==
    /\ job[j] = "deleting" /\ pod[j] # "none"
    /\ pod' = [pod EXCEPT ![j] = "none"]
    /\ UNCHANGED <<job, status, cron, isolated>>

\* Only the status of a child is ever read.
ReportStatus(j) ==
    /\ j \in Labelled["children"]
    /\ pod[j] # "none" \/ status[j] # "none"
    /\ status' = [status EXCEPT ![j] = IF pod[j] = "active" THEN "active"
                                       ELSE "inactive"]
    /\ UNCHANGED <<job, pod, cron, isolated>>

LearnSuspension(c) ==
    /\ cron[c] = "suspended"
    /\ cron' = [cron EXCEPT ![c] = "quiet"]
    /\ UNCHANGED <<job, pod, status, isolated>>

EnforcePolicy(l) ==
    /\ l \in policies
    /\ isolated' = isolated \cup {l}
    /\ UNCHANGED <<job, pod, status, cron>>

ClusterStep ==
    /\ \/ \E p \in Pods : EndPod(p)
       \/ \E j \in Jobs : CollectPod(j) \/ ReportStatus(j)
       \/ \E c \in CronJobs : LearnSuspension(c)
       \/ \E l \in Labels : EnforcePolicy(l)
    /\ UNCHANGED <<phase, results, pc, locals, services, history, environment>>

CollectJob(j) ==
    /\ job[j] = "deleting" /\ pod[j] = "none"
    /\ job' = [job EXCEPT ![j] = "absent"]
    /\ status' = [status EXCEPT ![j] = "none"]
    /\ before' = before \ {j}
    /\ UNCHANGED <<phase, results, pc, locals, pod, cron, isolated, services,
                   unreported, later, replaced, misread, environment>>

AdapterStep ==
    \/ \E l \in Labels : CreatePolicy(l)
    \/ \E resource \in DOMAIN ListCall, l \in Labels : List(resource, l)
    \/ \E c \in CronJobs : SuspendCronJob(c)
    \/ \E s \in DOMAIN FenceCall : FenceService(s)
    \/ \E p \in Pods : DeletePod(p)
    \/ \E j \in Jobs : DeleteJob(j)
    \/ AllHandled \/ ListChildJobs \/ ListChildCronJobs \/ Commit
    \/ \E k \in Kinds : StartProbe(k) \/ SaveProbe(k)
    \/ \E k \in Services : AskFirst(k) \/ AskSecond(k)
    \/ Judge \/ Conclude

Next ==
    \/ AdapterStep \/ CallFails \/ CrashRestart \/ ClusterStep
    \/ \E j \in Jobs : SpawnJob(j) \/ CollectJob(j)
    \/ \E p \in Pods : StartPod(p)

Spec == Init /\ [][Next]_vars

-----------------------------------------------------------------------------
(* Properties                                                              *)

\* Every row, local and part of the cluster has its type; the thread is at a
\* call of the phase it persisted, wherever it resumed, with the locals this
\* call reads.
TypeOK ==
    /\ phase \in Phases \cup TerminalStates
    /\ results \in [Kinds -> ProbeResults \cup {None}]
    /\ pc \in PCs(phase)
    /\ found \in [pods : SUBSET Pods, jobs : SUBSET Jobs,
                  cronjobs : SUBSET CronJobs]
    /\ first \in Answers \cup {None} /\ (first # None) = (pc = "AskSecond")
    /\ verdict \in ProbeResults \cup {None} /\ (verdict # None) = (pc = "Save")
    /\ job \in [Jobs -> {"absent", "live", "deleting"}]
    /\ pod \in [Pods -> {"none", "active", "done"}]
    /\ status \in [Jobs -> {"none", "active", "inactive"}]
    /\ cron \in [CronJobs -> {"running", "suspended", "quiet"}]
    /\ policies \subseteq Labels /\ isolated \subseteq policies
    /\ fenced \subseteq {"credential", "network"}
    /\ authority \subseteq Boundaries
    /\ before \subseteq Jobs /\ unreported \subseteq Jobs /\ later \subseteq Jobs
    /\ replaced \subseteq Pods
    /\ misread \subseteq Labels \cup Boundaries
    /\ environment \in [spawns : 0 .. MaxSpawns, starts : 0 .. MaxStarts,
                        errors : 0 .. MaxErrors, crashes : 0 .. MaxCrashes]

\* README "Fences work before sending process termination", docs/credential-
\* egress-adapters.md "Any other response fails orchestration before process
\* termination proceeds": nothing is deleted, and no later phase reached,
\* unless both policies exist, the CronJobs are suspended and the configured
\* services took their fence; the only way around is a refused policy whose
\* error contains "409".
FencedBeforeStopped ==
    phase \notin {"REQUESTED", "FAILED"} \/ (\E j \in Jobs : job[j] = "deleting")
        => /\ Labels \ misread \subseteq policies
           /\ \A c \in CronJobs : cron[c] # "running"
           /\ Configured \cap {"credential", "network"} \subseteq fenced

\* However the controllers, the deletions and a restart interleave: once a
\* shutdown is VERIFIED, no Job that was there when stop_process listed the
\* Jobs runs, or can run again.
VerifiedIsStopped ==
    phase = "VERIFIED" =>
        \A j \in before : job[j] = "deleting" /\ pod[j] # "active"

\* VERIFIED means that all three services were asked and all six boundaries
\* are closed, but for those of a service that refused the configured token as
\* no longer valid, which each of the three probes takes for a denial of the
\* agent.
VerifiedIsClosed == phase = "VERIFIED" => authority \subseteq misread

\* A Pod escapes stop_process and the process and delegation probes only if its
\* Job was created after the list of children, or had no status then; or if it
\* is a bare Pod or the retry of a Job and started after the list of Pods, when
\* the status of the Job may be that of the Pod before.
NothingElseOverlooked ==
    phase = "VERIFIED" =>
        \A p \in Pods :
            pod[p] = "active" => p \in unreported \cup later \cup replaced

\* docs/threat-model.md: "Missing telemetry is `UNKNOWN`, never success."
MissingTelemetryIsUnknown == results["delegation"] = "PASS" => unreported = {}

=============================================================================
