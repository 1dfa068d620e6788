---------------------------- MODULE AdapterProofs ----------------------------
(***************************************************************************)
(* Proofs about KubernetesKafkaAdapter, for any number of Jobs, Pods,      *)
(* CronJobs, errors and restarts.                                          *)
(***************************************************************************)
EXTENDS KubernetesKafkaAdapter, TLAPS

USE DEF Pods

-----------------------------------------------------------------------------
(* Types                                                                   *)

LEMMA ServiceResults ==
    ASSUME NEW k \in Services, NEW a \in Answers, NEW b \in Answers
    PROVE  ServiceResult(k, a, b) \in ProbeResults
BY DEF Services, ServiceResult, KafkaResult, CredentialResult, EgressResult,
       ProbeResults

LEMMA Verdicts == \A R : AggregateProbeResults(R) \in TerminalStates
BY DEF AggregateProbeResults, TerminalStates

LEMMA TypeInit == Init => TypeOK
BY WorkloadAssumption
   DEF Init, TypeOK, FirstCall, PCs, NothingFound, Phases, TerminalStates

LEMMA FailsCounted ==
    ASSUME TypeOK, CanFail, Fails
    PROVE  environment' \in [spawns : 0 .. MaxSpawns, starts : 0 .. MaxStarts,
                             errors : 0 .. MaxErrors, crashes : 0 .. MaxCrashes]
BY WorkloadAssumption DEF TypeOK, CanFail, Fails

LEMMA TypeFence ==
    ASSUME TypeOK,
           \/ \E l \in Labels : CreatePolicy(l)
           \/ \E c \in CronJobs : SuspendCronJob(c)
           \/ \E s \in DOMAIN FenceCall : FenceService(s)
    PROVE  TypeOK'
<1> USE DEF locals, cluster, services, history, Proceed, Abort
<1>1. ASSUME NEW l \in Labels, CreatePolicy(l) PROVE TypeOK'
  <2>1. environment' \in [spawns : 0 .. MaxSpawns, starts : 0 .. MaxStarts,
                           errors : 0 .. MaxErrors, crashes : 0 .. MaxCrashes]
    BY <1>1, FailsCounted DEF CreatePolicy, TypeOK
  <2>2. pc' \in PCs(phase') /\ phase' = phase /\ pc' # "AskSecond" /\ pc' # "Save"
    BY <1>1 DEF CreatePolicy, PolicyCall, TypeOK, PCs, NextCall, Labels, Phases,
                TerminalStates
  <2>3. pc # "AskSecond" /\ pc # "Save"
    BY <1>1 DEF CreatePolicy, PolicyCall, Labels
  <2>4. QED BY <1>1, <2>1, <2>2, <2>3 DEF CreatePolicy, TypeOK
<1>2. ASSUME NEW c \in CronJobs, SuspendCronJob(c) PROVE TypeOK'
  BY <1>2 DEF SuspendCronJob, TypeOK
<1>3. ASSUME NEW s \in DOMAIN FenceCall, FenceService(s) PROVE TypeOK'
  BY <1>3 DEF FenceService, FenceCall, TypeOK, PCs, NextCall, Phases,
              TerminalStates
<1>4. QED BY <1>1, <1>2, <1>3

LEMMA TypeList ==
    ASSUME TypeOK,
           \/ \E resource \in DOMAIN ListCall, l \in Labels : List(resource, l)
           \/ \E p \in Pods : DeletePod(p)
           \/ \E j \in Jobs : DeleteJob(j)
           \/ AllHandled \/ ListChildJobs \/ ListChildCronJobs
    PROVE  TypeOK'
<1> USE DEF locals, cluster, services, history, Proceed
<1>1. ASSUME NEW resource \in DOMAIN ListCall, NEW l \in Labels,
             List(resource, l)
      PROVE  TypeOK'
  <2>1. CASE resource = "pods"
    BY <1>1, <2>1 DEF List, ListCall, Merged, There, TypeOK, PCs, NextCall,
                      Labels, Phases, TerminalStates
  <2>2. CASE resource = "jobs"
    BY <1>1, <2>2 DEF List, ListCall, Merged, There, TypeOK, PCs, NextCall,
                      Labels, Phases, TerminalStates
  <2>3. CASE resource = "cronjobs"
    BY <1>1, <2>3 DEF List, ListCall, Merged, There, TypeOK, PCs, NextCall,
                      Labels, Phases, TerminalStates
  <2>4. QED BY <2>1, <2>2, <2>3 DEF ListCall
<1>2. ASSUME NEW j \in Pods,
             DeletePod(j) \/ (j \in Jobs /\ DeleteJob(j))
      PROVE TypeOK'
  BY <1>2 DEF DeletePod, DeleteJob, TypeOK
<1>3. CASE AllHandled
  BY <1>3 DEF AllHandled, Handled, TypeOK, PCs, NextCall, Phases, TerminalStates
<1>4. CASE ListChildJobs
  BY <1>4 DEF ListChildJobs, NothingFound, There, TypeOK, PCs, NextCall, Phases,
              TerminalStates
<1>5. CASE ListChildCronJobs
  BY <1>5 DEF ListChildCronJobs, TypeOK, PCs, NextCall, Phases, TerminalStates
<1>6. QED BY <1>1, <1>2, <1>3, <1>4, <1>5

LEMMA ObservedType ==
    ASSUME TypeOK, phase = "PROBING", pc # "Save",
           NEW result \in ProbeResults, Observe(result)
    PROVE  /\ verdict' \in ProbeResults \cup {None}
           /\ (verdict' # None) = (pc' = "Save")
           /\ pc' \in PCs(phase') /\ pc' # "AskSecond"
           /\ phase' = phase /\ results' = results
BY WorkloadAssumption DEF Observe, PCs, TypeOK, Phases, TerminalStates

LEMMA AnswerType ==
    ASSUME TypeOK, NEW k \in Services, NEW b \in Boundaries,
           NEW answer \in Answers, Answer(k, b, answer)
    PROVE  /\ authority' \subseteq Boundaries
           /\ misread' \subseteq Labels \cup Boundaries
           /\ environment' \in [spawns : 0 .. MaxSpawns, starts : 0 .. MaxStarts,
                                errors : 0 .. MaxErrors, crashes : 0 .. MaxCrashes]
<1>1. environment' \in [spawns : 0 .. MaxSpawns, starts : 0 .. MaxStarts,
                        errors : 0 .. MaxErrors, crashes : 0 .. MaxCrashes]
  BY FailsCounted DEF Answer, TypeOK
<1>2. QED BY <1>1 DEF Answer, TypeOK

LEMMA ServiceBoundaries ==
    ASSUME NEW k \in Services
    PROVE  FirstBoundary[k] \in Boundaries /\ SecondBoundary[k] \in Boundaries
BY DEF Boundaries

LEMMA TypeProbe ==
    ASSUME TypeOK,
           \/ \E k \in Kinds : StartProbe(k) \/ SaveProbe(k)
           \/ \E k \in Services : AskFirst(k) \/ AskSecond(k)
           \/ Judge \/ Conclude \/ Commit
    PROVE  TypeOK'
<1> USE DEF locals, cluster, services, history
<1>1. ASSUME NEW k \in Kinds, StartProbe(k) PROVE TypeOK'
  <2>1. CASE k \in Services \ Configured
    <3>1. "UNKNOWN" \in ProbeResults BY DEF ProbeResults
    <3>2. QED BY <1>1, <2>1, <3>1, ObservedType
              DEF StartProbe, Probing, TypeOK, NothingFound
  <2>2. CASE k \notin Services \ Configured
    <3>1. pc' \in {"PodsRun", "ChildJobs", "AskFirst"} /\ phase = "PROBING"
          /\ pc = "NextProbe"
      BY <1>1, <2>2 DEF StartProbe, ProbeCall, Kinds, Services, Probing
    <3>2. phase' = "PROBING" /\ pc' \in PCs(phase')
      BY <1>1, <2>2, <3>1 DEF StartProbe, PCs, TerminalStates
    <3>3. QED BY <1>1, <2>2, <3>1, <3>2 DEF StartProbe, TypeOK, NothingFound
  <2>3. QED BY <2>1, <2>2
<1>2. ASSUME NEW k \in Kinds, SaveProbe(k) PROVE TypeOK'
  <2>1. phase' = "PROBING" /\ pc' \in PCs(phase')
    BY <1>2 DEF SaveProbe, Probing, PCs, TerminalStates
  <2>2. QED BY <1>2, <2>1, WorkloadAssumption DEF SaveProbe, TypeOK, NothingFound
<1>3. ASSUME NEW k \in Services, AskFirst(k) PROVE TypeOK'
  <2>1. PICK answer \in Answers : Answer(k, FirstBoundary[k], answer) /\ first' = answer
    BY <1>3 DEF AskFirst
  <2>2. phase' = "PROBING" /\ pc' \in PCs(phase')
    BY <1>3 DEF AskFirst, Probing, PCs, TerminalStates
  <2>3. QED BY <1>3, <2>1, <2>2, AnswerType, ServiceBoundaries, WorkloadAssumption
            DEF AskFirst, TypeOK
<1>4. ASSUME NEW k \in Services, AskSecond(k) PROVE TypeOK'
  <2>1. PICK answer \in Answers : /\ Answer(k, SecondBoundary[k], answer)
                                 /\ Observe(ServiceResult(k, first, answer))
    BY <1>4 DEF AskSecond
  <2>2. ServiceResult(k, first, answer) \in ProbeResults
    BY <1>4, ServiceResults DEF AskSecond, TypeOK
  <2>3. QED BY <1>4, <2>1, <2>2, AnswerType, ServiceBoundaries, ObservedType
            DEF AskSecond, Probing, TypeOK
<1>5. CASE Judge
  <2>1. phase = "PROBING" BY <1>5 DEF Judge, TypeOK, PCs, Phases, TerminalStates
  <2>2. QED BY <1>5, <2>1, ObservedType DEF Judge, TypeOK, ProbeResults
<1>6. CASE Conclude
  <2>1. phase' \in TerminalStates /\ pc' \in PCs(phase')
    BY <1>6, Verdicts DEF Conclude, PCs, TerminalStates
  <2>2. QED BY <1>6, <2>1 DEF Conclude, TypeOK
<1>7. CASE Commit
  <2>1. phase' \in Phases /\ pc' \in PCs(phase')
        /\ pc' \notin {"AskSecond", "Save"}
    BY <1>7 DEF Commit, TypeOK, PCs, Phases, TerminalStates, NextPhase, FirstCall
  <2>2. QED BY <1>7, <2>1 DEF Commit, TypeOK, NothingFound
<1>8. QED BY <1>1, <1>2, <1>3, <1>4, <1>5, <1>6, <1>7

LEMMA TypeOther ==
    ASSUME TypeOK,
           \/ CallFails \/ CrashRestart \/ ClusterStep
           \/ \E j \in Jobs : SpawnJob(j) \/ CollectJob(j)
           \/ \E p \in Pods : StartPod(p)
    PROVE  TypeOK'
<1> USE DEF locals, cluster, services, history
<1>1. CASE CallFails
  <2>1. environment' \in [spawns : 0 .. MaxSpawns, starts : 0 .. MaxStarts,
                           errors : 0 .. MaxErrors, crashes : 0 .. MaxCrashes]
    BY <1>1, FailsCounted DEF CallFails
  <2>2. pc # "Save"
    BY <1>1 DEF CallFails, NextCall
  <2>3. CASE phase = "PROBING"
    <3>1. "UNKNOWN" \in ProbeResults BY DEF ProbeResults
    <3>2. QED BY <1>1, <2>1, <2>2, <2>3, <3>1, ObservedType
              DEF CallFails, TypeOK, NothingFound
  <2>4. CASE phase # "PROBING"
    <3>1. phase' = "FAILED" /\ pc' = "Done" /\ pc' \in PCs(phase')
      BY <1>1, <2>4 DEF CallFails, Abort, PCs, TerminalStates
    <3>2. QED BY <1>1, <2>1, <2>2, <2>4, <3>1
              DEF CallFails, Abort, TypeOK, NothingFound, TerminalStates
  <2>5. QED BY <2>3, <2>4
<1>2. CASE CrashRestart
  <2>1. environment' \in [spawns : 0 .. MaxSpawns, starts : 0 .. MaxStarts,
                           errors : 0 .. MaxErrors, crashes : 0 .. MaxCrashes]
    BY <1>2, WorkloadAssumption DEF CrashRestart, TypeOK
  <2>2. pc' \in PCs(phase') /\ pc' \notin {"AskSecond", "Save"} /\ phase' = phase
    BY <1>2 DEF CrashRestart, PCs, Phases, TerminalStates, FirstCall
  <2>3. QED BY <1>2, <2>1, <2>2 DEF CrashRestart, TypeOK, NothingFound
<1>3. CASE ClusterStep
  BY <1>3 DEF ClusterStep, EndPod, CollectPod, ReportStatus, LearnSuspension,
              EnforcePolicy, TypeOK
<1>4. ASSUME NEW j \in Jobs, SpawnJob(j) PROVE TypeOK'
  <2>1. environment' \in [spawns : 0 .. MaxSpawns, starts : 0 .. MaxStarts,
                           errors : 0 .. MaxErrors, crashes : 0 .. MaxCrashes]
    BY <1>4, WorkloadAssumption DEF SpawnJob, TypeOK
  <2>2. QED BY <1>4, <2>1 DEF SpawnJob, TypeOK
<1>5. ASSUME NEW p \in Pods, StartPod(p) PROVE TypeOK'
  <2>1. environment' \in [spawns : 0 .. MaxSpawns, starts : 0 .. MaxStarts,
                           errors : 0 .. MaxErrors, crashes : 0 .. MaxCrashes]
    BY <1>5, WorkloadAssumption DEF StartPod, TypeOK
  <2>2. QED BY <1>5, <2>1 DEF StartPod, TypeOK
<1>6. ASSUME NEW j \in Jobs, CollectJob(j) PROVE TypeOK'
  BY <1>6 DEF CollectJob, TypeOK
<1>7. QED BY <1>1, <1>2, <1>3, <1>4, <1>5, <1>6

\* TypeOK: the thread is at a call of the phase it persisted, wherever it was
\* resumed, and its locals are those that this call reads.
THEOREM TypeCorrect == Spec => []TypeOK
<1>1. TypeOK /\ [Next]_vars => TypeOK'
  <2>1. ASSUME TypeOK, Next PROVE TypeOK'
    BY <2>1, TypeFence, TypeList, TypeProbe, TypeOther DEF Next, AdapterStep
  <2>2. ASSUME TypeOK, UNCHANGED vars PROVE TypeOK'
    BY <2>2 DEF vars, locals, cluster, services, history, TypeOK
  <2>3. QED BY <2>1, <2>2
<1>2. QED BY <1>1, TypeInit, PTL DEF Spec

-----------------------------------------------------------------------------
(* Nothing is stopped before it is fenced                                  *)

Fenced ==
    /\ Labels \ misread \subseteq policies
    /\ \A c \in CronJobs : cron[c] # "running"
    /\ Configured \cap {"credential", "network"} \subseteq fenced

\* What fence has done before each of its calls, and that nothing undoes it.
FenceInv ==
    /\ phase = "REQUESTED" =>
        /\ pc # "PolicyRun" => "run" \in policies \cup misread
        /\ pc \notin {"PolicyRun", "PolicyChildren"} =>
              Labels \ misread \subseteq policies
        /\ pc = "CronJobsChildren" =>
              CronJobs \cap Labelled["run"] \subseteq found.cronjobs
        /\ pc = "Suspend" =>
              \A c \in CronJobs : cron[c] = "running" => c \in found.cronjobs
        /\ pc \in {"FenceCredential", "FenceNetwork", "Commit"} =>
              \A c \in CronJobs : cron[c] # "running"
        /\ pc \in {"FenceNetwork", "Commit"} =>
              Configured \cap {"credential"} \subseteq fenced
        /\ pc = "Commit" => Configured \cap {"network"} \subseteq fenced
    /\ phase \notin {"REQUESTED", "FAILED"} => Fenced
    /\ (\E j \in Jobs : job[j] = "deleting") => Fenced

\* Nothing but the fence writes what it is about, and it only adds.
LEMMA FenceStable ==
    ASSUME TypeOK, FenceInv,
           /\ policies \subseteq policies' /\ misread \subseteq misread'
           /\ fenced \subseteq fenced'
           /\ \A c \in CronJobs : cron[c] # "running" => cron'[c] # "running",
           phase # "REQUESTED",
           phase' # "REQUESTED",
           phase = "FAILED" =>
              phase' = "FAILED"
              /\ \A j \in Jobs : job'[j] = "deleting" => job[j] = "deleting"
    PROVE  FenceInv'
<1>1. Fenced => Fenced' BY DEF Fenced
<1>2. CASE phase # "FAILED"
  BY <1>1, <1>2 DEF FenceInv
<1>3. CASE phase = "FAILED"
  <2>1. (\E j \in Jobs : job'[j] = "deleting") => \E j \in Jobs : job[j] = "deleting"
    BY <1>3
  <2>2. QED BY <1>1, <1>3, <2>1 DEF FenceInv
<1>4. QED BY <1>2, <1>3

LEMMA FenceStep ==
    ASSUME TypeOK, FenceInv, Next
    PROVE  FenceInv'
<1> USE DEF locals, cluster, services, history
<1>1. ASSUME NEW l \in Labels, CreatePolicy(l) PROVE FenceInv'
  <2>1. phase = "REQUESTED" /\ phase' = phase
    BY <1>1 DEF CreatePolicy, PolicyCall, Labels, Proceed, TypeOK, PCs, Phases,
                TerminalStates
  <2>2. l \in policies' \cup misread'
        /\ policies \subseteq policies' /\ misread \subseteq misread'
    BY <1>1 DEF CreatePolicy
  <2>3. Fenced => Fenced'
    BY <1>1, <2>2 DEF CreatePolicy, Fenced
  <2>4. \/ l = "run" /\ pc = "PolicyRun" /\ pc' = "PolicyChildren"
        \/ l = "children" /\ pc = "PolicyChildren" /\ pc' = "CronJobsRun"
    BY <1>1 DEF CreatePolicy, PolicyCall, Labels, Proceed, NextCall
  <2>5. QED BY <1>1, <2>1, <2>2, <2>3, <2>4 DEF CreatePolicy, FenceInv, Labels
<1>2. ASSUME NEW c \in CronJobs, SuspendCronJob(c) PROVE FenceInv'
  <2>1. \A d \in CronJobs : cron[d] # "running" => cron'[d] # "running"
    BY <1>2 DEF SuspendCronJob, TypeOK
  <2>2. cron'[c] # "running" /\ \A d \in found.cronjobs : d # c => d \in found'.cronjobs
    BY <1>2 DEF SuspendCronJob, TypeOK
  <2>3. Fenced => Fenced' BY <1>2, <2>1 DEF SuspendCronJob, Fenced
  <2>4. QED BY <1>2, <2>1, <2>2, <2>3 DEF SuspendCronJob, FenceInv
<1>3. ASSUME NEW s \in DOMAIN FenceCall, FenceService(s) PROVE FenceInv'
  <2>1. phase = "REQUESTED"
    BY <1>3 DEF FenceService, FenceCall, TypeOK, PCs, Phases, TerminalStates
  <2>2. fenced \subseteq fenced' BY <1>3 DEF FenceService
  <2>3. Fenced => Fenced' BY <1>3, <2>2 DEF FenceService, Fenced
  <2>4. CASE phase' = "FAILED"
    BY <1>3, <2>3, <2>4 DEF FenceService, FenceInv
  <2>5. CASE phase' # "FAILED"
    <3>1. Proceed /\ (s \in Configured => s \in fenced')
      BY <1>3, <2>5 DEF FenceService, Abort, FenceAccepts, FenceTaken
    <3>2. \/ s = "credential" /\ pc = "FenceCredential" /\ pc' = "FenceNetwork"
          \/ s = "network" /\ pc = "FenceNetwork" /\ pc' = "Commit"
      BY <1>3, <3>1 DEF FenceService, FenceCall, Proceed, NextCall
    <3>3. QED BY <1>3, <2>1, <2>2, <2>3, <3>1, <3>2
              DEF FenceService, FenceInv, Proceed
  <2>6. QED BY <2>4, <2>5
<1>4. ASSUME NEW resource \in DOMAIN ListCall, NEW l \in Labels, List(resource, l)
      PROVE  FenceInv'
  <2>1. Fenced => Fenced' BY <1>4 DEF List, Fenced
  <2>2. phase' = phase /\ job' = job /\ policies' = policies /\ cron' = cron
        /\ misread' = misread
    BY <1>4 DEF List, Proceed
  <2>3. CASE phase # "REQUESTED"
    BY <2>1, <2>2, <2>3 DEF FenceInv
  <2>4. CASE phase = "REQUESTED"
    <3>1. /\ resource = "cronjobs"
          /\ \/ l = "run" /\ pc = "CronJobsRun" /\ pc' = "CronJobsChildren"
             \/ l = "children" /\ pc = "CronJobsChildren" /\ pc' = "Suspend"
      BY <1>4, <2>4 DEF List, ListCall, Labels, TypeOK, PCs, Proceed, NextCall
    <3>2. found'.cronjobs = found.cronjobs \cup (CronJobs \cap Labelled[l])
      BY <1>4, <2>4, <3>1 DEF List, Merged, There, TypeOK
    <3>3. CronJobs \subseteq Labelled["run"] \cup Labelled["children"]
      BY WorkloadAssumption
    <3>4. QED BY <2>1, <2>2, <2>4, <3>1, <3>2, <3>3 DEF FenceInv
  <2>5. QED BY <2>3, <2>4
<1>5. CASE AllHandled
  <2>1. Fenced => Fenced' BY <1>5 DEF AllHandled, Fenced
  <2>2. CASE phase # "REQUESTED"
    BY <1>5, <2>1, <2>2 DEF AllHandled, Proceed, FenceInv
  <2>3. CASE phase = "REQUESTED"
    <3>1. pc = "Suspend" /\ pc' = "FenceCredential" /\ found.cronjobs = {}
      BY <1>5, <2>3 DEF AllHandled, Handled, Proceed, NextCall, TypeOK, PCs
    <3>2. QED BY <1>5, <2>1, <2>3, <3>1 DEF AllHandled, Proceed, FenceInv
  <2>4. QED BY <2>2, <2>3
<1>6. CASE Commit
  <2>1. Fenced => Fenced' BY <1>6 DEF Commit, Fenced
  <2>2. phase = "REQUESTED" => Fenced
    BY <1>6 DEF Commit, FenceInv, Fenced
  <2>3. phase \in DOMAIN NextPhase /\ phase' \notin {"REQUESTED", "FAILED"}
    BY <1>6 DEF Commit, TypeOK, PCs, Phases, TerminalStates, NextPhase
  <2>4. Fenced
    BY <2>2, <2>3 DEF FenceInv, NextPhase
  <2>5. QED BY <2>1, <2>3, <2>4 DEF FenceInv
<1>7. ASSUME NEW j \in Pods,
             DeletePod(j) \/ (j \in Jobs /\ DeleteJob(j))
      PROVE FenceInv'
  <2>1. phase = "FENCING" /\ phase' = phase
    BY <1>7 DEF DeletePod, DeleteJob, TypeOK, PCs, Phases, TerminalStates
  <2>2. QED BY <1>7, <2>1, FenceStable DEF DeletePod, DeleteJob
<1>8. ASSUME phase # "REQUESTED", phase # "FAILED", phase' # "REQUESTED",
             UNCHANGED <<policies, fenced, cron>>, misread \subseteq misread'
      PROVE  FenceInv'
  BY <1>8, FenceStable
<1>9. CASE ListChildJobs \/ ListChildCronJobs \/ Judge
           \/ (\E k \in Kinds : StartProbe(k) \/ SaveProbe(k))
           \/ \E k \in Services : AskFirst(k) \/ AskSecond(k)
  <2>1. phase \in {"PROCESS_STOP_SENT", "PROBING"} /\ phase' = phase
    BY <1>9 DEF ListChildJobs, ListChildCronJobs, Judge, StartProbe, SaveProbe,
                AskFirst, AskSecond, Observe, Proceed, TypeOK, PCs, Phases,
                TerminalStates
  <2>2. UNCHANGED <<policies, fenced, cron>> /\ misread \subseteq misread'
    BY <1>9 DEF ListChildJobs, ListChildCronJobs, Judge, StartProbe, SaveProbe,
                AskFirst, AskSecond, Answer
  <2>3. QED BY <1>8, <2>1, <2>2
<1>10. CASE Conclude
  <2>1. phase = "PROBING" /\ phase' # "REQUESTED"
    BY <1>10, Verdicts DEF Conclude, TypeOK, PCs, Phases, TerminalStates
  <2>2. QED BY <1>8, <1>10, <2>1 DEF Conclude
<1>11. CASE CallFails
  <2>1. Fenced => Fenced' BY <1>11 DEF CallFails, Fenced
  <2>2. phase' = "FAILED" \/ (phase' = phase /\ phase = "PROBING")
    BY <1>11 DEF CallFails, Observe, Abort
  <2>3. QED BY <1>11, <2>1, <2>2 DEF CallFails, FenceInv
<1>12. CASE CrashRestart
  <2>1. Fenced => Fenced' BY <1>12 DEF CrashRestart, Fenced
  <2>2. phase = "REQUESTED" => pc' = "PolicyRun"
    BY <1>12 DEF CrashRestart, FirstCall
  <2>3. QED BY <1>12, <2>1, <2>2 DEF CrashRestart, FenceInv
<1>13. ASSUME UNCHANGED <<phase, pc, policies, fenced, misread>>,
              found'.cronjobs = found.cronjobs,
              \A j \in Jobs : job'[j] = "deleting" => job[j] = "deleting",
              \A c \in CronJobs : cron[c] # "running" => cron'[c] # "running"
       PROVE  FenceInv'
  <2>1. Fenced => Fenced' BY <1>13 DEF Fenced
  <2>2. (\E j \in Jobs : job'[j] = "deleting") => \E j \in Jobs : job[j] = "deleting"
    BY <1>13
  <2>3. QED BY <1>13, <2>1, <2>2 DEF FenceInv
<1>14. CASE ClusterStep
  <2>1. \A c \in CronJobs : cron[c] # "running" => cron'[c] # "running"
    BY <1>14 DEF ClusterStep, EndPod, CollectPod, ReportStatus, LearnSuspension,
                 EnforcePolicy, TypeOK
  <2>2. UNCHANGED <<phase, pc, policies, fenced, misread, found, job>>
    BY <1>14 DEF ClusterStep, EndPod, CollectPod, ReportStatus, LearnSuspension,
                 EnforcePolicy
  <2>3. QED BY <1>13, <2>1, <2>2
<1>15. ASSUME NEW j \in Pods,
              StartPod(j) \/ (j \in Jobs /\ (SpawnJob(j) \/ CollectJob(j)))
       PROVE  FenceInv'
  <2>1. \A i \in Jobs : job'[i] = "deleting" => job[i] = "deleting"
    BY <1>15 DEF SpawnJob, StartPod, CollectJob, TypeOK
  <2>2. UNCHANGED <<phase, pc, policies, fenced, misread, cron>>
        /\ found'.cronjobs = found.cronjobs
    BY <1>15 DEF SpawnJob, StartPod, CollectJob, TypeOK
  <2>3. QED BY <1>13, <2>1, <2>2
<1>16. QED BY <1>1, <1>2, <1>3, <1>4, <1>5, <1>6, <1>7, <1>9, <1>10, <1>11, <1>12,
              <1>14, <1>15 DEF Next, AdapterStep

\* FencedBeforeStopped: whatever fails, and wherever a shutdown is resumed, no
\* deletion is sent before the policies exist, the CronJobs are suspended and
\* the configured services took their fence, unless a refusal was misread.
THEOREM FencedFirst == Spec => []FencedBeforeStopped
<1>1. Init => FenceInv
  BY DEF Init, FenceInv, FirstCall
<1>2. TypeOK /\ FenceInv /\ [Next]_vars => FenceInv'
  <2>1. ASSUME FenceInv, UNCHANGED vars PROVE FenceInv'
    BY <2>1 DEF vars, locals, cluster, services, history, FenceInv, Fenced
  <2>2. QED BY <2>1, FenceStep
<1>3. FenceInv => FencedBeforeStopped
  BY DEF FenceInv, Fenced, FencedBeforeStopped
<1>4. QED BY <1>1, <1>2, <1>3, TypeCorrect, PTL DEF Spec

-----------------------------------------------------------------------------
(* VERIFIED is what the five probes together say                           *)

LEMMA VerifiedVerdicts ==
    \A R \in SUBSET ProbeResults :
        AggregateProbeResults(R) = "VERIFIED" => R \subseteq {"PASS"}
BY DEF AggregateProbeResults, ProbeResults

\* Results are there from PROBING on, the first ones first; the last step needs
\* all of them to PASS.
ResultsInv ==
    /\ results["delegation"] # None => results["process"] # None
    /\ phase \in Phases \ {"PROBING"} => \A k \in Kinds : results[k] = None
    /\ phase = "VERIFIED" => \A k \in Kinds : results[k] = "PASS"

\* The actions that neither save a result nor end a phase.
Quiet ==
    /\ UNCHANGED results
    /\ phase' \in {phase, "FAILED"}

LEMMA ResultsStep ==
    ASSUME TypeOK, ResultsInv, Next
    PROVE  ResultsInv'
<1> USE DEF locals, cluster, services, history
<1>1. CASE Quiet
  BY <1>1 DEF Quiet, ResultsInv, Phases
<1>2. ASSUME NEW k \in Kinds, SaveProbe(k) PROVE ResultsInv'
  BY <1>2 DEF SaveProbe, Probing, ResultsInv, Earlier, Kinds, TypeOK
<1>3. CASE Conclude
  <2>1. phase' = AggregateProbeResults({results[k] : k \in Kinds})
    BY <1>3 DEF Conclude
  <2>2. phase' \in TerminalStates BY <2>1, Verdicts
  <2>3. ASSUME phase' = "VERIFIED", NEW k \in Kinds PROVE results[k] = "PASS"
    <3>1. {results[i] : i \in Kinds} \in SUBSET ProbeResults
      BY <1>3 DEF Conclude, TypeOK
    <3>2. {results[i] : i \in Kinds} \subseteq {"PASS"}
      BY <2>1, <2>3, <3>1, VerifiedVerdicts
    <3>3. QED BY <3>2
  <2>4. QED BY <1>3, <2>2, <2>3 DEF Conclude, ResultsInv, Phases, TerminalStates
<1>4. CASE Commit
  <2>1. phase \in Phases \ {"PROBING"} /\ phase' # "VERIFIED"
    BY <1>4 DEF Commit, TypeOK, PCs, Phases, TerminalStates, NextPhase
  <2>2. QED BY <1>4, <2>1 DEF Commit, ResultsInv
<1>5. ASSUME NEW l \in Labels, CreatePolicy(l) PROVE Quiet
  BY <1>5 DEF CreatePolicy, Proceed, Quiet
<1>6. ASSUME NEW c \in CronJobs, SuspendCronJob(c) PROVE Quiet
  BY <1>6 DEF SuspendCronJob, Quiet
<1>7. ASSUME NEW s \in DOMAIN FenceCall, FenceService(s) PROVE Quiet
  BY <1>7 DEF FenceService, Proceed, Abort, Quiet
<1>8. ASSUME NEW resource \in DOMAIN ListCall, NEW l \in Labels, List(resource, l)
      PROVE  Quiet
  BY <1>8 DEF List, Proceed, Quiet
<1>9. ASSUME NEW j \in Pods,
             \/ DeletePod(j) \/ StartPod(j)
             \/ j \in Jobs /\ (DeleteJob(j) \/ SpawnJob(j) \/ CollectJob(j))
      PROVE  Quiet
  BY <1>9 DEF DeletePod, DeleteJob, SpawnJob, StartPod, CollectJob, Quiet
<1>10. CASE AllHandled \/ ListChildJobs \/ ListChildCronJobs \/ Judge
  <2>1. Quiet
    BY <1>10 DEF AllHandled, ListChildJobs, ListChildCronJobs, Judge, Observe,
                 Proceed, Quiet
  <2>2. QED BY <1>1, <2>1
<1>11. ASSUME NEW k \in Kinds, StartProbe(k) PROVE Quiet
  BY <1>11 DEF StartProbe, Observe, Quiet
<1>12. ASSUME NEW k \in Services, AskFirst(k) \/ AskSecond(k) PROVE Quiet
  BY <1>12 DEF AskFirst, AskSecond, Observe, Quiet
<1>13. CASE CallFails \/ CrashRestart \/ ClusterStep
  <2>1. Quiet
    BY <1>13 DEF CallFails, Observe, Abort, CrashRestart, ClusterStep, Quiet
  <2>2. QED BY <1>1, <2>1
<1>14. QED BY <1>1, <1>2, <1>3, <1>4, <1>5, <1>6, <1>7, <1>8, <1>9, <1>10, <1>11,
              <1>12, <1>13 DEF Next, AdapterStep

-----------------------------------------------------------------------------
(* What was there is stopped                                               *)

StillThere(S) == {j \in before \cap S : job[j] # "deleting"}
StillActive(S) == {j \in before \cap S : pod[j] = "active"}

\* How the Jobs of `before` pass from the lists of stop_process to deletions,
\* and what the process probe then knows of their Pods.
StopInv ==
    /\ \A j \in before : job[j] # "absent"
    /\ phase = "FENCING" =>
        /\ pc = "JobsChildren" => StillThere(Labelled["run"]) \subseteq found.jobs
        /\ pc \in {"DeletePods", "DeleteJobs"} => StillThere(Jobs) \subseteq found.jobs
        /\ pc = "Commit" => StillThere(Jobs) = {}
    /\ phase \in {"PROCESS_STOP_SENT", "CHILD_DISCOVERY", "PROBING", "VERIFIED"} =>
          StillThere(Jobs) = {}
    /\ phase = "PROBING" =>
        /\ pc = "PodsChildren" => StillActive(Labelled["run"]) \subseteq found.pods
        /\ pc = "Judge" /\ results["process"] = None =>
              StillActive(Jobs) \subseteq found.pods
        /\ pc = "Save" /\ results["process"] = None /\ verdict = "PASS" =>
              StillActive(Jobs) = {}
        /\ pc \in {"ChildJobs", "ChildCronJobs", "AskFirst", "AskSecond"} =>
              results["process"] # None
    /\ phase \in {"PROBING", "VERIFIED"} /\ results["process"] = "PASS" =>
          StillActive(Jobs) = {}

\* The thread has not moved and no Job it accounts for has come back.
LEMMA StopStable ==
    ASSUME TypeOK, StopInv,
           UNCHANGED <<phase, pc, results, verdict>>,
           found.jobs \subseteq found'.jobs,
           phase = "PROBING" => found.pods \subseteq found'.pods,
           before' \subseteq before,
           \A j \in before' : /\ job'[j] # "absent"
                              /\ job[j] = "deleting" => job'[j] = "deleting"
                              /\ job[j] = "deleting" /\ pod'[j] = "active" =>
                                    pod[j] = "active"
    PROVE  StopInv'
<1>1. \A S : StillThere(S)' \subseteq StillThere(S) BY DEF StillThere
<1>2. phase \in {"PROBING", "VERIFIED"} =>
          \A S : StillActive(S)' \subseteq StillActive(S)
  <2>1. SUFFICES ASSUME phase \in {"PROBING", "VERIFIED"},
                        NEW S, NEW j \in StillActive(S)'
                 PROVE  j \in StillActive(S)
    OBVIOUS
  <2>2. j \in before' /\ j \in before /\ j \in S /\ pod'[j] = "active"
    BY <2>1 DEF StillActive
  <2>3. job[j] = "deleting"
    BY <2>1, <2>2 DEF StopInv, StillThere, TypeOK
  <2>4. QED BY <2>2, <2>3 DEF StillActive
<1>3. StillThere(Labelled["run"])' \subseteq StillThere(Labelled["run"])
      /\ StillThere(Jobs)' \subseteq StillThere(Jobs)
  BY <1>1
<1>4. phase \in {"PROBING", "VERIFIED"} =>
        /\ StillActive(Labelled["run"])' \subseteq StillActive(Labelled["run"])
        /\ StillActive(Jobs)' \subseteq StillActive(Jobs)
  BY <1>2
<1> HIDE DEF StillThere, StillActive
<1>5. QED BY <1>3, <1>4 DEF StopInv

LEMMA StopStep ==
    ASSUME TypeOK, ResultsInv, StopInv, Next
    PROVE  StopInv'
<1> USE DEF locals, cluster, services, history
<1>1. ASSUME UNCHANGED <<job, before>>, phase' \in {"REQUESTED", "FAILED"}
      PROVE  StopInv'
  BY <1>1 DEF StopInv
<1>2. ASSUME UNCHANGED <<job, before>>
      PROVE  /\ StillThere(Jobs)' = StillThere(Jobs)
             /\ StillThere(Labelled["run"])' = StillThere(Labelled["run"])
  BY <1>2 DEF StillThere
<1>3. ASSUME UNCHANGED <<pod, before>>
      PROVE  /\ StillActive(Jobs)' = StillActive(Jobs)
             /\ StillActive(Labelled["run"])' = StillActive(Labelled["run"])
  BY <1>3 DEF StillActive
<1>4. ASSUME NEW l \in Labels, CreatePolicy(l) PROVE StopInv'
  <2>1. phase = "REQUESTED"
    BY <1>4 DEF CreatePolicy, PolicyCall, Labels, TypeOK, PCs, Phases,
                TerminalStates
  <2>2. QED BY <1>1, <1>4, <2>1 DEF CreatePolicy, Proceed
<1>5. ASSUME NEW c \in CronJobs, SuspendCronJob(c) PROVE StopInv'
  <2>1. phase = "REQUESTED"
    BY <1>5 DEF SuspendCronJob, TypeOK, PCs, Phases, TerminalStates
  <2>2. QED BY <1>1, <1>5, <2>1 DEF SuspendCronJob
<1>6. ASSUME NEW s \in DOMAIN FenceCall, FenceService(s) PROVE StopInv'
  <2>1. phase = "REQUESTED"
    BY <1>6 DEF FenceService, FenceCall, TypeOK, PCs, Phases, TerminalStates
  <2>2. QED BY <1>1, <1>6, <2>1 DEF FenceService, Proceed, Abort
<1>7. ASSUME NEW l \in Labels, List("jobs", l) PROVE StopInv'
  <2>1. phase = "FENCING" /\ phase' = phase /\ UNCHANGED job
    BY <1>7 DEF List, ListCall, Labels, Proceed, TypeOK, PCs, Phases,
                TerminalStates
  <2>2. found'.jobs = (found.jobs \ (There("jobs") \cap Labelled[l]))
                          \cup (There("jobs") \cap Labelled[l])
    BY <1>7, <2>1 DEF List, Merged, TypeOK
  <2>3. CASE l = "run"
    <3>1. pc' = "JobsChildren" /\ before' = There("jobs")
      BY <1>7, <2>3 DEF List, ListCall, Proceed, NextCall
    <3>2. \A j \in before' : job'[j] # "absent"
      BY <2>1, <3>1 DEF There
    <3>3. StillThere(Labelled["run"])' \subseteq found'.jobs
      BY <2>2, <2>3, <3>1 DEF StillThere
    <3>4. QED BY <2>1, <3>1, <3>2, <3>3 DEF StopInv
  <2>4. CASE l = "children"
    <3>1. pc = "JobsChildren" /\ pc' = "DeletePods" /\ before' = before
      BY <1>7, <2>4 DEF List, ListCall, Proceed, NextCall
    <3>2. StillThere(Labelled["run"]) \subseteq found.jobs
      BY <2>1, <3>1 DEF StopInv
    <3>3. ASSUME NEW j \in StillThere(Jobs) PROVE j \in found'.jobs
      <4>1. j \in Labelled["run"] => j \in found.jobs
        BY <3>2, <3>3 DEF StillThere
      <4>2. j \in Labelled["children"] => j \in There("jobs") \cap Labelled[l]
        BY <2>4, <3>3 DEF StillThere, StopInv, There
      <4>3. j \in Labelled["run"] \/ j \in Labelled["children"]
        BY <3>3, WorkloadAssumption DEF StillThere
      <4>4. QED BY <2>2, <4>1, <4>2, <4>3
    <3>4. StillThere(Jobs)' \subseteq found'.jobs
      BY <1>2, <2>1, <3>1, <3>3
    <3>5. QED BY <2>1, <3>1, <3>4 DEF StopInv
  <2>5. QED BY <2>3, <2>4 DEF Labels
<1>8. ASSUME NEW l \in Labels, List("pods", l) PROVE StopInv'
  <2>1. /\ phase \in {"FENCING", "PROBING"}
        /\ UNCHANGED <<phase, results, job, pod, before>>
    BY <1>8 DEF List, ListCall, Labels, Proceed, TypeOK, PCs, Phases,
                TerminalStates
  <2>2. StillThere(Jobs)' = StillThere(Jobs) /\ StillActive(Jobs)' = StillActive(Jobs)
        /\ StillActive(Labelled["run"])' = StillActive(Labelled["run"])
    BY <1>2, <1>3, <2>1
  <2>3. CASE phase = "FENCING"
    <3>1. pc' \in {"PodsChildren", "JobsRun"}
      BY <1>8, <2>3 DEF List, ListCall, Labels, Proceed, NextCall
    <3>2. QED BY <2>1, <2>3, <3>1 DEF StopInv
  <2>4. CASE phase = "PROBING"
    <3>1. found'.pods = (found.pods \ (There("pods") \cap Labelled[l]))
             \cup {j \in There("pods") \cap Labelled[l] : pod[j] = "active"}
      BY <1>8, <2>4 DEF List, Merged, TypeOK
    <3>2. \A j \in Jobs : pod[j] = "active" => j \in There("pods")
      BY DEF There
    <3>3. CASE l = "run"
      <4>1. pc' = "PodsChildren"
        BY <1>8, <3>3 DEF List, ListCall, Proceed, NextCall
      <4>2. StillActive(Labelled["run"]) \subseteq found'.pods
        BY <3>1, <3>2, <3>3 DEF StillActive, TypeOK
      <4>3. QED BY <2>1, <2>2, <2>4, <4>1, <4>2 DEF StopInv
    <3>4. CASE l = "children"
      <4>1. pc = "PodsChildren" /\ pc' = "Judge"
        BY <1>8, <2>4, <3>4 DEF List, ListCall, Proceed, NextCall
      <4>2. StillActive(Labelled["run"]) \subseteq found.pods
        BY <2>4, <4>1 DEF StopInv
      <4>3. ASSUME NEW j \in StillActive(Jobs) PROVE j \in found'.pods
        <5>1. j \in Labelled["run"] \cup Labelled["children"]
          BY <4>3, WorkloadAssumption DEF StillActive
        <5>2. j \in There("pods") /\ pod[j] = "active"
          BY <3>2, <4>3 DEF StillActive
        <5>3. j \in Labelled["run"] => j \in found.pods
          BY <4>2, <4>3 DEF StillActive
        <5>4. QED BY <3>1, <3>4, <5>1, <5>2, <5>3
      <4>4. QED BY <2>1, <2>2, <2>4, <4>1, <4>3 DEF StopInv
    <3>5. QED BY <3>3, <3>4 DEF Labels
  <2>5. QED BY <2>1, <2>3, <2>4
<1>9. ASSUME NEW l \in Labels, List("cronjobs", l) PROVE StopInv'
  <2>1. phase = "REQUESTED" /\ UNCHANGED <<phase, job, before>>
    BY <1>9 DEF List, ListCall, Labels, Proceed, TypeOK, PCs, Phases,
                TerminalStates
  <2>2. QED BY <1>1, <2>1
<1>10. ASSUME NEW j \in Pods, DeletePod(j) PROVE StopInv'
  <2>1. phase = "FENCING"
    BY <1>10 DEF DeletePod, TypeOK, PCs, Phases, TerminalStates
  <2>2. /\ UNCHANGED <<phase, pc, results, verdict, job, before>>
        /\ found'.jobs = found.jobs
        /\ \A i \in Jobs : pod'[i] = "active" => pod[i] = "active"
    BY <1>10 DEF DeletePod, TypeOK
  <2>3. \A i \in before : i \in Jobs /\ job[i] # "absent"
    BY DEF StopInv, TypeOK
  <2>4. QED BY <2>1, <2>2, <2>3, StopStable
<1>11. ASSUME NEW j \in Jobs, DeleteJob(j) PROVE StopInv'
  <2>1. phase = "FENCING" /\ pc = "DeleteJobs"
        /\ UNCHANGED <<phase, pc, before>>
    BY <1>11 DEF DeleteJob, TypeOK, PCs, Phases, TerminalStates
  <2>2. \A i \in Jobs : (job'[i] = "absent") = (job[i] = "absent")
    BY <1>11 DEF DeleteJob, TypeOK
  <2>3. \A i \in before : job'[i] # "absent"
    BY <2>2 DEF StopInv, TypeOK
  <2>4. found'.jobs = found.jobs \ {j}
    BY <1>11 DEF DeleteJob, TypeOK
  <2>5. \A i \in StillThere(Jobs)' : i \in StillThere(Jobs) /\ i # j
    BY <1>11, <2>1, <2>3 DEF DeleteJob, StillThere, TypeOK
  <2>6. StillThere(Jobs)' \subseteq found'.jobs
    BY <2>1, <2>4, <2>5 DEF StopInv
  <2>7. QED BY <2>1, <2>3, <2>6 DEF StopInv
<1>12. CASE AllHandled
  <2>1. UNCHANGED <<phase, results, verdict, found, job, pod, before>>
    BY <1>12 DEF AllHandled, Proceed
  <2>2. CASE pc = "Suspend"
    <3>1. phase = "REQUESTED"
      BY <2>2 DEF TypeOK, PCs, Phases, TerminalStates
    <3>2. QED BY <1>1, <2>1, <3>1
  <2>3. CASE pc = "DeletePods"
    <3>1. phase = "FENCING" /\ pc' = "DeleteJobs"
      BY <1>12, <2>3 DEF AllHandled, Proceed, NextCall, TypeOK, PCs, Phases,
                         TerminalStates
    <3>2. QED BY <1>2, <2>1, <2>3, <3>1 DEF StopInv
  <2>4. CASE pc = "DeleteJobs"
    <3>1. phase = "FENCING" /\ pc' = "Commit" /\ found.jobs = {}
      BY <1>12, <2>4 DEF AllHandled, Handled, Proceed, NextCall, TypeOK, PCs,
                         Phases, TerminalStates
    <3>2. QED BY <1>2, <2>1, <2>4, <3>1 DEF StopInv
  <2>5. QED BY <1>12, <2>2, <2>3, <2>4 DEF AllHandled, Handled
<1>13. CASE ListChildJobs \/ ListChildCronJobs
  <2>1. /\ phase \in {"PROCESS_STOP_SENT", "PROBING"}
        /\ UNCHANGED <<phase, results, job, pod, before>>
        /\ pc \in {"ChildJobs", "ChildCronJobs"}
        /\ pc' \in {"ChildCronJobs", "Commit", "Judge"}
    BY <1>13 DEF ListChildJobs, ListChildCronJobs, Proceed, NextCall, TypeOK, PCs,
                 Phases, TerminalStates
  <2>2. QED BY <1>2, <1>3, <2>1 DEF StopInv
<1>14. CASE Commit
  <2>1. UNCHANGED <<results, job, pod, before>> /\ phase' = NextPhase[phase]
        /\ phase \in Phases \ {"PROBING"} /\ pc' = FirstCall[phase']
    BY <1>14 DEF Commit, TypeOK, PCs, Phases, TerminalStates
  <2>2. results["process"] # "PASS"
    BY <2>1, WorkloadAssumption DEF ResultsInv, Kinds, ProbeResults
  <2>3. \/ phase = "REQUESTED" /\ phase' = "FENCING" /\ pc' = "PodsRun"
        \/ /\ phase \in {"FENCING", "PROCESS_STOP_SENT", "CHILD_DISCOVERY"}
           /\ phase' \in {"PROCESS_STOP_SENT", "CHILD_DISCOVERY", "PROBING"}
           /\ phase' = "PROBING" => pc' = "NextProbe"
    BY <2>1 DEF NextPhase, FirstCall, Phases
  <2>4. pc = "Commit" BY <1>14 DEF Commit
  <2>5. QED BY <1>2, <2>1, <2>2, <2>3, <2>4 DEF StopInv
<1>15. ASSUME NEW k \in Kinds, StartProbe(k) PROVE StopInv'
  <2>1. /\ phase = "PROBING"
        /\ UNCHANGED <<phase, results, job, pod, before>>
        /\ pc' = "Save" => verdict' = "UNKNOWN"
        /\ k # "process" => results["process"] # None
    BY <1>15 DEF StartProbe, Probing, Observe, ProbeCall, Earlier, Kinds, Services
  <2>2. /\ pc' \in {"PodsRun", "ChildJobs", "AskFirst", "Save"}
        /\ k = "process" => pc' = "PodsRun"
    BY <1>15 DEF StartProbe, Observe, ProbeCall, Kinds, Services
  <2>3. QED BY <1>2, <1>3, <2>1, <2>2 DEF StopInv
<1>16. ASSUME NEW k \in Services, AskFirst(k) \/ AskSecond(k) PROVE StopInv'
  <2>1. /\ phase = "PROBING" /\ pc \in {"AskFirst", "AskSecond"}
        /\ UNCHANGED <<phase, results, job, pod, before>>
        /\ pc' \in {"AskSecond", "Save"}
    BY <1>16 DEF AskFirst, AskSecond, Probing, Observe
  <2>2. QED BY <1>2, <1>3, <2>1 DEF StopInv
<1>17. CASE Judge
  <2>1. /\ phase = "PROBING" /\ pc = "Judge" /\ pc' = "Save"
        /\ UNCHANGED <<phase, results, job, pod, before>>
        /\ verdict' = "PASS" => found.pods = {}
    BY <1>17 DEF Judge, Observe, NothingFound, TypeOK, PCs, Phases, TerminalStates
  <2>2. QED BY <1>2, <1>3, <2>1 DEF StopInv
<1>18. ASSUME NEW k \in Kinds, SaveProbe(k) PROVE StopInv'
  <2>1. /\ phase = "PROBING" /\ pc = "Save" /\ pc' = "NextProbe"
        /\ UNCHANGED <<phase, job, pod, before>>
        /\ results[k] = None /\ results' = [results EXCEPT ![k] = verdict]
    BY <1>18 DEF SaveProbe, Probing
  <2>2. results'["process"] = "PASS" => StillActive(Jobs) = {}
    BY <2>1 DEF StopInv, Kinds, TypeOK
  <2>3. QED BY <1>2, <1>3, <2>1, <2>2 DEF StopInv
<1>19. CASE Conclude
  <2>1. phase = "PROBING" /\ UNCHANGED <<results, job, pod, before>>
    BY <1>19 DEF Conclude, TypeOK, PCs, Phases, TerminalStates
  <2>2. phase' \in TerminalStates
    BY <1>19, Verdicts DEF Conclude
  <2>3. QED BY <1>2, <1>3, <2>1, <2>2 DEF StopInv, TerminalStates
<1>20. CASE CallFails
  <2>1. CASE phase = "PROBING"
    <3>1. UNCHANGED <<phase, results, job, pod, before>> /\ pc' = "Save"
          /\ verdict' = "UNKNOWN"
      BY <1>20, <2>1 DEF CallFails, Observe
    <3>2. QED BY <1>2, <1>3, <2>1, <3>1 DEF StopInv
  <2>2. CASE phase # "PROBING"
    BY <1>1, <1>20, <2>2 DEF CallFails, Abort
  <2>3. QED BY <2>1, <2>2
<1>21. CASE CrashRestart
  <2>1. /\ phase \in Phases /\ pc' = FirstCall[phase]
        /\ UNCHANGED <<phase, results, job, pod, before>>
    BY <1>21 DEF CrashRestart
  <2>2. /\ phase = "FENCING" => pc' = "PodsRun"
        /\ phase = "PROBING" => pc' = "NextProbe"
    BY <2>1 DEF FirstCall
  <2>3. QED BY <1>2, <1>3, <2>1, <2>2 DEF StopInv
<1>22. \A i \in before : i \in Jobs /\ job[i] # "absent"
  BY DEF StopInv, TypeOK
<1>23. CASE ClusterStep
  <2>1. UNCHANGED <<phase, pc, results, verdict, found, job, before>>
        /\ \A i \in Jobs : pod'[i] = "active" => pod[i] = "active"
    BY <1>23 DEF ClusterStep, EndPod, CollectPod, ReportStatus, LearnSuspension,
                 EnforcePolicy, TypeOK
  <2>2. QED BY <1>22, <2>1, StopStable
<1>24. ASSUME NEW j \in Jobs, SpawnJob(j) PROVE StopInv'
  <2>1. UNCHANGED <<phase, pc, results, verdict, found, pod, before>>
    BY <1>24 DEF SpawnJob
  <2>2. \A i \in before : job'[i] = job[i]
    BY <1>22, <1>24 DEF SpawnJob, TypeOK
  <2>3. QED BY <1>22, <2>1, <2>2, StopStable
<1>25. ASSUME NEW j \in Pods, StartPod(j) PROVE StopInv'
  <2>1. UNCHANGED <<phase, pc, results, verdict, job, before>>
        /\ found'.jobs = found.jobs /\ (phase = "PROBING" => found' = found)
    BY <1>25 DEF StartPod, TypeOK
  <2>2. \A i \in before : job[i] = "deleting" => pod'[i] = pod[i]
    BY <1>22, <1>25 DEF StartPod, TypeOK
  <2>3. QED BY <1>22, <2>1, <2>2, StopStable
<1>26. ASSUME NEW j \in Jobs, CollectJob(j) PROVE StopInv'
  <2>1. UNCHANGED <<phase, pc, results, verdict, found, pod>>
        /\ before' = before \ {j}
    BY <1>26 DEF CollectJob
  <2>2. \A i \in before' : job'[i] = job[i]
    BY <1>22, <1>26, <2>1 DEF CollectJob, TypeOK
  <2>3. before' \subseteq before BY <2>1
  <2>4. QED BY <1>22, <2>1, <2>2, <2>3, StopStable
<1>27. QED BY <1>4, <1>5, <1>6, <1>7, <1>8, <1>9, <1>10, <1>11, <1>12, <1>13,
              <1>14, <1>15, <1>16, <1>17, <1>18, <1>19, <1>20, <1>21, <1>23,
              <1>24, <1>25, <1>26
           DEF Next, AdapterStep, ListCall

LEMMA UnchangedInv ==
    ASSUME UNCHANGED vars
    PROVE  /\ ResultsInv => ResultsInv'
           /\ StopInv => StopInv'
<1>1. UNCHANGED <<phase, pc, results, verdict, found, job, pod, before>>
  BY DEF vars, locals, cluster, services, history
<1>2. QED BY <1>1 DEF ResultsInv, StopInv, StillThere, StillActive

\* A shutdown is always where its results and the Jobs of `before` say.
LEMMA StopInvariant == Spec => [](TypeOK /\ ResultsInv /\ StopInv)
<1>1. Init => ResultsInv /\ StopInv
  <2>1. ASSUME Init PROVE ResultsInv
    BY <2>1 DEF Init, ResultsInv, Kinds
  <2>2. ASSUME Init PROVE StopInv
    BY <2>2 DEF Init, StopInv, FirstCall
  <2>3. QED BY <2>1, <2>2
<1>2. TypeOK /\ ResultsInv /\ StopInv /\ [Next]_vars => ResultsInv' /\ StopInv'
  BY ResultsStep, StopStep, UnchangedInv
<1>3. QED BY <1>1, <1>2, TypeCorrect, PTL DEF Spec

\* VerifiedIsStopped: however the calls of stop_process, the controllers and
\* restarts interleave, no Job that it listed is left running, or startable,
\* when the shutdown is VERIFIED.
THEOREM VerifiedStopped == Spec => []VerifiedIsStopped
<1>1. TypeOK /\ ResultsInv /\ StopInv => VerifiedIsStopped
  BY DEF ResultsInv, StopInv, StillThere, StillActive, VerifiedIsStopped, Kinds,
         TypeOK
<1>2. QED BY <1>1, StopInvariant, PTL

-----------------------------------------------------------------------------
(* What is overlooked                                                      *)

\* stop_process has listed the Jobs.
Listed ==
    \/ phase \in {"PROCESS_STOP_SENT", "CHILD_DISCOVERY", "PROBING", "VERIFIED"}
    \/ phase = "FENCING" /\ pc \in {"JobsChildren", "DeletePods", "DeleteJobs", "Commit"}

\* Only children are created after that list.
LateAreChildren ==
    Listed => \A j \in Jobs \ before : job[j] # "absent" => j \in Labelled["children"]

\* A Pod known to have started after the process probe listed the Pods, or one
\* of a Job whose status cannot be that of an earlier Pod.
Fresh(p) == p \in replaced \/ (p \in Jobs /\ status[p] # "inactive")

\* The active ones that the process probe has to find.
Old(S) == {p \in Pods \cap S : pod[p] = "active" /\ ~Fresh(p)}

\* How the process probe comes to find them.
PodsListed ==
    /\ phase = "PROBING" /\ results["process"] = None =>
        /\ pc = "PodsChildren" => Old(Labelled["run"]) \subseteq found.pods
        /\ pc = "Judge" => Old(Pods) \subseteq found.pods
        /\ pc = "Save" /\ verdict = "PASS" => Old(Pods) = {}
    /\ phase \in {"PROBING", "VERIFIED"} /\ results["process"] = "PASS" =>
          Old(Pods) = {}

\* The process probe has found no Pod, the delegation probe no child so far.
NoneSeen ==
    /\ results["process"] = "PASS"
    /\ \/ phase \in {"PROBING", "VERIFIED"} /\ results["delegation"] = "PASS"
       \/ /\ phase = "PROBING" /\ results["delegation"] = None
          /\ \/ pc = "ChildCronJobs" /\ found.jobs = {}
             \/ pc = "Judge" /\ found = NothingFound
             \/ pc = "Save" /\ verdict = "PASS"

\* Any other Job has a status, so that a Pod it starts from here on is a retry.
RestKnown ==
    NoneSeen => \A j \in Jobs \ (before \cup unreported \cup later) :
                    /\ job[j] = "absent" \/ status[j] # "none"
                    /\ pod[j] = "active" => j \in replaced

\* Which probe the thread is at.
AtItsProbe ==
    phase = "PROBING" =>
        /\ pc \in {"PodsRun", "PodsChildren"} => results["process"] = None
        /\ pc \in {"ChildJobs", "ChildCronJobs"} =>
              results["process"] # None /\ results["delegation"] = None

\* How a Pod that stop_process missed comes to be seen by one of two probes: by
\* the process probe unless it is fresh, and a fresh one by the delegation
\* probe unless it is counted in a history.
OverlookedInv == AtItsProbe /\ LateAreChildren /\ PodsListed /\ RestKnown

\* The steps that change the Jobs, their Pods and statuses, and the bare Pods.
WorkStep(p) ==
    \/ DeletePod(p) \/ StartPod(p)
    \/ p \in Jobs /\ (DeleteJob(p) \/ SpawnJob(p) \/ CollectJob(p))
    \/ /\ EndPod(p) \/ (p \in Jobs /\ (CollectPod(p) \/ ReportStatus(p)))
       /\ UNCHANGED <<phase, results, pc, locals, services, history, environment>>

\* The other steps of the cluster.
OtherClusterStep ==
    /\ (\E c \in CronJobs : LearnSuspension(c)) \/ \E l \in Labels : EnforcePolicy(l)
    /\ UNCHANGED <<phase, results, pc, locals, services, history, environment>>

\* The steps of the thread that delete nothing.
ThreadStep ==
    \/ \E l \in Labels : CreatePolicy(l)
    \/ \E resource \in DOMAIN ListCall, l \in Labels : List(resource, l)
    \/ \E c \in CronJobs : SuspendCronJob(c)
    \/ \E s \in DOMAIN FenceCall : FenceService(s)
    \/ AllHandled \/ ListChildJobs \/ ListChildCronJobs \/ Commit
    \/ \E k \in Kinds : StartProbe(k) \/ SaveProbe(k)
    \/ \E k \in Services : AskFirst(k) \/ AskSecond(k)
    \/ Judge \/ Conclude \/ CallFails \/ CrashRestart

LEMMA Steps ==
    ASSUME Next
    PROVE  ThreadStep \/ OtherClusterStep \/ \E p \in Pods : WorkStep(p)
BY DEF Next, AdapterStep, ClusterStep, ThreadStep, OtherClusterStep, WorkStep

LEMMA ThreadKeepsJobs == ASSUME ThreadStep PROVE UNCHANGED <<job, pod, status>>
<1> USE DEF cluster
<1>1. ASSUME \/ \E l \in Labels : CreatePolicy(l)
             \/ \E c \in CronJobs : SuspendCronJob(c)
             \/ \E s \in DOMAIN FenceCall : FenceService(s)
      PROVE  UNCHANGED <<job, pod, status>>
  BY <1>1 DEF CreatePolicy, SuspendCronJob, FenceService
<1>2. ASSUME \/ \E resource \in DOMAIN ListCall, l \in Labels : List(resource, l)
             \/ AllHandled \/ ListChildJobs \/ ListChildCronJobs \/ Commit
      PROVE  UNCHANGED <<job, pod, status>>
  BY <1>2 DEF List, AllHandled, ListChildJobs, ListChildCronJobs, Commit
<1>3. ASSUME \/ \E k \in Kinds : StartProbe(k) \/ SaveProbe(k)
             \/ \E k \in Services : AskFirst(k) \/ AskSecond(k)
             \/ Judge \/ Conclude \/ CallFails \/ CrashRestart
      PROVE  UNCHANGED <<job, pod, status>>
  BY <1>3 DEF StartProbe, SaveProbe, AskFirst, AskSecond, Judge, Conclude, CallFails,
              CrashRestart
<1>4. QED BY <1>1, <1>2, <1>3 DEF ThreadStep

LEMMA WorkStepKeeps ==
    ASSUME TypeOK, NEW p \in Pods, WorkStep(p)
    PROVE  /\ UNCHANGED <<phase, results, pc, verdict, unreported>>
           /\ phase # "FENCING" => found' = found
           /\ before' \subseteq before
           /\ \A i \in before \ before' : i = p /\ CollectJob(p)
           /\ \A i \in Jobs : i # p => job'[i] = job[i] /\ status'[i] = status[i]
           /\ \A i \in Pods : i # p => pod'[i] = pod[i]
           /\ later \subseteq later' /\ replaced \subseteq replaced'
<1> USE DEF locals, cluster, services, history
<1>1. CASE DeletePod(p) \/ (p \in Jobs /\ DeleteJob(p))
  BY <1>1 DEF DeletePod, DeleteJob, TypeOK, PCs, Phases, TerminalStates
<1>2. CASE StartPod(p)
  BY <1>2 DEF StartPod, TypeOK
<1>3. CASE p \in Jobs /\ SpawnJob(p)
  BY <1>3 DEF SpawnJob, TypeOK
<1>4. CASE p \in Jobs /\ CollectJob(p)
  BY <1>4 DEF CollectJob, TypeOK
<1>5. CASE /\ EndPod(p) \/ (p \in Jobs /\ (CollectPod(p) \/ ReportStatus(p)))
           /\ UNCHANGED <<phase, results, pc, locals, services, history, environment>>
  BY <1>5 DEF EndPod, CollectPod, ReportStatus, TypeOK
<1>6. QED BY <1>1, <1>2, <1>3, <1>4, <1>5 DEF WorkStep

LEMMA AtItsProbeStep ==
    ASSUME TypeOK, AtItsProbe, Next
    PROVE  AtItsProbe'
<1> USE DEF locals, cluster, services, history
<1>1. CASE UNCHANGED <<phase, pc, results>> \/ phase' # "PROBING"
  BY <1>1 DEF AtItsProbe
<1>2. ASSUME pc' \notin {"PodsRun", "PodsChildren", "ChildJobs", "ChildCronJobs"}
      PROVE  AtItsProbe'
  BY <1>2 DEF AtItsProbe
<1>3. ASSUME \/ \E l \in Labels : CreatePolicy(l)
             \/ \E c \in CronJobs : SuspendCronJob(c)
             \/ \E s \in DOMAIN FenceCall : FenceService(s)
      PROVE  phase' # "PROBING"
  BY <1>3 DEF CreatePolicy, SuspendCronJob, FenceService, PolicyCall, FenceCall,
              Labels, Proceed, Abort, TypeOK, PCs, Phases, TerminalStates
<1>4. ASSUME NEW resource \in DOMAIN ListCall, NEW l \in Labels, List(resource, l)
      PROVE  AtItsProbe'
  <2>1. UNCHANGED <<phase, results>> /\ pc' = NextCall[pc]
        /\ pc \in {"CronJobsRun", "CronJobsChildren", "PodsRun", "PodsChildren",
                   "JobsRun", "JobsChildren"}
    BY <1>4 DEF List, ListCall, Labels, Proceed
  <2>2. phase = "PROBING" => pc \in {"PodsRun", "PodsChildren"}
    BY <2>1 DEF TypeOK, PCs, Phases, TerminalStates
  <2>3. phase = "PROBING" => pc' \in {"PodsChildren", "Judge"}
    BY <2>1, <2>2 DEF NextCall
  <2>4. QED BY <2>1, <2>2, <2>3 DEF AtItsProbe
<1>5. CASE AllHandled \/ ListChildJobs \/ ListChildCronJobs
  <2>1. UNCHANGED <<phase, results>> /\ pc' = NextCall[pc]
        /\ pc \in {"Suspend", "DeletePods", "DeleteJobs", "ChildJobs", "ChildCronJobs"}
    BY <1>5 DEF AllHandled, Handled, ListChildJobs, ListChildCronJobs, Proceed
  <2>2. phase = "PROBING" => pc \in {"ChildJobs", "ChildCronJobs"}
    BY <2>1 DEF TypeOK, PCs, Phases, TerminalStates
  <2>3. phase = "PROBING" => pc' \in {"ChildCronJobs", "Judge"}
    BY <2>1, <2>2 DEF NextCall
  <2>4. QED BY <2>1, <2>2, <2>3 DEF AtItsProbe
<1>6. CASE Commit
  <2>1. phase' = NextPhase[phase] /\ pc' = FirstCall[phase'] /\ phase \in Phases \ {"PROBING"}
    BY <1>6 DEF Commit, TypeOK, PCs, Phases, TerminalStates
  <2>2. phase' = "PROBING" => pc' = "NextProbe"
    BY <2>1 DEF FirstCall
  <2>3. QED BY <2>2 DEF AtItsProbe
<1>7. ASSUME NEW k \in Kinds, StartProbe(k) PROVE AtItsProbe'
  <2>1. /\ UNCHANGED <<phase, results>> /\ results[k] = None
        /\ k = "delegation" => results["process"] # None
    BY <1>7 DEF StartProbe, Probing, Observe, Earlier
  <2>2. /\ pc' \in {"PodsRun", "ChildJobs", "AskFirst", "Save"}
        /\ pc' = "PodsRun" => k = "process"
        /\ pc' = "ChildJobs" => k = "delegation"
    BY <1>7 DEF StartProbe, Observe, ProbeCall, Kinds, Services
  <2>3. QED BY <2>1, <2>2 DEF AtItsProbe
<1>8. ASSUME \/ \E k \in Kinds : SaveProbe(k)
             \/ \E k \in Services : AskFirst(k) \/ AskSecond(k)
             \/ Judge \/ Conclude
      PROVE  AtItsProbe'
  BY <1>2, <1>8 DEF SaveProbe, AskFirst, AskSecond, Judge, Conclude, Observe
<1>9. CASE CallFails
  BY <1>2, <1>9 DEF CallFails, Observe, Abort
<1>10. CASE CrashRestart
  <2>1. phase' = "PROBING" => pc' = "NextProbe"
    BY <1>10 DEF CrashRestart, FirstCall
  <2>2. QED BY <2>1 DEF AtItsProbe
<1>11. CASE OtherClusterStep \/ \E p \in Pods : WorkStep(p)
  BY <1>1, <1>11, WorkStepKeeps DEF OtherClusterStep
<1>12. QED
  BY <1>1, <1>3, <1>4, <1>5, <1>6, <1>7, <1>8, <1>9, <1>10, <1>11, Steps DEF ThreadStep

LEMMA LateByThread ==
    ASSUME TypeOK, LateAreChildren, ThreadStep
    PROVE  LateAreChildren'
<1> USE DEF locals, cluster, services, history
<1>1. UNCHANGED <<job, pod, status>>
  BY ThreadKeepsJobs
<1>2. ASSUME before' = before, Listed' => Listed PROVE LateAreChildren'
  BY <1>1, <1>2 DEF LateAreChildren
<1>3. ASSUME ~Listed' PROVE LateAreChildren'
  BY <1>3 DEF LateAreChildren
<1>4. ASSUME \/ \E l \in Labels : CreatePolicy(l)
             \/ \E c \in CronJobs : SuspendCronJob(c)
             \/ \E s \in DOMAIN FenceCall : FenceService(s)
      PROVE  LateAreChildren'
  <2>1. phase' \in {"REQUESTED", "FAILED"}
    BY <1>4 DEF CreatePolicy, SuspendCronJob, FenceService, PolicyCall, FenceCall,
                Labels, Proceed, Abort, TypeOK, PCs, Phases, TerminalStates
  <2>2. QED BY <1>3, <2>1 DEF Listed
<1>5. ASSUME NEW l \in Labels, List("jobs", l) PROVE LateAreChildren'
  <2>1. phase = "FENCING" /\ phase' = phase
    BY <1>5 DEF List, ListCall, Labels, Proceed, TypeOK, PCs, Phases, TerminalStates
  <2>2. CASE l = "run"
    <3>1. before' = There("jobs")
      BY <1>5, <2>2 DEF List, ListCall
    <3>2. QED BY <1>1, <3>1 DEF LateAreChildren, There
  <2>3. CASE l = "children"
    <3>1. pc = "JobsChildren" /\ before' = before
      BY <1>5, <2>3 DEF List, ListCall
    <3>2. QED BY <1>2, <2>1, <3>1 DEF Listed
  <2>4. QED BY <2>2, <2>3 DEF Labels
<1>6. ASSUME NEW resource \in {"pods", "cronjobs"}, NEW l \in Labels, List(resource, l)
      PROVE  LateAreChildren'
  <2>1. /\ phase' = phase /\ before' = before
        /\ phase = "FENCING" => pc' \in {"PodsChildren", "JobsRun"}
    BY <1>6 DEF List, ListCall, Labels, Proceed, NextCall, TypeOK, PCs, Phases,
                TerminalStates
  <2>2. QED BY <1>2, <1>3, <2>1 DEF Listed
<1>7. CASE AllHandled
  <2>1. /\ UNCHANGED <<phase, before>>
        /\ pc \in {"Suspend", "DeletePods", "DeleteJobs"}
    BY <1>7 DEF AllHandled, Handled, Proceed
  <2>2. phase = "FENCING" => pc \in {"DeletePods", "DeleteJobs"}
    BY <2>1 DEF TypeOK, PCs, Phases, TerminalStates
  <2>3. QED BY <1>2, <2>1, <2>2 DEF Listed
<1>8. CASE ListChildJobs \/ ListChildCronJobs
  <2>1. UNCHANGED <<phase, before>> /\ phase # "FENCING"
    BY <1>8 DEF ListChildJobs, ListChildCronJobs, Proceed, TypeOK, PCs, Phases,
                TerminalStates
  <2>2. QED BY <1>2, <2>1 DEF Listed
<1>9. CASE Commit
  <2>1. /\ before' = before /\ phase' = NextPhase[phase] /\ pc' = FirstCall[phase']
        /\ pc = "Commit" /\ phase \in Phases \ {"PROBING"}
    BY <1>9 DEF Commit, TypeOK, PCs, Phases, TerminalStates
  <2>2. CASE phase = "REQUESTED"
    <3>1. phase' = "FENCING" /\ pc' = "PodsRun"
      BY <2>1, <2>2 DEF NextPhase, FirstCall
    <3>2. QED BY <1>3, <3>1 DEF Listed
  <2>3. CASE phase # "REQUESTED"
    <3>1. Listed /\ phase' # "FENCING"
      BY <2>1, <2>3 DEF NextPhase, Phases, Listed
    <3>2. QED BY <1>2, <2>1, <3>1
  <2>4. QED BY <2>2, <2>3
<1>10. ASSUME \/ \E k \in Kinds : StartProbe(k) \/ SaveProbe(k)
              \/ \E k \in Services : AskFirst(k) \/ AskSecond(k)
              \/ Judge \/ Conclude
       PROVE  LateAreChildren'
  <2>1. phase = "PROBING" /\ before' = before
    BY <1>10 DEF StartProbe, SaveProbe, AskFirst, AskSecond, Judge, Conclude, Probing,
                 TypeOK, PCs, Phases, TerminalStates
  <2>2. phase' \in {"PROBING"} \cup TerminalStates
    BY <1>10, <2>1, Verdicts
       DEF StartProbe, SaveProbe, AskFirst, AskSecond, Judge, Conclude, Observe
  <2>3. QED BY <1>2, <2>1, <2>2 DEF Listed, TerminalStates
<1>11. CASE CallFails
  <2>1. before' = before /\ phase' \in {"PROBING", "FAILED"}
        /\ (phase' = "PROBING" => phase = "PROBING")
    BY <1>11 DEF CallFails, Observe, Abort
  <2>2. QED BY <1>2, <2>1 DEF Listed
<1>12. CASE CrashRestart
  <2>1. /\ UNCHANGED <<phase, before>>
        /\ phase = "FENCING" => pc' = "PodsRun"
    BY <1>12 DEF CrashRestart, FirstCall
  <2>2. QED BY <1>2, <1>3, <2>1 DEF Listed
<1>13. QED
  BY <1>4, <1>5, <1>6, <1>7, <1>8, <1>9, <1>10, <1>11, <1>12
  DEF ThreadStep, ListCall

LEMMA LateByWork ==
    ASSUME TypeOK, LateAreChildren, NEW p \in Pods, WorkStep(p)
    PROVE  LateAreChildren'
<1> SUFFICES ASSUME Listed, NEW j \in Jobs \ before', job'[j] # "absent"
             PROVE  j \in Labelled["children"]
  BY WorkStepKeeps DEF LateAreChildren, Listed
<1>1. CASE j \in before
  BY <1>1, WorkStepKeeps DEF CollectJob, TypeOK
<1>2. CASE j \notin before /\ job[j] # "absent"
  BY <1>2 DEF LateAreChildren
<1>3. CASE job[j] = "absent"
  <2>1. j = p BY <1>3, WorkStepKeeps
  <2>2. CASE SpawnJob(p)
    BY <2>1, <2>2 DEF SpawnJob
  <2>3. CASE ~SpawnJob(p)
    BY <1>3, <2>1, <2>3 DEF WorkStep, DeletePod, StartPod, DeleteJob, CollectJob,
                            EndPod, CollectPod, ReportStatus, TypeOK
  <2>4. QED BY <2>2, <2>3
<1>4. QED BY <1>1, <1>2, <1>3

LEMMA PodsByThread ==
    ASSUME TypeOK, ResultsInv, AtItsProbe, PodsListed, ThreadStep
    PROVE  PodsListed'
<1> USE DEF locals, cluster, services, history
<1>1. UNCHANGED <<job, pod, status>>
  BY ThreadKeepsJobs
<1>2. ASSUME replaced' = replaced, NEW S PROVE Old(S)' = Old(S)
  BY <1>1, <1>2 DEF Old, Fresh
<1>3. ASSUME phase' \notin {"PROBING", "VERIFIED"} PROVE PodsListed'
  BY <1>3 DEF PodsListed
<1>4. ASSUME UNCHANGED <<replaced, results>>, phase = "PROBING",
             pc' \notin {"PodsChildren", "Judge"} \/ results["process"] # None,
             pc' = "Save" /\ results["process"] = None => verdict' # "PASS"
      PROVE  PodsListed'
  BY <1>2, <1>4 DEF PodsListed
<1>5. ASSUME \/ \E l \in Labels : CreatePolicy(l)
             \/ \E c \in CronJobs : SuspendCronJob(c)
             \/ \E s \in DOMAIN FenceCall : FenceService(s)
      PROVE  PodsListed'
  <2>1. phase' \in {"REQUESTED", "FAILED"}
    BY <1>5 DEF CreatePolicy, SuspendCronJob, FenceService, PolicyCall, FenceCall,
                Labels, Proceed, Abort, TypeOK, PCs, Phases, TerminalStates
  <2>2. QED BY <1>3, <2>1
<1>6. ASSUME NEW resource \in {"jobs", "cronjobs"}, NEW l \in Labels, List(resource, l)
      PROVE  PodsListed'
  <2>1. phase' \in {"REQUESTED", "FENCING"}
    BY <1>6 DEF List, ListCall, Labels, Proceed, TypeOK, PCs, Phases, TerminalStates
  <2>2. QED BY <1>3, <2>1
<1>7. ASSUME NEW l \in Labels, List("pods", l) PROVE PodsListed'
  <2>1. /\ UNCHANGED <<phase, results>> /\ phase \in {"FENCING", "PROBING"}
        /\ l = "run" => pc = "PodsRun" /\ pc' = "PodsChildren"
        /\ l = "children" =>
              pc = "PodsChildren" /\ (phase = "PROBING" => pc' = "Judge")
    BY <1>7 DEF List, ListCall, Labels, Proceed, NextCall, TypeOK, PCs, Phases,
                TerminalStates
  <2>2. CASE phase = "PROBING"
    <3>1. results["process"] = None /\ None # "PASS"
      BY <2>1, <2>2, WorkloadAssumption DEF AtItsProbe, Labels, ProbeResults
    <3>2. found'.pods = (found.pods \ (There("pods") \cap Labelled[l]))
                           \cup {p \in There("pods") \cap Labelled[l] : pod[p] = "active"}
      BY <1>7, <2>2 DEF List, Merged, TypeOK
    <3>3. \A p \in Pods \cap Labelled[l] : pod[p] = "active" => p \in found'.pods
      BY <3>2 DEF There
    <3>4. CASE l = "run"
      BY <1>1, <2>1, <2>2, <3>1, <3>3, <3>4 DEF PodsListed, Old
    <3>5. CASE l = "children"
      <4>1. replaced' = replaced
        BY <1>7, <2>1, <3>5 DEF List
      <4>2. Old(Labelled["run"]) \subseteq found.pods
        BY <2>1, <2>2, <3>1, <3>5 DEF PodsListed
      <4>3. ASSUME NEW p \in Old(Pods) PROVE p \in found'.pods
        <5>1. p \in Pods /\ pod[p] = "active" /\ p \in There("pods")
          BY DEF Old, There
        <5>2. CASE p \in Labelled["children"]
          BY <3>3, <3>5, <5>1, <5>2
        <5>3. CASE p \notin Labelled["children"]
          <6>1. p \in Labelled["run"]
            BY <5>1, <5>3, WorkloadAssumption
          <6>2. p \in found.pods
            BY <4>2, <6>1 DEF Old
          <6>3. QED BY <3>2, <3>5, <5>3, <6>2
        <5>4. QED BY <5>2, <5>3
      <4>4. QED BY <1>2, <2>1, <2>2, <3>1, <3>5, <4>1, <4>3 DEF PodsListed
    <3>6. QED BY <3>4, <3>5 DEF Labels
  <2>3. QED BY <1>3, <2>1, <2>2
<1>8. CASE AllHandled
  <2>1. phase' \in {"REQUESTED", "FENCING"}
    BY <1>8 DEF AllHandled, Handled, Proceed, TypeOK, PCs, Phases, TerminalStates
  <2>2. QED BY <1>3, <2>1
<1>9. CASE ListChildJobs \/ ListChildCronJobs
  <2>1. UNCHANGED <<phase, results, replaced>> /\ pc \in {"ChildJobs", "ChildCronJobs"}
        /\ phase \in {"PROCESS_STOP_SENT", "PROBING"} /\ pc' = NextCall[pc]
    BY <1>9 DEF ListChildJobs, ListChildCronJobs, Proceed, TypeOK, PCs, Phases,
                TerminalStates
  <2>2. phase = "PROBING" => results["process"] # None /\ pc' # "Save"
    BY <2>1 DEF AtItsProbe, NextCall
  <2>3. QED BY <1>3, <1>4, <2>1, <2>2
<1>10. CASE Commit
  <2>1. /\ UNCHANGED results /\ phase' = NextPhase[phase] /\ pc' = FirstCall[phase']
        /\ phase \in Phases \ {"PROBING"}
    BY <1>10 DEF Commit, TypeOK, PCs, Phases, TerminalStates
  <2>2. results["process"] # "PASS"
    BY <2>1, WorkloadAssumption DEF ResultsInv, Kinds, ProbeResults
  <2>3. phase' = "PROBING" => pc' = "NextProbe"
    BY <2>1 DEF FirstCall
  <2>4. QED BY <2>1, <2>2, <2>3 DEF PodsListed
<1>11. ASSUME NEW k \in Kinds, StartProbe(k) PROVE PodsListed'
  <2>1. /\ UNCHANGED <<results, replaced>> /\ phase = "PROBING"
        /\ pc' \in {"PodsRun", "ChildJobs", "AskFirst", "Save"}
        /\ pc' = "Save" => verdict' = "UNKNOWN"
    BY <1>11 DEF StartProbe, Probing, Observe, ProbeCall, Kinds, Services
  <2>2. QED BY <1>4, <2>1
<1>12. ASSUME NEW k \in Kinds, SaveProbe(k) PROVE PodsListed'
  <2>1. /\ UNCHANGED <<phase, replaced>> /\ phase = "PROBING"
        /\ pc = "Save" /\ pc' = "NextProbe"
        /\ results[k] = None /\ results' = [results EXCEPT ![k] = verdict]
    BY <1>12 DEF SaveProbe, Probing
  <2>2. results'["process"] = "PASS" => Old(Pods) = {}
    <3>1. results'["process"] =
            IF k = "process" THEN verdict ELSE results["process"]
      BY <2>1 DEF TypeOK, Kinds
    <3>2. QED BY <2>1, <3>1 DEF PodsListed
  <2>3. QED BY <1>2, <2>1, <2>2 DEF PodsListed
<1>13. ASSUME NEW k \in Services, AskFirst(k) \/ AskSecond(k) PROVE PodsListed'
  <2>1. UNCHANGED <<results, replaced>> /\ phase = "PROBING"
        /\ pc' \in {"AskSecond", "Save"}
    BY <1>13 DEF AskFirst, AskSecond, Probing, Observe
  <2>2. results["process"] # None
    BY <1>13 DEF AskFirst, AskSecond, Probing, Earlier, Services
  <2>3. QED BY <1>4, <2>1, <2>2
<1>14. CASE Judge
  <2>1. /\ UNCHANGED <<results, replaced>> /\ phase = "PROBING" /\ pc = "Judge"
        /\ phase' = phase /\ pc' = "Save"
        /\ verdict' = "PASS" => found = NothingFound
    BY <1>14 DEF Judge, Observe, TypeOK, PCs, Phases, TerminalStates
  <2>2. QED BY <1>2, <2>1 DEF PodsListed, NothingFound
<1>15. CASE Conclude
  <2>1. UNCHANGED <<results, replaced>> /\ pc' = "Done" /\ phase = "PROBING"
    BY <1>15 DEF Conclude, TypeOK, PCs, Phases, TerminalStates
  <2>2. QED BY <1>4, <2>1
<1>16. CASE CallFails
  <2>1. CASE phase = "PROBING"
    <3>1. UNCHANGED <<results, replaced>> /\ pc' = "Save" /\ verdict' = "UNKNOWN"
      BY <1>16, <2>1 DEF CallFails, Observe
    <3>2. QED BY <1>4, <2>1, <3>1
  <2>2. CASE phase # "PROBING"
    BY <1>3, <1>16, <2>2 DEF CallFails, Abort
  <2>3. QED BY <2>1, <2>2
<1>17. CASE CrashRestart
  <2>1. /\ UNCHANGED <<phase, results, replaced>>
        /\ phase = "PROBING" => pc' = "NextProbe"
        /\ phase # "VERIFIED"
    BY <1>17 DEF CrashRestart, FirstCall, Phases
  <2>2. QED BY <1>3, <1>4, <2>1
<1>18. QED
  BY <1>5, <1>6, <1>7, <1>8, <1>9, <1>10, <1>11, <1>12, <1>13, <1>14, <1>15,
     <1>16, <1>17
  DEF ThreadStep, ListCall

\* Whatever starts during the probes is fresh, and stays so.
LEMMA PodsByWork ==
    ASSUME TypeOK, PodsListed, NEW p \in Pods, WorkStep(p)
    PROVE  PodsListed'
<1> USE DEF locals, cluster, services, history
<1>1. ASSUME phase \in {"PROBING", "VERIFIED"}, NEW S, NEW i \in Old(S)'
      PROVE  i \in Old(S)
  <2>1. i \in Pods \cap S /\ pod'[i] = "active" /\ ~Fresh(i)'
    BY <1>1 DEF Old
  <2>2. CASE i # p
    BY <2>1, <2>2, WorkStepKeeps DEF Old, Fresh
  <2>3. CASE i = p
    <3>1. CASE StartPod(p)
      <4>1. pod[p] = "done" \/ p \in BarePods \/ status[p] # "none" => Fresh(p)'
        BY <1>1, <3>1 DEF StartPod, Fresh
      <4>2. pod[p] = "none" /\ p \in Jobs /\ status[p] = "none" => Fresh(p)'
        BY <3>1 DEF StartPod, Fresh
      <4>3. QED BY <2>1, <2>3, <3>1, <4>1, <4>2 DEF StartPod, TypeOK
    <3>2. CASE ReportStatus(p) /\ p \in Jobs
      BY <2>1, <2>3, <3>2 DEF ReportStatus, Fresh, TypeOK
    <3>3. CASE DeletePod(p) \/ EndPod(p) \/ (p \in Jobs /\ (CollectPod(p) \/ CollectJob(p)))
      BY <2>1, <2>3, <3>3 DEF DeletePod, EndPod, CollectPod, CollectJob, TypeOK
    <3>4. CASE p \in Jobs /\ (DeleteJob(p) \/ SpawnJob(p))
      BY <2>1, <2>3, <3>4 DEF DeleteJob, SpawnJob, Old, Fresh
    <3>5. QED BY <3>1, <3>2, <3>3, <3>4 DEF WorkStep
  <2>4. QED BY <2>2, <2>3
<1>2. UNCHANGED <<phase, results, pc, verdict>> /\ (phase # "FENCING" => found' = found)
  BY WorkStepKeeps
<1>3. phase \in {"PROBING", "VERIFIED"} => \A S : Old(S)' \subseteq Old(S)
  BY <1>1
<1>4. CASE phase \in {"PROBING", "VERIFIED"}
  <2>1. /\ Old(Labelled["run"])' \subseteq Old(Labelled["run"])
        /\ Old(Pods)' \subseteq Old(Pods)
    BY <1>3, <1>4
  <2>2. QED BY <1>2, <1>4, <2>1 DEF PodsListed
<1>5. QED BY <1>2, <1>4 DEF PodsListed

LEMMA RestByThread ==
    ASSUME TypeOK, ResultsInv, AtItsProbe, LateAreChildren, PodsListed,
           RestKnown, ThreadStep
    PROVE  RestKnown'
<1> USE DEF locals, cluster, services, history
<1>1. UNCHANGED <<job, pod, status>>
  BY ThreadKeepsJobs
<1>2. None # "PASS"
  BY WorkloadAssumption DEF ProbeResults
<1>3. ASSUME UNCHANGED <<before, unreported, later>>, NoneSeen' => NoneSeen,
             replaced' = replaced \/ ~NoneSeen'
      PROVE  RestKnown'
  BY <1>1, <1>3 DEF RestKnown
<1>4. ASSUME phase' \notin {"PROBING", "VERIFIED"} PROVE RestKnown'
  BY <1>4 DEF RestKnown, NoneSeen
<1>5. ASSUME UNCHANGED <<before, unreported, later, replaced, results>>, phase = "PROBING",
             pc' \notin {"ChildCronJobs", "Judge"}, pc' = "Save" => verdict' # "PASS"
      PROVE  RestKnown'
  BY <1>3, <1>5 DEF NoneSeen
<1>6. ASSUME \/ \E l \in Labels : CreatePolicy(l)
             \/ \E c \in CronJobs : SuspendCronJob(c)
             \/ \E s \in DOMAIN FenceCall : FenceService(s)
      PROVE  RestKnown'
  <2>1. phase' \in {"REQUESTED", "FAILED"}
    BY <1>6 DEF CreatePolicy, SuspendCronJob, FenceService, PolicyCall, FenceCall,
                Labels, Proceed, Abort, TypeOK, PCs, Phases, TerminalStates
  <2>2. QED BY <1>4, <2>1
<1>7. ASSUME NEW resource \in {"jobs", "cronjobs"}, NEW l \in Labels, List(resource, l)
      PROVE  RestKnown'
  <2>1. phase' \in {"REQUESTED", "FENCING"}
    BY <1>7 DEF List, ListCall, Labels, Proceed, TypeOK, PCs, Phases, TerminalStates
  <2>2. QED BY <1>4, <2>1
<1>8. ASSUME NEW l \in Labels, List("pods", l) PROVE RestKnown'
  <2>1. UNCHANGED <<phase, results, before, unreported, later>>
        /\ pc \in {"PodsRun", "PodsChildren"} /\ phase \in {"FENCING", "PROBING"}
    BY <1>8 DEF List, ListCall, Labels, Proceed, TypeOK, PCs, Phases, TerminalStates
  <2>2. phase = "PROBING" => results["process"] = None
    BY <2>1 DEF AtItsProbe
  <2>3. QED BY <1>2, <1>3, <1>4, <2>1, <2>2 DEF NoneSeen
<1>9. CASE AllHandled
  <2>1. phase' \in {"REQUESTED", "FENCING"}
    BY <1>9 DEF AllHandled, Handled, Proceed, TypeOK, PCs, Phases, TerminalStates
  <2>2. QED BY <1>4, <2>1
<1>10. CASE ListChildJobs
  <2>1. UNCHANGED <<phase, results, before, replaced>> /\ pc = "ChildJobs"
        /\ phase \in {"PROCESS_STOP_SENT", "PROBING"}
    BY <1>10 DEF ListChildJobs, Proceed, TypeOK, PCs, Phases, TerminalStates
  <2>2. CASE phase = "PROBING"
    <3>1. /\ unreported' = {j \in There("jobs") \cap Labelled["children"] :
                              status[j] = "none"}
          /\ later' = {j \in Jobs : job[j] = "absent"}
          /\ found'.jobs = {j \in There("jobs") \cap Labelled["children"] : ChildActive(j)}
      BY <1>10, <2>2 DEF ListChildJobs, NothingFound
    <3>2. results["delegation"] = None /\ None # "PASS"
      BY <2>1, <2>2, WorkloadAssumption DEF AtItsProbe, ProbeResults
    <3>3. pc' = "ChildCronJobs"
      BY <1>10, <2>1 DEF ListChildJobs, Proceed, NextCall
    <3>4. ASSUME NoneSeen', NEW j \in Jobs \ (before \cup unreported' \cup later')
          PROVE  status[j] # "none" /\ (pod[j] = "active" => j \in replaced)
      <4>1. job[j] # "absent" /\ j \in There("jobs")
        BY <3>1, <3>4 DEF There
      <4>2. j \in Labelled["children"]
        BY <2>2, <3>4, <4>1 DEF LateAreChildren, Listed
      <4>3. found'.jobs = {} /\ results["process"] = "PASS"
        BY <2>1, <3>2, <3>3, <3>4 DEF NoneSeen
      <4>4. status[j] = "inactive"
        BY <3>1, <3>4, <4>1, <4>2, <4>3 DEF ChildActive, TypeOK
      <4>5. j \notin Old(Pods)
        BY <2>2, <4>3 DEF PodsListed
      <4>6. QED BY <4>4, <4>5 DEF Old, Fresh
    <3>5. QED BY <1>1, <2>1, <3>4 DEF RestKnown
  <2>3. QED BY <1>4, <2>1, <2>2
<1>11. CASE ListChildCronJobs
  <2>1. /\ UNCHANGED <<phase, results, before, unreported, later, replaced>> /\ pc = "ChildCronJobs"
        /\ phase \in {"PROCESS_STOP_SENT", "PROBING"} /\ found'.jobs = found.jobs
    BY <1>11 DEF ListChildCronJobs, Proceed, TypeOK, PCs, Phases, TerminalStates
  <2>2. CASE phase = "PROBING"
    <3>1. results["process"] # None /\ results["delegation"] = None /\ pc' = "Judge"
      BY <1>11, <2>1, <2>2 DEF AtItsProbe, ListChildCronJobs, Proceed, NextCall
    <3>2. NoneSeen' => found.jobs = {}
      BY <2>1, <3>1, WorkloadAssumption DEF NoneSeen, NothingFound, ProbeResults
    <3>3. QED BY <1>3, <2>1, <2>2, <3>1, <3>2 DEF NoneSeen
  <2>3. QED BY <1>4, <2>1, <2>2
<1>12. CASE Commit
  <2>1. /\ UNCHANGED <<results, before, unreported, later, replaced>>
        /\ phase' = NextPhase[phase] /\ pc' = FirstCall[phase']
        /\ phase \in Phases \ {"PROBING"}
    BY <1>12 DEF Commit, TypeOK, PCs, Phases, TerminalStates
  <2>2. results["delegation"] # "PASS"
    BY <2>1, WorkloadAssumption DEF ResultsInv, Kinds, ProbeResults
  <2>3. phase' # "VERIFIED" /\ (phase' = "PROBING" => pc' = "NextProbe")
    BY <2>1 DEF NextPhase, FirstCall, Phases
  <2>4. ~NoneSeen'
    BY <2>1, <2>2, <2>3 DEF NoneSeen
  <2>5. QED BY <2>4 DEF RestKnown
<1>13. ASSUME NEW k \in Kinds, StartProbe(k) PROVE RestKnown'
  <2>1. /\ UNCHANGED <<results, before, unreported, later, replaced>> /\ phase = "PROBING"
        /\ pc' \in {"PodsRun", "ChildJobs", "AskFirst", "Save"}
        /\ pc' = "Save" => verdict' = "UNKNOWN"
    BY <1>13 DEF StartProbe, Probing, Observe, ProbeCall, Kinds, Services
  <2>2. QED BY <1>5, <2>1
<1>14. ASSUME NEW k \in Kinds, SaveProbe(k) PROVE RestKnown'
  <2>1. /\ UNCHANGED <<phase, before, unreported, later, replaced>>
        /\ phase = "PROBING" /\ pc = "Save" /\ pc' = "NextProbe"
        /\ results[k] = None /\ results' = [results EXCEPT ![k] = verdict]
    BY <1>14 DEF SaveProbe, Probing
  <2>2. NoneSeen' => results'["process"] = "PASS" /\ results'["delegation"] = "PASS"
    BY <2>1 DEF NoneSeen
  <2>3. CASE k = "delegation"
    <3>1. /\ results'["delegation"] = verdict
          /\ results'["process"] = results["process"]
      BY <2>1, <2>3 DEF TypeOK, Kinds
    <3>2. QED BY <1>3, <2>1, <2>2, <2>3, <3>1 DEF NoneSeen
  <2>4. CASE k # "delegation"
    <3>1. results'["delegation"] = results["delegation"]
      BY <2>1, <2>4 DEF TypeOK, Kinds
    <3>2. NoneSeen' => k # "process"
      BY <1>2, <2>1, <2>2, <3>1 DEF ResultsInv
    <3>3. k # "process" => results'["process"] = results["process"]
      BY <2>1 DEF TypeOK, Kinds
    <3>4. QED BY <1>3, <2>1, <2>2, <3>1, <3>2, <3>3 DEF NoneSeen
  <2>5. QED BY <2>3, <2>4
<1>15. ASSUME NEW k \in Services, AskFirst(k) PROVE RestKnown'
  BY <1>5, <1>15 DEF AskFirst, Probing
<1>16. ASSUME NEW k \in Services, AskSecond(k) PROVE RestKnown'
  <2>1. UNCHANGED <<phase, results, before, unreported, later, replaced>>
        /\ phase = "PROBING" /\ results["delegation"] # None /\ pc' = "Save"
    BY <1>16 DEF AskSecond, Probing, Observe, Earlier, Services
  <2>2. QED BY <1>3, <2>1 DEF NoneSeen
<1>17. CASE Judge
  <2>1. /\ UNCHANGED <<phase, results, before, unreported, later, replaced>>
        /\ phase = "PROBING" /\ pc = "Judge" /\ pc' = "Save"
        /\ verdict' = "PASS" => found = NothingFound
    BY <1>17 DEF Judge, Observe, TypeOK, PCs, Phases, TerminalStates
  <2>2. QED BY <1>3, <2>1 DEF NoneSeen
<1>18. CASE Conclude
  <2>1. UNCHANGED <<results, before, unreported, later, replaced>> /\ pc' = "Done"
        /\ phase = "PROBING"
    BY <1>18 DEF Conclude, TypeOK, PCs, Phases, TerminalStates
  <2>2. QED BY <1>5, <2>1
<1>19. CASE CallFails
  <2>1. CASE phase = "PROBING"
    <3>1. UNCHANGED <<results, before, unreported, later, replaced>> /\ pc' = "Save"
          /\ verdict' = "UNKNOWN"
      BY <1>19, <2>1 DEF CallFails, Observe
    <3>2. QED BY <1>5, <2>1, <3>1
  <2>2. CASE phase # "PROBING"
    BY <1>4, <1>19, <2>2 DEF CallFails, Abort
  <2>3. QED BY <2>1, <2>2
<1>20. CASE CrashRestart
  <2>1. /\ UNCHANGED <<phase, results, before, unreported, later, replaced>>
        /\ phase = "PROBING" => pc' = "NextProbe"
        /\ phase # "VERIFIED"
    BY <1>20 DEF CrashRestart, FirstCall, Phases
  <2>2. CASE phase = "PROBING"
    BY <1>5, <2>1, <2>2
  <2>3. CASE phase # "PROBING"
    BY <1>4, <2>1, <2>3
  <2>4. QED BY <2>2, <2>3
<1>21. QED
  BY <1>6, <1>7, <1>8, <1>9, <1>10, <1>11, <1>12, <1>13, <1>14, <1>15, <1>16,
     <1>17, <1>18, <1>19, <1>20
  DEF ThreadStep, ListCall

\* What such a Job starts is a retry, and one that comes anew is a later one.
LEMMA RestByWork ==
    ASSUME TypeOK, RestKnown, NEW p \in Pods, WorkStep(p)
    PROVE  RestKnown'
<1> USE DEF locals, cluster, services, history
<1>1. SUFFICES ASSUME NoneSeen', NEW j \in Jobs \ (before' \cup unreported' \cup later')
               PROVE  /\ job'[j] = "absent" \/ status'[j] # "none"
                      /\ pod'[j] = "active" => j \in replaced'
  BY DEF RestKnown
<1>2. phase \in {"PROBING", "VERIFIED"} /\ NoneSeen
  BY <1>1, WorkStepKeeps DEF NoneSeen
<1>3. CASE j # p
  <2>1. j \notin before \cup unreported \cup later
    BY <1>1, <1>3, WorkStepKeeps
  <2>2. /\ job[j] = "absent" \/ status[j] # "none"
        /\ pod[j] = "active" => j \in replaced
    BY <1>2, <2>1 DEF RestKnown
  <2>3. QED BY <1>3, <2>2, WorkStepKeeps
<1>4. CASE j = p /\ CollectJob(p)
  BY <1>4 DEF CollectJob, TypeOK
<1>5. CASE j = p /\ ~CollectJob(p)
  <2>1. j \notin before \cup unreported \cup later
    BY <1>1, <1>5, WorkStepKeeps
  <2>2. /\ job[p] = "absent" \/ status[p] # "none"
        /\ pod[p] = "active" => p \in replaced
    BY <1>2, <1>5, <2>1 DEF RestKnown
  <2>3. ~DeletePod(p) /\ ~DeleteJob(p)
    BY <1>2 DEF DeletePod, DeleteJob, TypeOK, PCs, Phases, TerminalStates
  <2>4. ~SpawnJob(p)
    BY <1>1, <1>2, <1>5 DEF SpawnJob
  <2>5. CASE StartPod(p)
    BY <1>2, <1>5, <2>2, <2>5 DEF StartPod
  <2>6. CASE EndPod(p) /\ UNCHANGED history
    BY <1>5, <2>2, <2>6 DEF EndPod, TypeOK
  <2>7. CASE CollectPod(p)
    BY <1>5, <2>2, <2>7 DEF CollectPod, TypeOK
  <2>8. CASE ReportStatus(p) /\ UNCHANGED history
    BY <1>5, <2>2, <2>8 DEF ReportStatus, TypeOK
  <2>9. QED BY <1>5, <2>3, <2>4, <2>5, <2>6, <2>7, <2>8 DEF WorkStep
<1>6. QED BY <1>3, <1>4, <1>5

LEMMA OverlookedStep ==
    ASSUME TypeOK, ResultsInv, OverlookedInv, [Next]_vars
    PROVE  OverlookedInv'
<1>1. CASE UNCHANGED <<phase, results, pc, found, verdict, job, pod, status, before,
                       unreported, later, replaced>>
  BY <1>1 DEF OverlookedInv, AtItsProbe, LateAreChildren, PodsListed, RestKnown,
              Listed, NoneSeen, Old, Fresh
<1>2. CASE UNCHANGED vars \/ OtherClusterStep
  BY <1>1, <1>2 DEF vars, OtherClusterStep, LearnSuspension, EnforcePolicy, locals,
                    cluster, services, history
<1>3. CASE ThreadStep /\ Next
  BY <1>3, AtItsProbeStep, LateByThread, PodsByThread, RestByThread
     DEF OverlookedInv
<1>4. ASSUME NEW p \in Pods, WorkStep(p), Next PROVE OverlookedInv'
  BY <1>4, AtItsProbeStep, LateByWork, PodsByWork, RestByWork DEF OverlookedInv
<1>5. QED BY <1>2, <1>3, <1>4, Steps

LEMMA OverlookedInit == Init => OverlookedInv
<1> SUFFICES ASSUME Init PROVE OverlookedInv
  OBVIOUS
<1>1. phase = "REQUESTED"
  BY DEF Init
<1>2. QED BY <1>1 DEF OverlookedInv, AtItsProbe, LateAreChildren, PodsListed,
                      RestKnown, Listed, NoneSeen

\* NothingElseOverlooked: a Pod that runs on behind VERIFIED belongs to a Job
\* that was created after the delegation probe, or whose controller had not
\* reported when it looked, or is a retry or a bare Pod that started after the
\* process probe looked; however late stop_process was for it.
THEOREM OnlyLateOrUnreported == Spec => []NothingElseOverlooked
<1>1. TypeOK /\ ResultsInv /\ StopInv /\ OverlookedInv => NothingElseOverlooked
  <2> SUFFICES ASSUME TypeOK, ResultsInv, StopInv, OverlookedInv, phase = "VERIFIED",
                      NEW p \in Pods, pod[p] = "active"
               PROVE  p \in unreported \cup later \cup replaced
    BY DEF NothingElseOverlooked
  <2>1. results["process"] = "PASS" /\ results["delegation"] = "PASS"
    BY DEF ResultsInv, Kinds
  <2>2. CASE p \in Jobs
    <3>1. p \notin before
      BY <2>1, <2>2 DEF StopInv, StillActive
    <3>2. QED BY <2>1, <2>2, <3>1 DEF OverlookedInv, RestKnown, NoneSeen
  <2>3. CASE p \notin Jobs
    BY <2>1, <2>3 DEF OverlookedInv, PodsListed, Old, Fresh
  <2>4. QED BY <2>2, <2>3
<1>2. OverlookedInv /\ TypeOK /\ ResultsInv /\ [Next]_vars => OverlookedInv'
  BY OverlookedStep
<1>3. Spec => []OverlookedInv
  BY <1>2, OverlookedInit, StopInvariant, PTL DEF Spec
<1>4. QED BY <1>1, <1>3, StopInvariant, PTL

-----------------------------------------------------------------------------
(* What is verified is closed                                              *)

\* What the two answers say when the result is PASS.
LEMMA PassIsRefusedTwice ==
    ASSUME NEW k \in Services, NEW a \in Answers, NEW b \in Answers,
           ServiceResult(k, a, b) = "PASS"
    PROVE  Refuses(FirstBoundary[k], a) /\ Refuses(SecondBoundary[k], b)
<1>1. CASE k = "kafka"
  BY <1>1 DEF ServiceResult, KafkaResult, Refuses, FirstBoundary, SecondBoundary
<1>2. CASE k = "credential"
  BY <1>2 DEF ServiceResult, CredentialResult, Active, Refuses, FirstBoundary,
              SecondBoundary
<1>3. CASE k = "network"
  BY <1>3 DEF ServiceResult, EgressResult, Allowed, Refuses, FirstBoundary,
              SecondBoundary
<1>4. QED BY <1>1, <1>2, <1>3 DEF Services

\* A boundary that no refusal but that of an invalid token leaves open.
Closed(b) == b \in authority => b \in misread

\* How a refusal passes from the two answers over the verdict to the row.
ClosedInv ==
    /\ \A k \in Services :
        /\ results[k] = "PASS" =>
              Closed(FirstBoundary[k]) /\ Closed(SecondBoundary[k])
        /\ Probing(k) /\ pc = "AskSecond" /\ Refuses(FirstBoundary[k], first) =>
              Closed(FirstBoundary[k])
        /\ Probing(k) /\ pc = "Save" /\ verdict = "PASS" =>
              Closed(FirstBoundary[k]) /\ Closed(SecondBoundary[k])
    /\ phase = "PROBING" /\ pc \in {"PodsRun", "PodsChildren", "ChildJobs",
                                   "ChildCronJobs", "Judge"} =>
          None \in {results["process"], results["delegation"]}

LEMMA AnswerCloses ==
    ASSUME NEW k, NEW b, NEW answer, Answer(k, b, answer)
    PROVE  /\ authority' \subseteq authority /\ misread \subseteq misread'
           /\ Refuses(b, answer) => Closed(b)'
BY DEF Answer, Closed

LEMMA OneProbe ==
    ASSUME NEW k \in Services, Probing(k)
    PROVE  /\ results["process"] # None /\ results["delegation"] # None
           /\ \A i \in Kinds : Probing(i) => i = k
BY DEF Probing, Earlier, Services, Kinds

\* Boundaries only close, and only answers are misread.
LEMMA ClosedStable ==
    ASSUME ClosedInv, authority' \subseteq authority, misread \subseteq misread',
           UNCHANGED results,
           phase' = "PROBING" => phase = "PROBING",
           phase' = "PROBING" /\ pc' = "AskSecond" =>
              pc = "AskSecond" /\ first' = first,
           phase' = "PROBING" /\ pc' = "Save" /\ verdict' = "PASS" =>
              pc = "Save" /\ verdict = "PASS",
           phase' = "PROBING" /\ pc' \in {"PodsRun", "PodsChildren", "ChildJobs",
                                          "ChildCronJobs", "Judge"} =>
              None \in {results["process"], results["delegation"]}
    PROVE  ClosedInv'
<1>1. \A b : Closed(b) => Closed(b)' BY DEF Closed
<1>2. \A k \in Services : Probing(k)' => Probing(k) /\ phase' = "PROBING"
  BY DEF Probing, Services
<1>3. QED BY <1>1, <1>2 DEF ClosedInv

LEMMA ClosedStep ==
    ASSUME TypeOK, ResultsInv, ClosedInv, Next
    PROVE  ClosedInv'
<1> USE DEF locals, cluster, services, history
<1>1. ASSUME NEW l \in Labels, CreatePolicy(l) PROVE ClosedInv'
  <2>1. phase = "REQUESTED" /\ phase' = phase
    BY <1>1 DEF CreatePolicy, PolicyCall, Labels, Proceed, TypeOK, PCs, Phases,
                TerminalStates
  <2>2. UNCHANGED <<results, authority>> /\ misread \subseteq misread'
    BY <1>1 DEF CreatePolicy, Proceed
  <2>3. QED BY <2>1, <2>2, ClosedStable
<1>2. ASSUME UNCHANGED <<results, authority, misread>>, phase' # "PROBING"
      PROVE  ClosedInv'
  BY <1>2, ClosedStable
<1>3. ASSUME UNCHANGED <<phase, pc, results, first, verdict, authority, misread>>
      PROVE  ClosedInv'
  <2>1. phase = "PROBING" /\ pc \in {"PodsRun", "PodsChildren", "ChildJobs",
                                    "ChildCronJobs", "Judge"} =>
          None \in {results["process"], results["delegation"]}
    BY DEF ClosedInv
  <2>2. QED BY <1>3, <2>1, ClosedStable
<1>4. ASSUME NEW c \in CronJobs, SuspendCronJob(c) PROVE ClosedInv'
  BY <1>3, <1>4 DEF SuspendCronJob
<1>5. ASSUME NEW s \in DOMAIN FenceCall, FenceService(s) PROVE ClosedInv'
  <2>1. phase = "REQUESTED"
    BY <1>5 DEF FenceService, FenceCall, TypeOK, PCs, Phases, TerminalStates
  <2>2. QED BY <1>2, <1>5, <2>1 DEF FenceService, Proceed, Abort
<1>6. ASSUME NEW j \in Pods,
             \/ DeletePod(j) \/ StartPod(j)
             \/ j \in Jobs /\ (DeleteJob(j) \/ SpawnJob(j) \/ CollectJob(j))
      PROVE  ClosedInv'
  BY <1>3, <1>6 DEF DeletePod, DeleteJob, SpawnJob, StartPod, CollectJob
<1>7. CASE ClusterStep
  BY <1>3, <1>7 DEF ClusterStep
<1>8. CASE Commit
  <2>1. phase \in Phases \ {"PROBING"} /\ pc' = FirstCall[phase']
        /\ UNCHANGED <<results, first, verdict, authority, misread>>
    BY <1>8 DEF Commit, TypeOK, PCs, Phases, TerminalStates
  <2>2. CASE phase' # "PROBING" BY <1>2, <2>1, <2>2
  <2>3. CASE phase' = "PROBING"
    <3>1. pc' = "NextProbe" BY <2>1, <2>3 DEF FirstCall
    <3>2. \A k \in Services : results'[k] # "PASS"
      BY <2>1, WorkloadAssumption DEF ResultsInv, Kinds, ProbeResults
    <3>3. QED BY <3>1, <3>2 DEF ClosedInv
  <2>4. QED BY <2>2, <2>3
<1>9. CASE Conclude
  <2>1. phase' # "PROBING"
    BY <1>9, Verdicts DEF Conclude, TerminalStates
  <2>2. QED BY <1>2, <1>9, <2>1 DEF Conclude
<1>10. CASE (\E resource \in DOMAIN ListCall, l \in Labels : List(resource, l))
             \/ AllHandled \/ ListChildJobs \/ ListChildCronJobs
  <2>1. pc' = NextCall[pc] /\ UNCHANGED <<phase, results, authority, misread>>
    BY <1>10 DEF List, AllHandled, ListChildJobs, ListChildCronJobs, Proceed
  <2>2. CASE phase # "PROBING" BY <1>2, <2>1, <2>2
  <2>3. CASE phase = "PROBING"
    <3>1. pc \in {"PodsRun", "PodsChildren", "ChildJobs", "ChildCronJobs"}
      <4>1. pc \in PCs("PROBING") BY <2>3 DEF TypeOK
      <4>2. ASSUME NEW resource \in DOMAIN ListCall, NEW l \in Labels,
                   List(resource, l)
            PROVE  pc \in {"CronJobsRun", "CronJobsChildren", "PodsRun",
                           "PodsChildren", "JobsRun", "JobsChildren"}
        BY <4>2 DEF List, ListCall, Labels
      <4>3. CASE AllHandled BY <4>1, <4>3 DEF AllHandled, Handled, PCs
      <4>4. CASE ListChildJobs \/ ListChildCronJobs
        BY <4>4 DEF ListChildJobs, ListChildCronJobs
      <4>5. QED BY <1>10, <4>1, <4>2, <4>3, <4>4 DEF PCs
    <3>2. None \in {results["process"], results["delegation"]}
      BY <2>3, <3>1 DEF ClosedInv
    <3>3. pc' \notin {"AskSecond", "Save"}
      BY <2>1, <3>1 DEF NextCall
    <3>4. QED BY <2>1, <2>3, <3>2, <3>3, ClosedStable
  <2>4. QED BY <2>2, <2>3
<1>11. CASE Judge
  <2>1. phase = "PROBING" /\ pc = "Judge" /\ pc' = "Save"
        /\ UNCHANGED <<phase, results, authority, misread>>
    BY <1>11 DEF Judge, Observe, TypeOK, PCs, Phases, TerminalStates
  <2>2. None \in {results["process"], results["delegation"]}
    BY <2>1 DEF ClosedInv
  <2>3. \A k \in Services : ~Probing(k)'
    BY <2>1, <2>2, OneProbe DEF Probing, Earlier, Services
  <2>4. QED BY <2>1, <2>3 DEF ClosedInv, Closed
<1>12. ASSUME NEW k \in Kinds, StartProbe(k) PROVE ClosedInv'
  <2>1. /\ Probing(k) /\ phase = "PROBING"
        /\ UNCHANGED <<phase, results, authority, misread>>
        /\ pc' = "Save" => verdict' = "UNKNOWN"
        /\ pc' \in {"PodsRun", "ChildJobs", "AskFirst", "Save"}
        /\ pc' \in {"PodsRun", "ChildJobs"} => k \in {"process", "delegation"}
    BY <1>12 DEF StartProbe, Observe, Probing, ProbeCall, Kinds, Services
  <2>2. k \in {"process", "delegation"} =>
            None \in {results["process"], results["delegation"]}
    BY <2>1 DEF Probing
  <2>3. QED BY <2>1, <2>2, ClosedStable
<1>13. ASSUME NEW k \in Services, AskFirst(k) PROVE ClosedInv'
  <2>1. PICK answer \in Answers : Answer(k, FirstBoundary[k], answer) /\ first' = answer
    BY <1>13 DEF AskFirst
  <2>2. /\ authority' \subseteq authority /\ misread \subseteq misread'
        /\ Refuses(FirstBoundary[k], answer) => Closed(FirstBoundary[k])'
    BY <2>1, AnswerCloses
  <2>3. phase = "PROBING" /\ Probing(k) /\ pc' = "AskSecond"
        /\ UNCHANGED <<phase, results>>
    BY <1>13 DEF AskFirst, Probing
  <2>4. \A i \in Services : Probing(i)' => i = k
    BY <2>3, OneProbe DEF Probing, Kinds
  <2>5. \A b : Closed(b) => Closed(b)' BY <2>2 DEF Closed
  <2>6. QED BY <2>1, <2>2, <2>3, <2>4, <2>5 DEF ClosedInv
<1>14. ASSUME NEW k \in Services, AskSecond(k) PROVE ClosedInv'
  <2>1. PICK answer \in Answers : /\ Answer(k, SecondBoundary[k], answer)
                                 /\ Observe(ServiceResult(k, first, answer))
    BY <1>14 DEF AskSecond
  <2>2. /\ authority' \subseteq authority /\ misread \subseteq misread'
        /\ Refuses(SecondBoundary[k], answer) => Closed(SecondBoundary[k])'
    BY <2>1, AnswerCloses
  <2>3. phase = "PROBING" /\ Probing(k) /\ pc = "AskSecond" /\ pc' = "Save"
        /\ UNCHANGED <<phase, results>> /\ verdict' = ServiceResult(k, first, answer)
    BY <1>14, <2>1 DEF AskSecond, Probing, Observe
  <2>4. \A i \in Services : Probing(i)' => i = k
    BY <2>3, OneProbe DEF Probing, Kinds
  <2>5. \A b : Closed(b) => Closed(b)' BY <2>2 DEF Closed
  <2>6. first \in Answers BY <2>3 DEF TypeOK
  <2>7. ASSUME verdict' = "PASS"
        PROVE  Closed(FirstBoundary[k])' /\ Closed(SecondBoundary[k])'
    <3>1. Refuses(FirstBoundary[k], first) /\ Refuses(SecondBoundary[k], answer)
      BY <2>3, <2>6, <2>7, PassIsRefusedTwice
    <3>2. Closed(FirstBoundary[k]) BY <2>3, <3>1 DEF ClosedInv
    <3>3. QED BY <2>2, <2>5, <3>1, <3>2
  <2>8. QED BY <2>3, <2>4, <2>5, <2>7 DEF ClosedInv
<1>15. ASSUME NEW k \in Kinds, SaveProbe(k) PROVE ClosedInv'
  <2>1. /\ phase = "PROBING" /\ Probing(k) /\ pc = "Save" /\ pc' = "NextProbe"
        /\ UNCHANGED <<phase, authority, misread>>
        /\ results' = [results EXCEPT ![k] = verdict]
    BY <1>15 DEF SaveProbe, Probing
  <2>2. \A b : Closed(b) = Closed(b)' BY <2>1 DEF Closed
  <2>3. ASSUME NEW i \in Services, results'[i] = "PASS"
        PROVE  Closed(FirstBoundary[i]) /\ Closed(SecondBoundary[i])
    <3>1. CASE i = k
      <4>1. verdict = "PASS" BY <2>1, <2>3, <3>1 DEF TypeOK, Kinds
      <4>2. QED BY <2>1, <2>3, <3>1, <4>1 DEF ClosedInv
    <3>2. CASE i # k
      <4>1. results[i] = "PASS" BY <2>1, <2>3, <3>2 DEF TypeOK, Kinds
      <4>2. QED BY <2>3, <4>1 DEF ClosedInv
    <3>3. QED BY <3>1, <3>2
  <2>4. QED BY <2>1, <2>2, <2>3 DEF ClosedInv
<1>16. CASE CallFails
  <2>1. UNCHANGED <<results, authority, misread>>
        /\ \/ phase = "PROBING" /\ phase' = phase /\ pc' = "Save"
              /\ verdict' = "UNKNOWN"
           \/ phase' = "FAILED"
    BY <1>16 DEF CallFails, Observe, Abort
  <2>2. CASE phase' = "FAILED" BY <1>2, <2>1, <2>2
  <2>3. CASE phase' # "FAILED" BY <2>1, <2>3, ClosedStable
  <2>4. QED BY <2>2, <2>3
<1>17. CASE CrashRestart
  <2>1. /\ UNCHANGED <<phase, results, authority, misread>>
        /\ phase = "PROBING" => pc' = "NextProbe"
    BY <1>17 DEF CrashRestart, FirstCall
  <2>2. QED BY <2>1, ClosedStable
<1>18. QED BY <1>1, <1>4, <1>5, <1>6, <1>7, <1>8, <1>9, <1>10, <1>11, <1>12,
              <1>13, <1>14, <1>15, <1>16, <1>17 DEF Next, AdapterStep

\* VerifiedIsClosed: no interleaving of answers, fences and restarts leaves a
\* boundary open behind a VERIFIED shutdown, for any of the three services, unless
\* it refused the configured token and that was taken for a denial of the agent.
THEOREM VerifiedClosed == Spec => []VerifiedIsClosed
<1>1. Init => ClosedInv
  <2>1. ASSUME Init PROVE ClosedInv
    BY <2>1, WorkloadAssumption DEF Init, ClosedInv, Kinds, ProbeResults, Probing
  <2>2. QED BY <2>1
<1>2. TypeOK /\ ResultsInv /\ ClosedInv /\ [Next]_vars => ClosedInv'
  <2>1. ASSUME ClosedInv, UNCHANGED vars PROVE ClosedInv'
    <3>1. UNCHANGED <<phase, pc, results, first, verdict, authority, misread>>
      BY <2>1 DEF vars, locals, services, history
    <3>2. QED BY <2>1, <3>1 DEF ClosedInv, Closed, Probing
  <2>2. QED BY <2>1, ClosedStep
<1>3. TypeOK /\ ResultsInv /\ ClosedInv => VerifiedIsClosed
  <2>1. ASSUME TypeOK, ResultsInv, ClosedInv, phase = "VERIFIED",
               NEW b \in authority
        PROVE  b \in misread
    <3>1. PICK k \in Services : b = FirstBoundary[k] \/ b = SecondBoundary[k]
      BY <2>1 DEF TypeOK, Boundaries
    <3>2. results[k] = "PASS" BY <2>1 DEF ResultsInv, Kinds
    <3>3. QED BY <2>1, <3>1, <3>2 DEF ClosedInv, Closed
  <2>2. QED BY <2>1 DEF VerifiedIsClosed
<1>4. QED BY <1>1, <1>2, <1>3, StopInvariant, PTL DEF Spec

=============================================================================
