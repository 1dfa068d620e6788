------------------------------ MODULE MCAdapter ------------------------------
(* One shutdown of an agent that runs in a bare Pod and delegates to a Job   *)
(* and a CronJob.                                                            *)
EXTENDS KubernetesKafkaAdapter

CONSTANTS agent, child, hourly

Workload == [run |-> {agent}, children |-> {child, hourly}]

\* One answer of each kind that some contract tells apart.
FewAnswers ==
    {[status |-> s, claim |-> "absent"] : s \in {401, 404, 409, 500}}
        \cup {[status |-> 200, claim |-> c] : c \in Claims}

\* The properties say no more of a shutdown that can no longer be VERIFIED.
MayVerify ==
    /\ phase \in Phases \cup {"VERIFIED"}
    /\ \A k \in Kinds : results[k] \in {"PASS", None}

\* A Job created late, a Pod started anew, a call that fails or is misread, a
\* restart: any two of them, or twice one of them where its own bound allows it.
AnyTwoEvents ==
    environment.spawns + environment.starts + environment.errors
        + environment.crashes <= 2

=============================================================================
