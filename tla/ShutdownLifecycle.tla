------------------------- MODULE ShutdownLifecycle -------------------------
(***************************************************************************)
(* What a shutdown promises its requester: one walk through the phases,    *)
(* each boundary observed once, and a terminal state that is the verdict   *)
(* on those observations, UNKNOWN for a shutdown that ran out of time, or  *)
(* FAILED for one that broke. ShutdownOrchestrator implements it as long   *)
(* as a worker never outlives its lease and no transaction raises.         *)
(***************************************************************************)
EXTENDS ShutdownDomain

CONSTANTS
    Runs,
    PROBE_KINDS,
    None

Kinds == {PROBE_KINDS[i] : i \in DOMAIN PROBE_KINDS}

VARIABLES
    state,    \* the state of each run
    observed  \* the result of each boundary of each run, None before it

vars == <<state, observed>>

Init ==
    /\ state = [r \in Runs |-> "RUNNING"]
    /\ observed = [r \in Runs |-> [k \in Kinds |-> None]]

MoveTo(r, s) == state' = [state EXCEPT ![r] = s] /\ UNCHANGED observed

Request(r) == state[r] = "RUNNING" /\ MoveTo(r, "REQUESTED")

Advance(r) == state[r] \in DOMAIN NextPhase /\ MoveTo(r, NextPhase[state[r]])

Observe(r, k, result) ==
    /\ state[r] = "PROBING"
    /\ observed[r][k] = None
    /\ observed' = [observed EXCEPT ![r][k] = result]
    /\ UNCHANGED state

Conclude(r) ==
    /\ state[r] = "PROBING"
    /\ \A k \in Kinds : observed[r][k] # None
    /\ MoveTo(r, AggregateProbeResults({observed[r][k] : k \in Kinds}))

GiveUp(r) == state[r] \in Phases /\ MoveTo(r, "UNKNOWN")

Break(r) == state[r] \in Phases /\ MoveTo(r, "FAILED")

Next == \E r \in Runs :
    \/ Request(r) \/ Advance(r) \/ Conclude(r) \/ GiveUp(r) \/ Break(r)
    \/ \E k \in Kinds, result \in ProbeResults : Observe(r, k, result)

Spec == Init /\ [][Next]_vars

=============================================================================
