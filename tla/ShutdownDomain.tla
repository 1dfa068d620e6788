--------------------------- MODULE ShutdownDomain ---------------------------
(***************************************************************************)
(* The vocabulary of asv/domain.py: the states a run goes through, the     *)
(* results a probe may return, and the rule that turns the results of one  *)
(* shutdown into its terminal state.                                       *)
(***************************************************************************)

TerminalStates == {"VERIFIED", "PARTIAL", "UNKNOWN", "FAILED"}

\* The phases _orchestrate walks through, in the order it commits them.
Phases == {"REQUESTED", "FENCING", "PROCESS_STOP_SENT", "CHILD_DISCOVERY",
           "PROBING"}

ShutdownStates == {"RUNNING"} \cup Phases \cup TerminalStates

\* Mutant: discovery is skipped.
NextPhaseUndiscovered ==
    [REQUESTED |-> "FENCING", FENCING |-> "CHILD_DISCOVERY",
     PROCESS_STOP_SENT |-> "CHILD_DISCOVERY", CHILD_DISCOVERY |-> "PROBING"]

\* The successor _orchestrate commits after each phase it works through.
NextPhase == [REQUESTED |-> "FENCING", FENCING |-> "PROCESS_STOP_SENT",
              PROCESS_STOP_SENT |-> "CHILD_DISCOVERY",
              CHILD_DISCOVERY |-> "PROBING"]

ProbeResults == {"PASS", "FAIL", "PARTIAL", "UNKNOWN"}

\* Mutant: missing telemetry does not count.
AggregateWithoutUnknown(results) ==
    IF "FAIL" \in results THEN "FAILED"
    ELSE IF "PARTIAL" \in results THEN "PARTIAL" ELSE "VERIFIED"

\* aggregate_probe_results asks only whether a result occurs in its list, so
\* the list is the set of the results in it.
AggregateProbeResults(results) ==
    CASE results = {}           -> "UNKNOWN"
      [] "FAIL" \in results     -> "FAILED"
      [] results # {} /\ "FAIL" \notin results /\ "UNKNOWN" \in results
                                -> "UNKNOWN"
      [] results # {} /\ results \cap {"FAIL", "UNKNOWN"} = {}
           /\ "PARTIAL" \in results
                                -> "PARTIAL"
      [] OTHER                  -> "VERIFIED"

=============================================================================
