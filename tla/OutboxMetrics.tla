---------------------------- MODULE OutboxMetrics ----------------------------
(***************************************************************************)
(* What GET /metrics says of the outbox (asv/metrics.py): every value is   *)
(* computed from the rows at the time of the scrape, so a counter is only  *)
(* as monotonic as the column it sums.                                     *)
(***************************************************************************)
EXTENDS Outbox

\* Every attempt that the rows count, by its event and number.
Attempts == UNION {{e} \X (1 .. row[e].attempts) : e \in Events}

\* SUM(attempts)
asv_siem_delivery_attempts_total == Cardinality(Attempts)

\* docs/metrics.md: "Metrics with the `_total` suffix remain monotonic while
\* those records are retained": across requeues, which start a new retry cycle,
\* and failures, whose new value comes from the row as an older SELECT saw it,
\* the counter goes up, and by one send at a time.
AttemptsMonotonic ==
    [][asv_siem_delivery_attempts_total' - asv_siem_delivery_attempts_total
          \in 0 .. 1]_vars

=============================================================================
