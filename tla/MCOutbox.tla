------------------------------ MODULE MCOutbox ------------------------------
(* Outbox for a few events, attempts and requeues.                          *)
EXTENDS OutboxMetrics, TLC

=============================================================================
