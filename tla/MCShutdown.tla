----------------------------- MODULE MCShutdown -----------------------------
(* ShutdownOrchestrator on small sets: two probe kinds, in a fixed order.   *)
EXTENDS ShutdownOrchestrator, TLC

CONSTANTS process, kafka

OneKind == <<process>>
TwoKinds == <<process, kafka>>

Slots == Permutations(Workers)

\* No action reads the ledger: a run whose properties do not mention it may
\* identify the states that differ in nothing else.
ExceptLedger == <<key, state, late, work, rows, effects, thread, batch,
                  environment>>

=============================================================================
