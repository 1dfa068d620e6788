------------------------------ MODULE MCDrill ------------------------------
(* Drills and people for TLC.                                              *)
EXTENDS DrillApproval, TLC

=============================================================================
