----------------------------- MODULE MCEvidence -----------------------------
(* Request threads for TLC.                                                *)
EXTENDS RunEvidence, TLC

\* Nothing tells two reporters, two responders, or two workers apart.
Symmetry == Permutations(Reporters) \cup Permutations(Responders)
                \cup Permutations(Workers)

=============================================================================
