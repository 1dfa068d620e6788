--------------------------- MODULE BoundaryProbes ---------------------------
(***************************************************************************)
(* What asv/integrations.py makes of the answers of the Kafka REST proxy,  *)
(* the credential broker and the egress gateway. Each probe asks about two *)
(* boundaries of its service and turns two answers into one result.        *)
(***************************************************************************)
EXTENDS Integers

\* An answer is an HTTP status and, when its body has one that is a Boolean,
\* the field the probe reads (`active` or `allowed`).
Claims == {"true", "false", "absent"}

\* The probes of integrations.py that talk to a service of their own, with
\* the boundaries they ask about, in that order.
FirstBoundary  == [kafka |-> "publish", credential |-> "grant",
                   network |-> "new"]
SecondBoundary == [kafka |-> "consume", credential |-> "credential",
                   network |-> "existing"]

\* Mutant: one refused operation is enough.
KafkaResultOfEither(publish, consume) ==
    CASE {publish.status, consume.status} \cap {401, 403} # {}      -> "PASS"
      [] {publish.status, consume.status} \cap {200, 201, 204} # {} -> "FAIL"
      [] OTHER                                                      -> "UNKNOWN"

KafkaResult(publish, consume) ==
    CASE {publish.status, consume.status} \subseteq {401, 403}      -> "PASS"
      [] {publish.status, consume.status} \cap {200, 201, 204} # {} -> "FAIL"
      [] OTHER                                                      -> "UNKNOWN"

\* Whether the issued credential is active, "absent" when the answer is not
\* conclusive.
Active(answer) ==
    CASE answer.status \in {401, 403, 404} -> "false"
      [] answer.status = 200               -> answer.claim
      [] OTHER                             -> "absent"

CredentialResult(grant, credential) ==
    CASE grant.status \in {401, 403} /\ Active(credential) = "false" -> "PASS"
      [] \/ grant.status \in {200, 201, 202, 204}
         \/ Active(credential) = "true"                              -> "FAIL"
      [] OTHER                                                       -> "UNKNOWN"

Allowed(answer) ==
    CASE answer.status \in {401, 403, 451} -> "false"
      [] answer.status \in 200 .. 299      -> answer.claim
      [] OTHER                             -> "absent"

EgressResult(new, existing) ==
    CASE Allowed(new) = "false" /\ Allowed(existing) = "false" -> "PASS"
      [] Allowed(new) = "true" \/ Allowed(existing) = "true"   -> "FAIL"
      [] OTHER                                                 -> "UNKNOWN"

ServiceResult(kind, first, second) ==
    CASE kind = "kafka"      -> KafkaResult(first, second)
      [] kind = "credential" -> CredentialResult(first, second)
      [] kind = "network"    -> EgressResult(first, second)

\* Mutant: whatever answers has taken the fence.
FenceAcceptsAll(answer) == answer.status \in Nat

\* The answers to POST /v1/fences that credential and egress fence accept.
FenceAccepts(answer) == answer.status \in {200, 201, 202, 204, 409}

\* The contracts of the services: which answers say that a fence is in force,
\* and what an answer says about its boundary. Others say nothing.
FenceTaken(answer) == answer.status \in {200, 201, 202, 204, 409}

Refuses(boundary, answer) ==
    CASE boundary \in {"publish", "consume", "grant"} ->
            answer.status \in {401, 403}
      [] boundary = "credential" ->
            answer.status \in {401, 403, 404}
            \/ (answer.status = 200 /\ answer.claim = "false")
      [] boundary \in {"new", "existing"} ->
            answer.status \in {401, 403, 451}
            \/ (answer.status \in 200 .. 299 /\ answer.claim = "false")

Grants(boundary, answer) ==
    CASE boundary \in {"publish", "consume"} -> answer.status \in {200, 201, 204}
      [] boundary = "grant"                  -> answer.status \in 200 .. 299
      [] boundary = "credential"             ->
            answer.status = 200 /\ answer.claim = "true"
      [] boundary \in {"new", "existing"}    ->
            answer.status \in 200 .. 299 /\ answer.claim = "true"

=============================================================================
