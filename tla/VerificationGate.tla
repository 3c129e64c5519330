-------------------------- MODULE VerificationGate --------------------------
(***************************************************************************)
(* The gate that certifies the providers for benchmark runs: it lists the  *)
(* models, calls each required capability for real, in groups that run in  *)
(* parallel, with retries, and turns what is not proven into blockers.     *)
(*                                                                         *)
(* A response is [status, body, phase]: body says that it carries what the *)
(* probe looks for (an id, a thinking block, content), phase that the      *)
(* error is about the phase field.                                         *)
(***************************************************************************)
EXTENDS Naturals, FiniteSets, Sequences

CONSTANTS
  Probed,      \* the probes of this instance, among those of the code
  MaxRetries   \* retries of a request, 3 in the code

VARIABLES
  keys,      \* providers whose key is set
  group,     \* the group under way: 0 lists the models, 4 is the end
  probes,    \* per probe: [turn, attempt, outcome, answers]
  verdict    \* "none", "pass", "blocked", "threw"

gateVars == <<keys, group, probes, verdict>>

OpenAi == {"openai.models", "openai.effort", "openai.allowed_tools", "openai.phase",
           "openai.parallel", "openai.previous_response"}
Anthropic == {"anthropic.models", "anthropic.effort", "anthropic.parallel",
              "anthropic.multi_tool_result", "anthropic.thinking", "anthropic.signature",
              "beta.context_management", "beta.compact"}
Beta == {"beta.context_management", "beta.compact"}
Models == {"openai.models", "anthropic.models"}
TwoTurns == {"openai.previous_response", "anthropic.signature"}
Required == (OpenAi \cup Anthropic) \ Beta

ASSUME GateAssumption == Probed \subseteq OpenAi \cup Anthropic /\ MaxRetries \in Nat

KeyOf(p) == IF p \in OpenAi THEN "openai" ELSE "anthropic"
\* Models one after the other, the independent probes together, the two-turn
\* ones and adaptive thinking one after the other, the beta headers together.
GroupOf(p) ==
  CASE p \in Models -> 0 [] p \in Beta -> 3
    [] p \in TwoTurns \cup {"anthropic.thinking"} -> 2 [] OTHER -> 1
OneByOne == {0, 2}

Responses ==
  [status : {200}, body : BOOLEAN, phase : {FALSE}]
    \cup [status : {400}, body : {FALSE}, phase : BOOLEAN]
    \cup [status : {401, 429}, body : {FALSE}, phase : {FALSE}]
Retryable(r) == r.status = 429

GateInit ==
  /\ keys \in SUBSET {"openai", "anthropic"}
  /\ group = 0
  /\ probes = [p \in Probed |-> [turn |-> 1, attempt |-> 0, outcome |-> "none", answers |-> <<>>]]
  /\ verdict = "none"
----------------------------------------------------------------------------
(* What each probe takes for a proof. *)

Succeeds(r) == r.status = 200
EffortHigh(r) == Succeeds(r) /\ r.body
AdaptiveThinking(r) == Succeeds(r) /\ r.body
\* The first turn must give something to go on from.
PreviousResponse(turn, r) == Succeeds(r) /\ (turn = 1 => r.body)
SignatureRoundtrip(turn, r) == Succeeds(r) /\ (turn = 1 => r.body)
\* Anything but a 400 about the field is taken for acceptance of the field.
PhaseMetadata(r) == r.status # 400 \/ ~r.phase

Proves(p, turn, r) ==
  CASE p = "openai.effort" -> EffortHigh(r)
    [] p = "anthropic.thinking" -> AdaptiveThinking(r)
    [] p = "openai.previous_response" -> PreviousResponse(turn, r)
    [] p = "anthropic.signature" -> SignatureRoundtrip(turn, r)
    [] p = "openai.phase" -> PhaseMetadata(r)
    [] OTHER -> Succeeds(r)

UnderWay(p) == probes[p].outcome = "none" /\ (probes[p].attempt > 0 \/ probes[p].turn = 2)
Runs(p) ==
  /\ verdict = "none" /\ GroupOf(p) = group /\ probes[p].outcome = "none"
  /\ group \in OneByOne => \A q \in Probed \ {p} : ~UnderWay(q)
Note(p, r) == probes' = [probes EXCEPT ![p] = r]

\* No key: a list of models is "unavailable", a probe "untested".
NoKey(p) ==
  /\ Runs(p) /\ KeyOf(p) \notin keys
  /\ Note(p, [probes[p] EXCEPT !.outcome = IF p \in Models THEN "unavailable" ELSE "untested"])
  /\ UNCHANGED <<keys, group, verdict>>

\* postJson answers with the last response once its retries are used up.
MayRetry(p) == p \notin Models /\ probes[p].attempt < MaxRetries
Retry(p) == Note(p, [probes[p] EXCEPT !.attempt = @ + 1])

Respond(p) ==
  /\ Runs(p) /\ KeyOf(p) \in keys
  /\ \E r \in Responses :
       LET seen == [probes[p] EXCEPT !.answers = Append(@, r.status), !.attempt = 0] IN
       IF Retryable(r) /\ MayRetry(p) THEN Retry(p)
       ELSE Note(p, IF ~Proves(p, seen.turn, r) THEN [seen EXCEPT !.outcome = "unavailable"]
                      ELSE IF p \in TwoTurns /\ seen.turn = 1 THEN [seen EXCEPT !.turn = 2]
                      ELSE [seen EXCEPT !.outcome = "available"])
  /\ UNCHANGED <<keys, group, verdict>>

\* An error of the network or the timer of a request: retried, then thrown, and
\* the gate ends without an artifact.  A list of models is "unavailable".
Lost(p) ==
  /\ Runs(p) /\ KeyOf(p) \in keys
  /\ \/ MayRetry(p) /\ Retry(p) /\ UNCHANGED verdict
     \/ /\ p \in Models
        /\ Note(p, [probes[p] EXCEPT !.outcome = "unavailable"]) /\ UNCHANGED verdict
     \/ p \notin Models /\ ~MayRetry(p) /\ verdict' = "threw" /\ UNCHANGED probes
  /\ UNCHANGED <<keys, group>>

NextGroup ==
  /\ verdict = "none" /\ group < 4
  /\ \A p \in Probed : GroupOf(p) = group => probes[p].outcome # "none"
  /\ group' = group + 1
  /\ UNCHANGED <<keys, probes, verdict>>

\* Mutant: what could not be tried does not count.
Unavailable(p) == p \in Required /\ probes[p].outcome = "unavailable"
\* Required and not proven; a beta header is an advisory.
Blocks(p) == p \in Required /\ probes[p].outcome # "available"

Certify ==
  /\ verdict = "none" /\ group = 4
  /\ verdict' = IF \E p \in Probed : Blocks(p) THEN "blocked" ELSE "pass"
  /\ UNCHANGED <<keys, group, probes>>

GateNext ==
  \/ NextGroup \/ Certify
  \/ \E p \in Probed : NoKey(p) \/ Respond(p) \/ Lost(p)

GateSpec == GateInit /\ [][GateNext]_gateVars
----------------------------------------------------------------------------
Proven(p) ==
  /\ Len(probes[p].answers) = IF p \in TwoTurns THEN 2 ELSE 1
  /\ \A i \in DOMAIN probes[p].answers : probes[p].answers[i] = 200

\* "M0 cannot certify a capability it has not live-verified": a gate that passes
\* had a key for every required capability and a successful answer to every
\* call of its probe, through retries and lost requests.  openai.phase is left
\* out, which takes a 401 for a proof.
CertifiesProven ==
  verdict = "pass" => \A p \in (Probed \cap Required) \ {"openai.phase"} : Proven(p)

\* The same of every required capability: what the comment says.
CertifiesAll == verdict = "pass" => \A p \in Probed \cap Required : Proven(p)
=============================================================================
