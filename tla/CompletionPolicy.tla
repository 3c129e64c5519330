-------------------------- MODULE CompletionPolicy --------------------------
(***************************************************************************)
(* What a validation says: routeValidation of                              *)
(* packages/runtime/src/validation/completion-policy.ts, which turns the   *)
(* validators' outcomes into the status of the task, and the readings of   *)
(* the same outcomes in packages/runtime/src/phase-engine.ts that steer    *)
(* recovery and the verifier.                                              *)
(*                                                                         *)
(* A validation is a set of validator runs.  Of a command only its class   *)
(* is kept, as the regular expressions of the source tell commands apart.  *)
(***************************************************************************)
EXTENDS Integers, FiniteSets

Statuses == {"success", "task_failure", "validation_unknown"}

\* "claimed": test -s of a file the task asks for; "weak": another existence
\* test, a syntax check or an import; "shallow": a reachability or compile
\* probe; "overfull": the warning probe of a task about that warning.
Commands == {"claimed", "weak", "shallow", "overfull", "real"}

\* "unable": the run failed because pytest itself is not installed.
Outcomes == {"pass", "fail", "unable", "crash", "noop"}

ValidatorRun ==
  [status : Outcomes, confidence : {"high", "medium", "low"},
   source : {"task", "repo", "minimal_safe_fallback"}, command : Commands,
   covers : BOOLEAN]  \* it checks what the task text requires

Failed(run) == run.status \in {"fail", "unable"}
AllPass(runs) == runs # {} /\ \A run \in runs : run.status = "pass"

Weak(run) == run.command \in {"claimed", "weak"}
Insufficient(run) == run.command # "real"
Fallback(run) == run.source = "minimal_safe_fallback"

(***************************************************************************)
(* routeValidation.  required: the task text names a semantic requirement. *)
(***************************************************************************)
Uncovered(runs, required) == required /\ \A run \in runs : ~run.covers

\* Passes that prove too little; each reason is about the whole set.
ProvesLittle(runs, required) ==
  \/ \A run \in runs : Fallback(run)
  \/ Uncovered(runs, required)
  \/ \A run \in runs : Insufficient(run)  \* onlyWeak is a case of it

Route(runs, required) ==
  IF \E run \in runs : Failed(run) THEN "task_failure"
  ELSE IF AllPass(runs) /\ ~ProvesLittle(runs, required) THEN "success"
  ELSE "validation_unknown"

(***************************************************************************)
(* classifyValidationActionability: is the failure the task's own?         *)
(***************************************************************************)
StrongFailure(run) ==
  /\ Failed(run)
  /\ \/ run.command = "overfull"
     \/ Fallback(run)
     \/ run.confidence = "high"
     \/ run.confidence = "medium" /\ ~Insufficient(run)

Actionability(runs) ==
  IF \E run \in runs : run.status \in {"crash", "unable"} THEN "validator_environment"
  ELSE IF \E run \in runs : Failed(run) /\ run.command = "claimed" THEN "required_artifact_missing"
  ELSE IF \E run \in runs : StrongFailure(run) THEN "strong_task_failure"
  ELSE "weak_or_semantic_unknown"

Actionable(runs) == Actionability(runs) \in {"strong_task_failure", "required_artifact_missing"}

(***************************************************************************)
(* verifierTriggerReason, and when a benchmark pays for one verifier only. *)
(***************************************************************************)
LowConfidencePass(runs) ==
  AllPass(runs) /\ \A run \in runs : run.confidence = "low" \/ Fallback(run)
InsufficientPass(runs) == AllPass(runs) /\ \A run \in runs : Insufficient(run)

Triggers(runs, required, repeated, forced) ==
  \/ forced \/ repeated
  \/ LowConfidencePass(runs) \/ InsufficientPass(runs)
  \/ AllPass(runs) /\ Uncovered(runs, required)
  \/ \E run \in runs : run.status = "crash"

WeakOrMissing(runs) == \A run \in runs : run.confidence = "low" \/ Fallback(run) \/ Weak(run)

AdvisoryOnly(runs, required) ==
  WeakOrMissing(runs) \/ InsufficientPass(runs) \/ Uncovered(runs, required)
=============================================================================
