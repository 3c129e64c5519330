----------------------------- MODULE PhaseEngine -----------------------------
(***************************************************************************)
(* One task in autonomous mode: runPhaseEngine of                          *)
(* packages/runtime/src/phase-engine.ts with decideRecovery of             *)
(* packages/runtime/src/recovery-engine.ts.                                *)
(*                                                                         *)
(* Gather sends out lanes side by side; the agent then runs, once more     *)
(* when it has used up its first turns; the result is validated, an        *)
(* advisory verifier may look at it, and while it is a failure the         *)
(* recovery engine picks the next step: a local fix, another exploration,  *)
(* the checkpoint, another approach.                                       *)
(*                                                                         *)
(* A run of the agent (module TurnRunner) is a number of turns, each of    *)
(* which may change the workspace and is then validated at once.  Of the   *)
(* workspace only its version is kept, of a model's judgement what it      *)
(* makes the engine do.  Synthesis and execution contexts are the text of  *)
(* prompts and are left out, with the lanes of a later exploration, which  *)
(* only feed them.                                                         *)
(***************************************************************************)
EXTENDS CompletionPolicy, Sequences

CONSTANTS
  Lanes,        \* of gather
  MaxTurns,     \* options.maxTurns
  FixTurns,     \* turns of a recovery run: at most 12
  Validations,  \* what validators may find
  Options,      \* how the engine may be called
  MaxEdits,     \* bound: versions of the workspace
  None

ASSUME TurnsAssumption == MaxTurns \in Nat \ {0} /\ FixTurns \in 1..MaxTurns /\ MaxEdits \in Nat
ASSUME ValidationsAssumption == Validations \subseteq SUBSET ValidatorRun
ASSUME OptionsAssumption ==
  Options \subseteq
    [benchmark : BOOLEAN, deadline : BOOLEAN,  \* deadlineAtMs is given
     midExec : BOOLEAN, reExploreTurn : Nat \ {0},
     verifier : BOOLEAN, force : BOOLEAN,
     store : BOOLEAN,      \* a checkpoint store is attached
     git : BOOLEAN,        \* the workspace has diffs
     required : BOOLEAN]   \* the task names a semantic requirement
ASSUME NoneAssumption == None \notin Nat /\ None \notin Statuses

MaxRecoveryAttempts == 5
MaxVerifierRuns == 2

VARIABLES
  opts,
  pc,          \* the phase
  waiting,     \* lanes gather has no result for
  alive,       \* lanes whose work goes on, wanted or not
  signalled,   \* lanes whose abort signal has fired
  aborted,     \* ctx.signal
  left,        \* seconds to the deadline, as the engine tells them apart
  mode,        \* which run of the agent: "first", "rest", "fix"
  turns,       \* turnsRun of the run
  executed,    \* turns of the runs before any recovery
  workspace, edits,
  validation,  \* the last one, and the workspace it is of
  routing,
  advice,      \* what latestVerifier would have recovery do
  verifierRuns,
  recovery,    \* RecoveryEngineState
  repeated,    \* repeatedApproach of the last attempt
  checkpoint,  \* recoveryCheckpointSha, by the workspace it holds
  history,     \* recoveryHistory
  entry,       \* the workspace recovery began with
  missed       \* a checkpoint could not be saved

gathering == <<waiting, alive, signalled>>
run == <<mode, turns, executed>>
judged == <<validation, routing, advice, verifierRuns>>
recovering == <<recovery, repeated, checkpoint, history, entry, missed>>
vars == <<opts, pc, gathering, aborted, left, run, workspace, edits, judged, recovering>>

Phases == {"gather", "execute", "re_explore", "validate", "verify", "verifying", "recover",
           "restore", "finish", "threw"}
Final == {"finish", "threw"}
Levels == {120, 90, 75, 0}  \* at least so many seconds are left
Actions == {"local_fix", "re_explore", "checkpoint_restore", "alternative_approach", "give_up"}
Version == 0..MaxEdits

HasBudget(seconds) == left >= seconds
Go(phase) == pc' = phase

-----------------------------------------------------------------------------
Init ==
  /\ opts \in Options
  /\ pc = "gather"
  /\ waiting = Lanes /\ alive = Lanes /\ signalled = {}
  /\ aborted = FALSE /\ left = 120
  /\ mode = "first" /\ turns = 0 /\ executed = 0
  /\ workspace = 0 /\ edits = 0
  /\ validation = [of |-> None, runs |-> {}] /\ routing = None
  /\ advice = "none" /\ verifierRuns = 0
  /\ recovery = [attempts |-> 0, localFix |-> 0, alternative |-> 0, reExplore |-> 0, restored |-> {}]
  /\ repeated = FALSE /\ checkpoint = None /\ history = <<>>
  /\ entry = None /\ missed = FALSE

(***************************************************************************)
(* Around the phases.  The clock of the deadline, and the caller's abort,  *)
(* which the controllers of phases and lanes pass on to what still runs.   *)
(***************************************************************************)
TimePasses ==
  /\ opts.deadline /\ pc \notin Final
  /\ left' \in {s \in Levels : s < left}
  /\ UNCHANGED <<opts, pc, gathering, aborted, run, workspace, edits, judged, recovering>>

Abort ==
  /\ ~aborted /\ pc \notin Final
  /\ aborted' = TRUE /\ signalled' = signalled \cup waiting
  /\ UNCHANGED <<opts, pc, waiting, alive, left, run, workspace, edits, judged, recovering>>

(***************************************************************************)
(* Gather: runGatherLane races each lane against its timer, and the phase  *)
(* has a timer of its own, in benchmark mode.                              *)
(***************************************************************************)
gatherOnly == <<opts, aborted, left, run, workspace, edits, judged, recovering>>

Timed == opts.benchmark

\* A lane answers or fails, in time or after its place was taken.
LaneEnds(l) ==
  /\ l \in alive
  /\ alive' = alive \ {l} /\ waiting' = waiting \ {l}
  /\ UNCHANGED <<gatherOnly, pc, signalled>>

\* A degraded result takes its place, with what the prediction knows and no more.
Degraded(l) == waiting' = waiting \ {l}

LaneTimesOut(l) ==
  /\ Timed /\ l \in waiting
  /\ Degraded(l) /\ signalled' = signalled \cup {l}
  /\ UNCHANGED <<gatherOnly, pc, alive>>

GatherEnds ==
  /\ pc = "gather" /\ waiting = {}
  /\ Go("execute")
  /\ UNCHANGED <<gatherOnly, gathering>>

\* Mutated SignalLanes: a lane does not listen to the signal it was started under.
SignalNone == signalled
SignalLanes == signalled \cup waiting

\* All results are given up for one heuristic strategy.
GatherTimesOut ==
  /\ pc = "gather" /\ Timed
  /\ signalled' = SignalLanes
  /\ Go("execute")
  /\ UNCHANGED <<gatherOnly, waiting, alive>>

(***************************************************************************)
(* Execute.  A run has a number of turns; the first one stops early enough *)
(* for another exploration.                                                *)
(***************************************************************************)
Remaining == LET rest == MaxTurns - (executed - turns) IN IF rest > 1 THEN rest ELSE 1

Limit ==
  CASE mode = "rest" -> Remaining
    [] mode = "fix" -> FixTurns
    [] OTHER -> IF opts.midExec /\ opts.reExploreTurn < MaxTurns THEN opts.reExploreTurn ELSE MaxTurns

StartRun(which) == Go("execute") /\ mode' = which /\ turns' = 0

\* runMutationValidation: a strong success stops the run.
Mutate ==
  /\ edits < MaxEdits
  /\ edits' = edits + 1 /\ workspace' = edits'
  /\ \E runs \in Validations :
       IF Route(runs, opts.required) = "success" THEN Go("validate") ELSE UNCHANGED pc

Turn ==
  /\ pc = "execute" /\ ~aborted /\ turns < Limit
  /\ turns' = turns + 1
  /\ executed' = IF mode = "fix" THEN executed ELSE executed + 1
  /\ Mutate \/ UNCHANGED <<pc, workspace, edits>>
  /\ UNCHANGED <<opts, gathering, aborted, left, mode, judged, recovering>>

\* The agent is done, gives up, loses the stream or is aborted; a request that
\* throws takes the engine down with it.
RunEnds ==
  /\ pc = "execute"
  /\ Go("validate") \/ Go("threw")
  /\ UNCHANGED <<opts, gathering, aborted, left, run, workspace, edits, judged, recovering>>

\* No second exploration for an Opus that edits or runs things and fails neither
\* twice over its arguments nor in two validations.
Progressing == StartRun("rest")

\* max_turns, after the first run: explore again and go on, or just go on.
TurnsUsedUp ==
  /\ pc = "execute" /\ mode = "first" /\ turns = Limit
  /\ opts.midExec /\ turns >= opts.reExploreTurn /\ HasBudget(75)
  /\ \/ Go("re_explore") /\ UNCHANGED <<mode, turns>>
     \/ Progressing
  /\ UNCHANGED <<opts, gathering, aborted, left, executed, workspace, edits, judged, recovering>>

\* miniGather and synthesis, in the middle of execution or as a recovery.
ReExplore ==
  /\ pc = "re_explore"
  /\ IF history = <<>> THEN StartRun("rest") ELSE Go("validate") /\ UNCHANGED <<mode, turns>>
  /\ UNCHANGED <<opts, gathering, aborted, left, executed, workspace, edits, judged, recovering>>

(***************************************************************************)
(* Validate, and let the verifier look at it.                              *)
(***************************************************************************)
Validate ==
  /\ pc = "validate"
  /\ \E runs \in Validations : validation' = [of |-> workspace, runs |-> runs]
  /\ Go("verify")
  /\ UNCHANGED <<opts, gathering, aborted, left, run, workspace, edits, routing, advice,
                 verifierRuns, recovering>>

\* The head of the recovery loop, and what a benchmark does not recover from.
RouteNow ==
  /\ routing' = Route(validation.runs, opts.required)
  /\ LET recover == /\ routing' = "task_failure" /\ recovery.attempts < MaxRecoveryAttempts
                    /\ opts.benchmark => Actionable(validation.runs) /\ HasBudget(75)
     IN Go(IF recover THEN "recover" ELSE "finish")

MayVerify ==
  /\ verifierRuns < MaxVerifierRuns
  /\ opts.benchmark =>
       HasBudget(90) /\ (AdvisoryOnly(validation.runs, opts.required) => verifierRuns = 0)

Verify ==
  /\ pc = "verify"
  /\ IF /\ opts.verifier /\ MayVerify
        /\ Triggers(validation.runs, opts.required, repeated, opts.force)
     THEN Go("verifying") /\ UNCHANGED routing
     ELSE RouteNow
  /\ UNCHANGED <<opts, gathering, aborted, left, run, workspace, edits, validation, advice,
                 verifierRuns, recovering>>

\* What the words of its findings come to.
Advice == {"none", "re_explore", "alternative_approach"}

\* It finds something, or nothing, or fails; only the latest counts.
VerifierEnds ==
  /\ pc = "verifying"
  /\ verifierRuns' = verifierRuns + 1
  /\ advice' \in Advice
  /\ RouteNow
  /\ UNCHANGED <<opts, gathering, aborted, left, run, workspace, edits, validation, recovering>>

(***************************************************************************)
(* Recover: decideRecovery goes up a ladder.                               *)
(***************************************************************************)
Restorable(sha) == sha # None /\ sha \notin recovery.restored

Decide(again, sha) ==
  IF recovery.reExplore = 0 /\ (again \/ advice = "re_explore") THEN "re_explore"
  ELSE IF again /\ recovery.alternative > 0 /\ ~Restorable(sha) THEN "give_up"
  ELSE IF recovery.alternative = 0 /\ advice = "alternative_approach" THEN "alternative_approach"
  ELSE IF recovery.localFix >= 2 /\ Restorable(sha) THEN "checkpoint_restore"
  ELSE IF recovery.localFix >= 3 /\ recovery.alternative = 0 THEN "alternative_approach"
  ELSE "local_fix"

Count(decision, action) == IF decision = action THEN 1 ELSE 0

\* Mutated KeepsCheckpoint: it is saved anew in every attempt.
SavesAgain == FALSE
KeepsCheckpoint == checkpoint # None

SaveCheckpoint ==
  \/ KeepsCheckpoint /\ UNCHANGED <<checkpoint, missed>>
  \/ ~KeepsCheckpoint /\ opts.store /\ checkpoint' = workspace /\ UNCHANGED missed
  \/ ~KeepsCheckpoint /\ missed' = TRUE /\ UNCHANGED checkpoint

\* The diff of the workspace may be much like that of the last failure; where
\* there is none, it is empty.
SameDiff == {b \in {TRUE} : recovery.attempts >= 1 /\ opts.git}

\* repeatedApproach: failures in a row, which are the attempts so far, or the diff.
Repeated == {recovery.attempts >= (IF opts.benchmark THEN 2 ELSE 4)} \cup SameDiff

Carry(decision) ==
  CASE decision = "give_up" -> Go("finish") /\ UNCHANGED <<mode, turns>>
    [] decision = "checkpoint_restore" -> Go("restore") /\ UNCHANGED <<mode, turns>>
    [] decision = "re_explore" ->
         /\ Go(IF opts.benchmark /\ ~HasBudget(120) THEN "finish" ELSE "re_explore")
         /\ UNCHANGED <<mode, turns>>
    [] OTHER -> StartRun("fix")

Recover ==
  /\ pc = "recover"
  /\ repeated' \in Repeated
  /\ SaveCheckpoint
  /\ entry' = IF entry = None THEN workspace ELSE entry
  /\ LET decision == Decide(repeated', checkpoint') IN
       /\ history' = Append(history, decision)
       /\ recovery' =
            [attempts |-> recovery.attempts + 1,
             localFix |-> recovery.localFix + Count(decision, "local_fix"),
             alternative |-> recovery.alternative + Count(decision, "alternative_approach"),
             reExplore |-> recovery.reExplore + Count(decision, "re_explore"),
             restored |-> recovery.restored
                            \cup {v \in {checkpoint'} : decision = "checkpoint_restore"}]
       /\ Carry(decision)
  /\ UNCHANGED <<opts, gathering, aborted, left, executed, workspace, edits, judged>>

\* Mutated AfterRestore: the loop goes on without, or with no new, validation.
AfterRestoreVerify == "verify"
AfterRestoreContinue == "recover"
AfterRestore == "validate"

\* restore reports whether it succeeded, which is not looked at, or throws.
Restore ==
  /\ pc = "restore"
  /\ \/ workspace' = checkpoint /\ Go(AfterRestore)
     \/ UNCHANGED workspace /\ (Go(AfterRestore) \/ Go("threw"))
  /\ UNCHANGED <<opts, gathering, aborted, left, run, edits, judged, recovering>>

-----------------------------------------------------------------------------
Timers == GatherTimesOut \/ \E l \in Lanes : LaneTimesOut(l)

Engine ==
  \/ GatherEnds \/ Turn \/ RunEnds \/ TurnsUsedUp \/ ReExplore
  \/ Validate \/ Verify \/ VerifierEnds \/ Recover \/ Restore

Next == Engine \/ Timers \/ TimePasses \/ Abort \/ \E l \in Lanes : LaneEnds(l)

\* What the engine waits for comes: runs of the agent and validators are
\* bounded by turns and timeouts, budgets are timers.  A lane may hang for good
\* in benchmark mode; outside it, nothing but the lane itself ends it.
Spec ==
  /\ Init /\ [][Next]_vars
  /\ WF_vars(Engine) /\ WF_vars(Timers)
  /\ \A l \in Lanes : WF_vars(~opts.benchmark /\ LaneEnds(l))

-----------------------------------------------------------------------------
TypeOK ==
  /\ opts \in Options /\ pc \in Phases /\ aborted \in BOOLEAN /\ left \in Levels
  /\ waiting \subseteq Lanes /\ alive \subseteq Lanes /\ signalled \subseteq Lanes
  /\ mode \in {"first", "rest", "fix"} /\ turns \in 0..MaxTurns /\ executed \in Nat
  /\ edits \in Version /\ workspace \in 0..edits
  /\ validation \in [of : Version \cup {None}, runs : Validations \cup {{}}]
  /\ routing \in Statuses \cup {None}
  /\ advice \in Advice
  /\ verifierRuns \in 0..MaxVerifierRuns
  /\ recovery \in [attempts : 0..MaxRecoveryAttempts, localFix : 0..MaxRecoveryAttempts,
                   alternative : 0..1, reExplore : 0..1, restored : SUBSET Version]
  /\ repeated \in BOOLEAN /\ missed \in BOOLEAN
  /\ checkpoint \in Version \cup {None} /\ entry \in Version \cup {None}
  /\ history \in Seq(Actions)

\* What is known of the workspace as it is, and what the caller is told.
verdict == IF validation.of = workspace THEN Route(validation.runs, opts.required) ELSE None
outcome == IF pc = "finish" THEN routing ELSE None

Task == INSTANCE Completion WITH Workspaces <- Version, Verdicts <- Statuses

\* What is reported is what a validation found out about the workspace that is
\* left behind: not about an earlier one, before a fix or a restore, and not
\* what a validation in mid-run or the verifier says.
ReportsWhatItLeaves == Task!Spec

\* Recovery acts on a failure of the workspace it is about to change.
DecidesOnCurrent ==
  [][recovery'.attempts # recovery.attempts =>
       validation.of = workspace /\ Route(validation.runs, opts.required) = "task_failure"]_vars

\* What recovery is about to restore is the workspace it began with; unless the
\* first attempt to save the checkpoint failed and a later one did not.
RestoreUndoesRecovery == pc = "restore" => missed \/ checkpoint = entry

\* "move up the ladder instead of bouncing between the same snapshot and same
\* local fix": the checkpoint is restored once, two local fixes after it have
\* something else between them, and local fixes alone do not use up recovery.
Climbs ==
  /\ \A i, j \in DOMAIN history :
       history[i] = "checkpoint_restore" /\ history[j] = "checkpoint_restore" => i = j
  /\ \A i, j, k \in DOMAIN history :
       i < j /\ j < k /\ history[i] = "checkpoint_restore"
         /\ history[j] = "local_fix" /\ history[k] = "local_fix"
       => \E m \in j..k : history[m] # "local_fix"
  /\ Len(history) = MaxRecoveryAttempts => \E i \in DOMAIN history : history[i] # "local_fix"

\* Both runs of the execute phase together keep to maxTurns; only where the
\* first one may use them all, the second gets one turn on top.
TurnBudget ==
  executed <= IF opts.midExec /\ opts.reExploreTurn = MaxTurns THEN MaxTurns + 1 ELSE MaxTurns

\* Once gather is over, a lane that still works has been told to stop.
NoOrphanLane == pc # "gather" => alive \subseteq signalled

\* A task ends, whatever hangs, fails or keeps failing.
Ends == <>(pc \in Final)

\* completion-policy.ts: "if the final validator set has confidence `low` and
\* all it proves is that the code compiles", the task is not a success.
LowEvidenceIsUnknown ==
  pc = "finish" /\ routing = "success" =>
    \E r \in validation.runs : r.confidence # "low" \/ ~(Fallback(r) \/ Insufficient(r))
=============================================================================
