------------------------------ MODULE Autonomous ------------------------------
\* One run of "open-apex autonomous", from the command line to process.exit.  The
\* main thread of control awaits its file writes; SIGTERM, SIGINT and the no-progress
\* watchdog each call writePartialTimeoutArtifacts beside it, on the same variables.
EXTENDS Naturals, FiniteSets

CONSTANTS InBenchmark, Unset

\* Everything that may call writePartialTimeoutArtifacts.
Writers == {"SIGTERM", "SIGINT", "watchdog", "catch"}

VARIABLES
  main,       \* where the main thread is
  writer,     \* where each call of writePartialTimeoutArtifacts is
  outcome,    \* the outcome variable
  claimed,    \* partialTimeoutWritten
  cancelled,    \* the abort signal of the run
  handlers,   \* signals the process handles, once each
  turnStarted,\* the first execute turn: the watchdog stops
  answer,     \* what the main thread is about to return; Unset, its own partial files
  onDisk,     \* result.json, summary.json and trajectory.json
  printed,    \* the line on stdout
  exitCode    \* Unset while the process lives

autoVars == <<main, writer, outcome, claimed, cancelled, handlers, turnStarted,
              answer, onDisk, printed, exitCode>>

Results == {"success", "task_failure", "timeout", "error", "config_error"}
ASSUME UnsetIsNoResult == Unset \notin Results
ExitCodes == [success |-> 0, task_failure |-> 1, error |-> 4, config_error |-> 5, timeout |-> 7]
Uncaught == 1
Killed == 143

Early == {"args", "preset", "config", "task", "bundle", "preflight"}
Guarded == {"setup", "checkpoints", "engine", "atif", "summary", "outcome", "write", "filestate"}
Files == {"result", "summary", "trajectory"}

AutoInit ==
  /\ main = "args" /\ writer = [w \in Writers |-> "idle"]
  /\ outcome = Unset /\ claimed = FALSE /\ cancelled = FALSE /\ handlers = {}
  /\ turnStarted = FALSE /\ answer = Unset
  /\ onDisk = [f \in Files |-> Unset] /\ printed = Unset /\ exitCode = Unset

Running == exitCode = Unset
At(stage) == Running /\ main = stage
Go(stage) == main' = stage

-----------------------------------------------------------------------------
\* Before the handlers: an outcome that is returned at once, or an exception that
\* nobody catches.
EarlySteps == [args |-> "preset", preset |-> "config", config |-> "task", task |-> "bundle",
               bundle |-> "preflight", preflight |-> "setup"]

EarlyStep ==
  /\ Running /\ main \in Early
  /\ Go(EarlySteps[main])
  /\ handlers' = IF main = "preflight" THEN {"SIGTERM", "SIGINT"} ELSE {}
  /\ UNCHANGED <<writer, outcome, claimed, cancelled, turnStarted, answer, onDisk, printed, exitCode>>

\* No preset, no task, or in a benchmark no contamination blocklist: the last
\* leaves a result.json.
ConfigError ==
  /\ Running /\ main \in {"preset", "task", "preflight"}
  /\ main = "preflight" => InBenchmark
  /\ answer' = "config_error" /\ Go("print")
  /\ onDisk' = IF main = "preflight" THEN [onDisk EXCEPT !.result = "config_error"] ELSE onDisk
  /\ UNCHANGED <<writer, outcome, claimed, cancelled, handlers, turnStarted, printed, exitCode>>

\* A command line that parseArgs refuses: the help on stderr, no line on stdout.
BadArgs ==
  /\ At("args") /\ answer' = "config_error" /\ Go("exit")
  /\ UNCHANGED <<writer, outcome, claimed, cancelled, handlers, turnStarted, onDisk, printed, exitCode>>

\* A config.toml that cannot be read (a benchmark reads none), an output directory
\* that cannot be made.
EarlyThrow ==
  /\ Running /\ main \in {"config", "bundle"}
  /\ main = "config" => ~InBenchmark
  /\ Go("rejected")
  /\ UNCHANGED <<writer, outcome, claimed, cancelled, handlers, turnStarted, answer, onDisk, printed, exitCode>>

-----------------------------------------------------------------------------
\* The main thread inside its try block.
NextStage == [setup |-> "checkpoints", checkpoints |-> "engine"]

SetUp ==
  /\ Running /\ main \in {"setup", "checkpoints"} /\ Go(NextStage[main])
  /\ onDisk' = IF main = "setup" THEN [onDisk EXCEPT !.trajectory = "partial"] ELSE onDisk
  /\ UNCHANGED <<writer, outcome, claimed, cancelled, handlers, turnStarted, answer, printed, exitCode>>

\* The phase engine reports its first execute turn.
TurnStarts ==
  /\ At("engine") /\ ~turnStarted /\ turnStarted' = TRUE
  /\ onDisk' = [onDisk EXCEPT !.trajectory = "partial"]
  /\ UNCHANGED <<main, writer, outcome, claimed, cancelled, handlers, answer, printed, exitCode>>

\* What the routing says, unless the tool loop was hallucinated.
Routed == {"success", "task_failure", "error"}

EngineReturns ==
  /\ At("engine") /\ answer' \in Routed
  /\ Go("atif")
  /\ UNCHANGED <<writer, outcome, claimed, cancelled, handlers, turnStarted, onDisk, printed, exitCode>>

FinalAtif ==
  /\ At("atif") /\ Go("summary") /\ onDisk' = [onDisk EXCEPT !.trajectory = "final"]
  /\ UNCHANGED <<writer, outcome, claimed, cancelled, handlers, turnStarted, answer, printed, exitCode>>

FinalSummary ==
  /\ At("summary") /\ Go("outcome") /\ onDisk' = [onDisk EXCEPT !.summary = answer]
  /\ UNCHANGED <<writer, outcome, claimed, cancelled, handlers, turnStarted, answer, printed, exitCode>>

SetOutcome ==
  /\ At("outcome") /\ Go("write") /\ outcome' = answer
  /\ UNCHANGED <<writer, claimed, cancelled, handlers, turnStarted, answer, onDisk, printed, exitCode>>

\* result.json is of what outcome was when the write began.
WriteResult ==
  /\ At("write") /\ Go("filestate") /\ onDisk' = [onDisk EXCEPT !.result = answer]
  /\ UNCHANGED <<writer, outcome, claimed, cancelled, handlers, turnStarted, answer, printed, exitCode>>

\* After the flush and the file-state map: "return outcome", as it is by now.
ReturnOutcome ==
  /\ At("filestate") /\ Go("finally") /\ answer' = outcome
  /\ UNCHANGED <<writer, outcome, claimed, cancelled, handlers, turnStarted, onDisk, printed, exitCode>>

\* Anything in the try block may throw; an abort ends the engine this way.
MainThrows ==
  /\ Running /\ main \in Guarded /\ Go("caught")
  /\ UNCHANGED <<writer, outcome, claimed, cancelled, handlers, turnStarted, answer, onDisk, printed, exitCode>>

-----------------------------------------------------------------------------
\* writePartialTimeoutArtifacts: at once the outcome there is, or one of its own if
\* another call has the claim; else the claim, and the files one after the other.
\* Mutated Claims: two callers that come before the outcome both write.
ClaimsUnlessOutcome == outcome = Unset

Claims == outcome = Unset /\ ~claimed
CallPartial(w) ==
  IF Claims
  THEN claimed' = TRUE /\ writer' = [writer EXCEPT ![w] = "atif"]
  ELSE writer' = [writer EXCEPT ![w] = "done"] /\ UNCHANGED claimed

Signal(s) ==
  /\ Running /\ s \in handlers
  /\ handlers' = handlers \ {s} /\ cancelled' = TRUE /\ CallPartial(s)
  /\ UNCHANGED <<main, outcome, turnStarted, answer, onDisk, printed, exitCode>>

\* A signal nobody listens to, or no longer.
KilledBy(s) ==
  /\ Running /\ s \notin handlers /\ exitCode' = Killed
  /\ UNCHANGED <<main, writer, outcome, claimed, cancelled, handlers, turnStarted, answer, onDisk, printed>>

\* In a benchmark, no progress between the start of the engine and the first turn.
Watchdog ==
  /\ At("engine") /\ InBenchmark /\ ~turnStarted /\ ~cancelled
  /\ cancelled' = TRUE /\ CallPartial("watchdog")
  /\ UNCHANGED <<main, outcome, handlers, turnStarted, answer, onDisk, printed, exitCode>>

PartialAtif(w) ==
  /\ Running /\ writer[w] = "atif" /\ writer' = [writer EXCEPT ![w] = "summary"]
  /\ onDisk' = IF onDisk.trajectory = Unset THEN onDisk ELSE [onDisk EXCEPT !.trajectory = "partial"]
  /\ UNCHANGED <<main, outcome, claimed, cancelled, handlers, turnStarted, answer, printed, exitCode>>

PartialSummary(w) ==
  /\ Running /\ writer[w] = "summary" /\ writer' = [writer EXCEPT ![w] = "outcome"]
  /\ onDisk' = [onDisk EXCEPT !.summary = "timeout"]
  /\ UNCHANGED <<main, outcome, claimed, cancelled, handlers, turnStarted, answer, printed, exitCode>>

\* After the summary and the replay log.
PartialOutcome(w) ==
  /\ Running /\ writer[w] = "outcome" /\ writer' = [writer EXCEPT ![w] = "result"]
  /\ outcome' = "timeout"
  /\ UNCHANGED <<main, claimed, cancelled, handlers, turnStarted, answer, onDisk, printed, exitCode>>

PartialResult(w) ==
  /\ Running /\ writer[w] = "result" /\ writer' = [writer EXCEPT ![w] = "done"]
  /\ onDisk' = [onDisk EXCEPT !.result = "timeout"]
  /\ UNCHANGED <<main, outcome, claimed, cancelled, handlers, turnStarted, answer, printed, exitCode>>

-----------------------------------------------------------------------------
\* The catch block: a cancelled run is a timeout, any other error is reported; when
\* the log of it cannot be appended, the exception leaves the command.
CatchThrows ==
  /\ At("caught") /\ Go("rejected") /\ handlers' = {}
  /\ UNCHANGED <<writer, outcome, claimed, cancelled, turnStarted, answer, onDisk, printed, exitCode>>

\* Mutated CatchAborted: it awaits the files also when another call writes them.
CatchAbortedAwaiting ==
  /\ At("caught") /\ cancelled /\ Go("finally") /\ answer' = Unset
  /\ IF Claims THEN CallPartial("catch") ELSE UNCHANGED <<claimed, writer>>
  /\ UNCHANGED <<outcome, cancelled, handlers, turnStarted, onDisk, printed, exitCode>>

\* It returns the promise of the files, which the finally block does not wait for.
CatchAborted ==
  /\ At("caught") /\ cancelled /\ Go("finally") /\ CallPartial("catch")
  /\ answer' = CASE Claims         -> Unset
                 [] outcome # Unset -> outcome
                 [] OTHER           -> "timeout"
  /\ UNCHANGED <<outcome, cancelled, handlers, turnStarted, onDisk, printed, exitCode>>

CatchError ==
  /\ At("caught") /\ ~cancelled /\ Go("errorWrite") /\ answer' = "error"
  /\ UNCHANGED <<writer, outcome, claimed, cancelled, handlers, turnStarted, onDisk, printed, exitCode>>

ErrorWrite ==
  /\ At("errorWrite") /\ Go("finally") /\ onDisk' = [onDisk EXCEPT !.result = answer]
  /\ UNCHANGED <<writer, outcome, claimed, cancelled, handlers, turnStarted, answer, printed, exitCode>>

\* The listeners go, then the jobs and the sink are closed.
Finally ==
  /\ At("finally") /\ Go(IF answer = Unset THEN "waits" ELSE "print") /\ handlers' = {}
  /\ UNCHANGED <<writer, outcome, claimed, cancelled, turnStarted, answer, onDisk, printed, exitCode>>

\* The promise that was returned is fulfilled.
CatchWaits ==
  /\ At("waits") /\ writer["catch"] = "done" /\ Go("print") /\ answer' = outcome
  /\ UNCHANGED <<writer, outcome, claimed, cancelled, handlers, turnStarted, onDisk, printed, exitCode>>

PrintResult ==
  /\ At("print") /\ Go("exit") /\ printed' = answer
  /\ UNCHANGED <<writer, outcome, claimed, cancelled, handlers, turnStarted, answer, onDisk, exitCode>>

\* process.exit does not wait for a call of writePartialTimeoutArtifacts.
Exit ==
  /\ At("exit") /\ Go("over") /\ exitCode' = ExitCodes[answer]
  /\ UNCHANGED <<writer, outcome, claimed, cancelled, handlers, turnStarted, answer, onDisk, printed>>

Rejected ==
  /\ At("rejected") /\ Go("over") /\ exitCode' = Uncaught
  /\ UNCHANGED <<writer, outcome, claimed, cancelled, handlers, turnStarted, answer, onDisk, printed>>

MainStep ==
  \/ EarlyStep \/ BadArgs \/ ConfigError \/ EarlyThrow \/ SetUp \/ EngineReturns
  \/ FinalAtif \/ FinalSummary \/ SetOutcome \/ WriteResult \/ ReturnOutcome \/ MainThrows
  \/ CatchThrows \/ CatchAborted \/ CatchWaits \/ CatchError \/ ErrorWrite \/ Finally \/ PrintResult \/ Exit \/ Rejected
WriterStep(w) == PartialAtif(w) \/ PartialSummary(w) \/ PartialOutcome(w) \/ PartialResult(w)

AutoNext ==
  \/ MainStep \/ TurnStarts \/ Watchdog
  \/ \E s \in {"SIGTERM", "SIGINT"} : Signal(s) \/ KilledBy(s)
  \/ \E w \in Writers : WriterStep(w)

\* Every await of the command ends: a file write, a git command with its limit, the
\* phase engine (PhaseEngine!Ends).
AutoFairness == WF_autoVars(MainStep) /\ WF_autoVars(\E w \in Writers : WriterStep(w))

AutoSpec == AutoInit /\ [][AutoNext]_autoVars /\ AutoFairness

-----------------------------------------------------------------------------
Exited == main = "over" /\ printed # Unset

\* However signals, the watchdog and the catch block come together, one of them
\* writes the files of a timed out run.
OnePartialWriter ==
  Cardinality({w \in Writers : writer[w] \notin {"idle", "done"}}) <= 1

\* Nothing interrupted the run: what is printed is in result.json and summary.json,
\* and a result of the engine comes with the whole trajectory.
UndisturbedAgrees ==
  Exited /\ ~cancelled /\ onDisk.result # Unset =>
    /\ printed = onDisk.result
    /\ printed \in {"success", "task_failure"} =>
         onDisk.summary = printed /\ onDisk.trajectory = "final"

\* A run that got as far as its first artifact prints what result.json holds, as
\* help.ts says: "OpenApexResult (this same JSON is also printed on stdout)".  It does
\* not hold: a signal after the write of result.json changes what is printed.
PrintedIsOnDisk == Exited /\ onDisk.trajectory # Unset => printed = onDisk.result

\* The command ends, with a line on stdout, an exception or a signal.
CommandEnds == <>(exitCode # Unset)
=============================================================================
