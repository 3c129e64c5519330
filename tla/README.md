# Open-Apex in TLA+

Models of the parts of Open-Apex in which the order of events decides whether
the program is right: who may write a session file, what a turn shows the model
and what it leaves on file, what the chat believes the provider has seen, what
goes over the wire and comes back, which tool calls run side by side, what a
checkpoint or an edit leaves behind when something fails half way, and whether
the outcome of an autonomous task is about the workspace it leaves. The source
is TypeScript under `packages/` and `apps/`; the definitions are translated from
it, not from its documentation.

    tlc -workers 2 -config Tools.cfg MCTools.tla     model-check
    tlapm ToolProofs.tla                             check the proofs

`PROJECT.json` lists the runs, the code each definition stands for, the hazards
and the theorems.

## The system

| Part | State it keeps | Operations | Interacts with | What makes it correct | Module |
|---|---|---|---|---|---|
| Session store (`runtime/src/session-store.ts`) | JSONL rollout, SQLite row and lock file per session; the "active" map of a process | open, load, append, list, markCompleted, release, close, delete | other processes through the file system; turn runner, chat | one writer per session; what was acknowledged survives a death | `SessionStore` |
| Turn runner (`turn-runner.ts`, `stream-accumulator.ts`) | history, handle, delivered index; turn, strike, bad-args and patch counters | `runAgenticTurns` | adapters, scheduler, store, phase engine | no item is kept from the model; calls are followed by results; counters are honest; it ends | `TurnRunner` |
| Chat (`apps/cli/src/chat.ts`, `commands.ts`) | history, handle, delivered length, conversation id | message, `/new`, preset switch, `/clear`, `/compact`, `/resume`, exit | turn runner, adapter, store | handle, conversation and delivered length stay in step; a reset leaks nothing | `ChatSession` |
| Tool scheduler, patch recovery (`tool-loop.ts`, `patch-recovery.ts`) | pending calls, asset budget, paths open for an overwrite | refuse, gate, ask, start, finish, recover | tools, permission gate, user | serial tools run alone; every call is answered; an overwrite is earned | `ToolScheduler` |
| Provider request (`provider-*/src/adapter.ts`, `core/src/retry`) | attempt, strict flag; breaker per endpoint | breaker check, send, stream, classify, retry, relax | accumulator, HTTP, watchdog | transient failures are retried; an open circuit refuses; every request ends | `ProviderStream` |
| Rate limiter (`core/src/retry/rate-limiter.ts`) | buckets, chain of waits | reserve, updateFromHeaders | adapters | throttled requests go out spaced | `RateLimiter` |
| Translators, accumulator, request builders (`provider-*/src/sse-parser.ts`, `request-builder.ts`) | open blocks, parts of the turn, replay buffer, strict tools | translate, ingest, finalize, buildRequest | turn runner, the provider | calls run as streamed; the next request is well formed; strict schemas agree with the argument check | `Translation`, `ToolSchemas` |
| Phase engine, recovery, completion policy (`phase-engine.ts`, `recovery-engine.ts`, `completion-policy.ts`, `synthesis.ts`) | phase, lanes, validation, verifier runs, recovery counters, checkpoint; a child process; usage | gather, execute, re-explore, validate, verify, decide, restore; planner, verifier and synthesis calls | turn runner, validators, checkpoint store, caller | the outcome is about the workspace left behind; no child or call outlives its lane; usage is counted | `PhaseEngine`, `CompletionPolicy`, `Completion`, `Exploration`, `Subagents` |
| Validation (`runtime/src/validation`) | candidates, validator processes | discover (a ladder), check the shape, run, classify | phase engine, workspace, operating system | what a rung finds is listed, and a quoted command or a script leads | `Validation` |
| Checkpoint store (`tools/src/checkpoint`) | shadow git repository, manifests | init, save, restore | git commands, child processes, two tools | a restore never loses what was not saved, and "verified" is true | `Checkpoint`, `Snapshots` |
| File tools (`tools/src/patch`, `tools/src/tools/*`, `runtime/src/file-state-map.ts`) | files, the map of what was read | read, patch, replace, write, delete, move | scheduler, other writers | a file the map calls fresh is what the model saw | `FileEdits` |
| Shell (`tools/src/tools/run_shell.ts`) | child, pipes, timers | executeShell | operating system | the call returns, and says what happened | `ShellCall` |
| Web search (`search/src`, `web_search.ts`, `fetch_url.ts`) | cache of the process | search, late overview, fetch | provider, server | nothing denied reaches the model | `WebSearch` |
| Indexer (`indexer/src`, `symbol_lookup.ts`) | symbol index shared by lookups | walk, index, answer | files that change | a lookup answers what is on disk | `SymbolIndex` |
| Autonomous command (`apps/cli/src/autonomous.ts`) | outcome, files of the run, trajectory | set-up, result files, signals, watchdog, catch, exit | phase engine, telemetry | one writer of partial results; reports agree with the outcome | `Autonomous` |
| Verification gate (`config/src/verification-gate`) | capabilities, blockers | list models, probe with retries, certify | both providers | nothing unproven passes | `VerificationGate` |
| Permissions, orchestrator wrappers, configuration, evals, Harbor agent, Landlock helper | | classifying, types, start-up, tests | | not a matter of ordering | |

The hard parts are: several processes on one directory with no transaction over
its files; deaths between two writes; a ladder of fallbacks when a provider
handle is stale; state that exists three times (history in memory, rollout on
disk, context at the provider); parallel calls with one exclusive kind; retries
inside a generator whose consumer has already used what it yielded; processes
that outlive a kill or hold a pipe; timers that give an answer in place of a
call that goes on.

## Modules

```
SessionStore     <- SessionStoreProofs
TurnRunner       <- TurnRunnerProofs
TurnRunner       <- ChatSession <- ChatSessionProofs, with TurnRunnerProofs
ProviderStream   <- StreamProofs, with RateLimiter
ToolScheduler    <- ToolParts <- ToolProofs;  ToolParts adds Autonomous, ShellCall, WebSearch
CompletionPolicy <- PhaseEngine <- EngineParts <- EngineProofs;  EngineParts adds
                    Exploration, Subagents and Validation; PhaseEngine implements Completion
FileEdits        <- WorkspaceProofs, with VerificationGate, SymbolIndex and Checkpoint;
                    Checkpoint implements Snapshots
Translation      <- TranslationProofs
ToolSchemas

MCSessionStore = SessionStore       MCChat = ChatSession three times + Translation
MCProviderStream = ProviderStream + RateLimiter
MCTools = ToolParts + TurnRunner
MCEngine = EngineParts
MCWorkspace = Checkpoint + FileEdits + SymbolIndex + ToolSchemas + VerificationGate
```

A passing run checks several components in one state space. They share no state, only
what they return to each other, so the variable `part` says which of them a behaviour is
of; the others stay in one initial state. The distinct states of such a run are the sum
over its parts and not their product, and a property of one part says nothing of a
behaviour of another. This is a way to group runs, not a composition. The composition
proper is `ChatSession`, which extends `TurnRunner`, takes its step relation as
the run of a message, and shares the rollout, the conversations and the provider with it;
`Translation` composes a translator, the accumulator, the builder of the next request and
the provider; `ToolSchemas` the builder of a schema and the check of the arguments;
`Exploration` the lane of the parent and the child process.

The components meet at interfaces abstracted on both sides: the results a batch may
return are `Outcomes` in `TurnRunner` and what `ToolScheduler` computes; a failing request
is one step (`ResumeFails`, `GenerateFails`, `StreamCut`) in `TurnRunner`, all of
`ProviderStream`, and what was said before it broke is in `Translation`; a run of the
agent is a number of turns with edits in `PhaseEngine` and all of `TurnRunner`; a
validation is a set of runs there and a ladder with processes in `Validation`; a
checkpoint is one step there and a sequence of git commands in `Checkpoint`; the engine
is one step of `Autonomous`.

### SessionStore

Variables are the files (`lock`, `rollout`, `row`), the memory of each process
(`active`, its program counter `pc`/`sess`, the computed row `found`, the appends
in flight) and history variables (`acked`, `purged`, `opened`, and `struck`, the kinds of
fault that have struck). A call is cut at every
file operation another process can see: `acquireLock` is `LoadCheck`, `LoadRead`,
`LoadRemove`, `LoadCreate` and `WriteLock`. Appends of a process run beside its other
calls, since the turn runner records scheduler events without waiting. `Crash` lets a
process die anywhere, `TornCrash` in the middle of an append; a torn line has no
newline, so the next append is glued to it: a whole one ends the line, a torn one does not. Left out: reuse of pids; an upsert of SQLite
is atomic; the reset of a corrupt index; usage figures; the file-state file.

### TurnRunner, ChatSession

One run of `runAgenticTurns`, from a history and a handle to a termination reason.
`SendRequest` builds the request, `ResumeFails`, `GenerateFails` and `StreamCut` are the
exits of the stream, `Answer` to `EndTurn` the handling of an answer, `RunBatch` the
results, and `AppendResults`, `AppendFeedback`, `AppendRecovery`, `AppendAdvice` what is
appended and persisted, in the order of the code. A conversation of the provider holds
what was sent under it and answered; a request that fails leaves no trace.
`Seen(request)` is what the model is shown. Texts are choices. One path is patched; of
the search advice only the count of `web_search` is modelled, not the near-duplicate
queries and the count of `fetch_url`; pruning of images is in `Translation`.

`ChatSession` is `runChat` around it: `Message`, `EnsureConversation`, the steps of the
run, `EndRun`, and the commands. `/switch` stands for a change of preset. `/compact` is
cut where it awaits. `Exit`, `Crash` and `Restart` rebuild the chat from the rollout in a
new process; `Resume` in the same one. Two history variables say that none of the events has
happened yet after which the program does lose items. `steady` is about one process that
resets, switches and fails: no stream was cut off, no run stopped at its limit, no context
cleared, compacted or rebuilt. `intact` is about one conversation that is compacted,
left and resumed: no request failed, no run stopped at its limit or died with its process,
no conversation was refused, no context given up, no preset changed.

### ToolScheduler, ShellCall, WebSearch

`ToolScheduler` is `executeToolBatch` over the calls of one answer and
`maybeInjectPatchRecovery` after it. Each outcome of availability, argument check, gate
and user is possible; what remains is the control. One file is followed across batches.
A `read_asset` is measured or not (no path, a path outside the workspace, no file): only
what was measured is held against the two limits of a batch, on number and on bytes, and what
was not passes uncounted, and fails, since the tool makes the same checks. There is no await
between the two, so that nothing of this process changes the file in between; another
process could, and is outside the model. The cap on a single asset is one more way to fail.

`ShellCall` is `executeShell`: the child, two pipes that processes it has started may hold
after it, the time limit, the reap deadline and the deadline of the streams.

`WebSearch` is two workers that search, redeem the late overview and fetch, beside one
cache; an item is denied or not. `Timeout` is there for the calls that have a timer: a
`HEAD` request has none.

### ProviderStream, RateLimiter

Requests of concurrent agents to one endpoint. `BeforeCall` is the breaker's question,
asked once per request; `Send` to `DoneEvent` one attempt; `Fail` the catch block;
`RelaxStrict` the second try without strict tools; `ErrorEvent` the place where an error
is yielded before it is thrown and the turn runner leaves its loop. `RateLimiter` is the
chain of promises of one provider as the sequence of reservations not let go; buckets and
chains are per provider. `Merged` is the bucket after a response, whose headers may be of
an older request.

### Translation, ToolSchemas

`Translation` is one conversation over several requests. The server streams blocks
(`Begin`, `Fill`, `Sign`, `BlockStop`, and for OpenAI `CallDone`) and may leave stops out or
break; `Heard` and `Ended` are the accumulator, `Finish` the handle, `Results` and `Say` what
the turn loop adds, `SendMessages` the next request: the replay (Anthropic), the delta (OpenAI) or
the rebuilt history (`Fallback`). Left out: OpenAI's fallback to a conversation, custom
tools, several thinking blocks merged into one (they keep the last signature).

`ToolSchemas` takes schemas of bounded depth over objects, arrays and leaves, with limits,
`additionalProperties`, required keys and enums (of a type, or alone); lifts them as each builder does; lets the
provider sample what the lifted schema admits; and checks it with `validateSchema`
(`Accepts`, which does not look at enums). A call is `Reachable` if it can be sampled under
what was sent; `NothingExcluded` says which calls are: all that are `Proper`, but, for OpenAI, those
that leave out an optional key whose type has an enum. A manifest of tools is chosen under the
two limits of Anthropic. Left out: `anyOf`/`oneOf`/`allOf`, `const`, enums of other types
than strings, and `minItems` above 1.

### PhaseEngine, CompletionPolicy, Completion

`runPhaseEngine` from gather to its result: lanes with their timers, budgets, the first run
and the one after re-exploration, `Validate`, `Verify`, `Recover` and `Restore` with
`decideRecovery`. A validation is a set of validator runs, and `CompletionPolicy` reads it
the way `routeValidation`, `classifyValidationActionability` and the verifier's triggers
do, over the classes of commands that the regular expressions tell apart. The workspace
is a version number. Choices are what the model does, what validators find, what the
verifier says. Left out: synthesis texts and contexts, the lanes of a re-exploration, the
class of a failure but for the repeated one.

`Completion` is what all this promises: an outcome is reported only if it is the verdict
of a validation of the workspace as it is.

### Validation, Exploration, Subagents

`Validation` is the ladder of `discoverValidators`, one action per rung, over a task text
that is a set of claims and a workspace that is a set of features; then the runner on the
first four candidates that pass the shape check: `Spawn`, `ProcessEnds`, `TimesOut`,
`PipesClose`, `Classify`. A command is a name; sets say what the expressions match. The features of
a workspace are its files and the programs that are installed, which the fallbacks ask for.
`Runs` says of the candidates of a rung that one of them passes the shape check, `SearchDue` that
no earlier rung has a candidate, a refused one included, so that the repository is searched.
Left out: `mypy.ini`, a manifest that cannot be parsed.

`Exploration` is the lane that benchmarks give to a child process: the parent spawns it
(`Spawn`), reads one line under a deadline, waits for the exit, kills; the child boots,
saves a checkpoint, copies the workspace, asks the model, runs validators in the copy,
removes it and prints. `Dies` ends a process that was sent SIGKILL, or crashes it anywhere.

`Subagents` is `runSubagentJson` (gather with tools, one structured final run, one retry) and
`runSynthesis`, each under `runWithPhaseBudget`, whose timer answers the caller while the
call goes on. A response costs one unit.

### Checkpoint, Snapshots, FileEdits, SymbolIndex

`Checkpoint` has the workspace, the repository (`disk`), the manifests and two callers. Each
git command is a step that may fail before its effect, after it, or leave `index.lock`
(`StepFails`, `Killed`), and the process may die (`Crash`). Paths have classes: ignored,
large, excluded, nested, LFS. `Snapshots` is the promise: a save that was answered is
kept, a restore keeps what it changes before it does, and "verified" is said of nothing
but the target. It is made while no job edits behind a call's back (`BackgroundWrites` is
FALSE in the run and in the theorem); failures, kills and crashes are allowed anywhere.

`FileEdits` has texts as sequences of lines, the map of what was read, readers that stat,
read and record one after the other, the edits of the agent, and others that write, move
and delete at any time; a write may be seen torn. Hunks are placed as `applyOneHunk` does,
at the shifted line, then further and further away up to `Window`.

`SymbolIndex` has lookups that walk, stat, read and store file by file in one shared index.

### Autonomous, VerificationGate

`Autonomous` is the process: the main thread through set-up, engine, result files, the catch
block and `finally`; the handlers of SIGTERM and SIGINT and the watchdog, which call
`writePartialTimeoutArtifacts` beside it; and `Exit`. The catch block returns the promise of the
partial files, so `finally` runs before they are written (`CatchAborted`, `Finally`, `CatchWaits`).
File writes succeed.

`VerificationGate` lists the models, then calls the probes of each provider, in groups side
by side with one call after another inside a group, with retries and lost requests, and
certifies.

## Runs

| Run | Question | Distinct states |
|---|---|---|
| `store` | is there one holder with one lock file until a process dies; is what was acknowledged still on file when they do? | 495,289 |
| `chat` | is everything said before the model, nothing from before a reset, and every message well formed and true? | 2,073,598 |
| `tools` | are serial calls alone, all calls answered, counters earned, reports true; does everything end? | 736,373 |
| `workspace` | is what is called fresh, saved, verified, strict or certified really so? | 1,391,228 |
| `engine` | is the outcome about the workspace left behind, is what a rung finds listed, are children killed, costs counted; does the task end? | 929,175 |
| `stream` | who is let through, what is retried, how far apart do throttled requests go out; does every wait end? | 1,598,365 |

A property that joins named parts (`SteadyReaches`, `HistoryTold`, `Earned`, `ToldTruly`,
`BestLead`, `Accounted`, `PartEnds`, ...) is a conjunction of properties of component
modules; their comments say what each part states. A run and a theorem speak of the same
definition: what a theorem states is in the component's module, or in `EngineParts` or
`ToolParts`, and only what TLC alone checks is defined in an MC module.

Six runs end in a violation, each a statement of the repository that the code
does not keep:

* `stale_lock`. Two processes read the lock of a dead one; the first removes it and
  creates its own, the second removes that one (`session-store.ts:625` removes by
  path) and creates its own: both hold the session. The test
  `session-store.test.ts:319` claims to prevent "two active handles for the same
  session". `LockExclusion` and `HolderOwnsLock` therefore hold only until a process dies or
  a session is deleted, which is what `HeldUntilStruck` says.
* `chat_turn_limit`. A run stopped by `maxTurns` has results in its history that the
  provider never saw; `chat.ts:531` counts them as delivered, so the next message
  resumes without them, and the provider is left with unanswered calls.
* `low_evidence`. `routeValidation` rules out a set of validators that are all
  fallbacks (`completion-policy.ts:58`), all weak (84) or all insufficient (93). An
  existence test of a claimed file and a fallback compile (`tsc --noEmit`), both of
  confidence low, are none of the three: the task is a success, although lines 10-12
  demand `validation_unknown`.
* `broken_stream`. A stream that breaks after a call was heard is sent again inside the
  adapter (`provider-anthropic/src/adapter.ts:353-362`,
  `provider-openai/src/adapter.ts:429-440`); the accumulator of the turn keeps the calls
  of both attempts, so the next request has results that answer no call, where lines
  295-297 speak of "a well-formed conversation". In `chat` streams break before their
  first event only.
* `strict_nulls`. For OpenAI every optional key becomes required and nullable
  (`provider-openai/src/request-builder.ts:416`), and the tool loop refuses the null
  that comes back: a strictly sampled call can be a bad call, against "match the JSON
  Schema exactly" (`adapter.ts:61-63`). `StrictFits` takes such nulls out.
* `weak_gate`. The probe of the phase field takes every status but a 400 that names it
  for a proof (`live-probes.ts:250`), a 401 included, against "M0 cannot certify a
  capability it has not live-verified" (`run.ts:291`). `CertifiesProven` leaves it out.

### Bounds, and why they are enough

* `store`: three processes on one session, because the races need a dead owner
  and two contenders; no operation reads two sessions. Two appends make one torn write
  and one glued onto it. Every fault may strike, at any time or never.
* `chat`: a defect needs a message that fills the context, a command or a failure, and a
  message that shows the loss. `commands` has two messages, two of the commands and a crash
  in any order; `delivery` three messages, each with the failures of a request, and preset
  switches; `resume` three messages, three of resume, exit and compact, and three
  conversations, without failures. In `wire` three requests of up to three blocks: an answer
  with two calls, one that follows it and a replay of both.
* `tools`: two calls suffice to run beside each other or not, three batches to open the
  overwrite window, use it and try again; three assets of size 1 or 2 against limits of 2 on
  their number and 3 on their size, so that each limit is the one that refuses. Three
  answers and two strikes, so that a nudge, its forced request and the limit all occur;
  two failures in a row suppress a tool; one search reaches the advice. Two workers on
  one query meet in the cache. The command in benchmark mode, where the watchdog acts.
* `workspace`: three paths (kept, ignored, excluded), two contents of which one is a
  symbolic link, two commits, one failure, two callers; two files, two readers, texts up to
  three lines of two kinds so that lines repeat, a window of 3, three writes; two lookups
  of one file that changes twice; tools with up to four optional keys against limits of 2
  and 3; one probe of every kind of the gate, and one that needs another's answer, one retry.
* `engine`: all five attempts occur, so the whole ladder does; two edits suffice for a
  checkpoint between two versions; two turns for a first run that uses them up and one
  that follows; a lane that is late. The calls in `Calls` differ in what the engine
  branches on. Task texts with one claim meet every workspace with one feature, and the
  groups of features whose rungs compete, with nothing installed and with everything; texts with two claims meet an empty workspace. Two
  probes, since a kill may come between them. Two subagent calls, for
  one that was given up beside one that follows.
* `stream`: two failures open the circuit; the retries of one request open it again
  while the other waits; `OpenFor` 2 and a clock up to 2 let it expire, `Window` 1 lets a
  failure leave the window. One fault of each kind: before and in the stream, transient or
  not, the strict refusal, the abort. Three reservations: one that sleeps, one behind it,
  one that comes when the quota has changed; a quota of 20 with 1 or 2 left is on
  either side of a tenth.

Symmetry is used over the processes in `store` and the two conversations all parts of
`chat` share, which no definition distinguishes, and only there: neither run has a
temporal property. Deadlock is not checked, because every part stops: a bound is reached,
every process has exited, every request is over. That nothing stops too early is what
`PartEnds` and `WaitsEnd` say.

### Fairness

* A run of the agent, `WF(RunnerStep)`: it is one async function that is always awaiting the
  provider or a batch. The adapters abort a stream that is silent for 120 s and bound their
  retries.
* A batch, `WF(SchedulerStep)`: tools run under time limits of their own, and `canUseTool`
  answers. Nothing is assumed of the next batch.
* A shell call: its own steps and timers; the caller's abort comes, once there is one; the ends
  of pipes come only from the stream deadline, never from the processes that hold them.
* The network: the timers (`Timeout`) only; a server may never answer, so a `HEAD` request is
  not promised to end.
* The command: its main thread and each writer, whose files can be written. Signals and the
  watchdog owe nothing.
* A request, `WF(Progress(r))`: waits of the policy are timers, and the watchdog bounds waiting
  for the server. No fairness for aborts, ticks or new requests. The limiter, `WF(Passage)`:
  its sleeps are timers.
* A task, `WF(Engine)` and `WF(Timers)`: runs of the agent end (`TurnRunner`), validators have
  time limits, budgets are timers. Lanes are fair outside benchmark mode only.
* Discovery and the runner: their steps and timers; a validator need not end by itself, and
  what holds its pipe after it need not let go: `PipesClose` is also the deadline of
  `readTail`. The exploratory lane: its timers, the parent's steps, and the end
  of a process that was sent SIGKILL; the child may hang anywhere.
* The store, the chat and the workspace have none: nothing there must happen.

Fairness is stated for the part that runs: one conjunct may join steps of different parts,
since no behaviour can take steps of two.

## Proofs

`tlapm` proves, for every number of processes, sessions, messages, turns, calls, files and
probes, and for every limit:

* `SessionStoreProofs`: `TypeCorrect`, and `Exclusion`, which is about the time before the
  first fault. `LockExclusion` follows from `HolderOwnsLock`: one file
  cannot name two holders. That is not inductive: it needs that a process between creating
  and writing the lock also owns the file, that whoever waits to remove a lock has seen a dead
  creator, which never is the case without deaths, and that the index is not asked for
  sessions being opened. `AppendsSurvive` is about every fault at any time.
  The property counts appends that returned, so `FileInv` also counts those that have
  written and not returned, and says who may be writing: a session is opened once, its file is
  blank until its opener writes, the meta line comes first, and a deletion under way
  is of a session that nobody opens again.
* `TurnRunnerProofs`: `TypeCorrect`, `HistoryIsTold`, `AllEarned`, `NothingIsLost` and
  `CallsAreAnswered` from one invariant, `IInv`. `HandleInv` is its core: a handle stands for
  the history up to the index the loop has delivered, by itself or through the conversation
  it names, at every stage of the fallback ladder. `AnsweredInv` says which calls still wait
  for their results, `NudgeInv` when a nudge is the last word, `FiledInv` what the file
  has of the history, `TurnInv` and `StrikeInv` that the counters are cardinalities of sets
  of answers, and `SuppressionInv` that a tool held back has its row of equal bad
  calls behind it. What a loop of the code computes is a recursive function of the model;
  `Recursion` shows that such functions exist and `Induction` that a property holds up to a
  bound, so facts about a whole batch or a whole file are proved for every length.
* `ChatSessionProofs`, on top of the theorems about a run: `ResetsHold`. Items are numbered as
  they are made, so "from before the reset" is a bound; `LeakInv` says that no item in the
  history, in any of the three handles or in a conversation that is still referred to is
  older. The file and the provider keep what is older (`KeptInv`), which is why a handle or a
  conversation may not come back. `ChatDelivers` is about a chat as long as it is `steady`:
  each of the events that end this does lose items (see below). `SteadyInv` carries the
  invariant of a run across the end of one and the start of the next: between runs the
  chat's handle stands for its history up to the delivered length (`StandsFor`), and a run that
  was not cut ends with nothing left to deliver (`AllDelivered`).
  `SessionReaches` is about a chat as long as it is `intact`. The items on file and the last
  handle are a fold and a maximum over its lines; `FileInv` says of each stage how the two go
  together: without a nudge everything in a history is filed, the last handle has, in its
  conversation or in what was compacted into it, all on file but a message whose run has not
  started (`Said`), and in a run it becomes the run's handle with the answer, one line
  before the answer itself. A chat rebuilt from the file is then where the file is.
* `StreamProofs`: `BreakerHolds` and `BreakerOpensForCause`. The breaker forgets failures as
  they leave its window and the properties speak of the whole log: `BreakerInv` says what the
  few fields still know of it (`Kept`, `Dropped`, `Held`). `RetriesUsed` by `RetryInv`;
  `Spacing` by `LimiterInv`: a reservation behind another has its whole sleep ahead, the
  first has slept as long as nothing went out.
* `ToolProofs`: `Alone`, `Complete` and `Budgeted` of the scheduler. `LoopInv` says what the
  loop knows at each stage: only function tools run while it walks, calls it has
  passed are answered or running, a serial call runs by itself at `next`, nothing
  runs in between batches. `BudgetInv` says that the calls measured so far, and the bytes of their
  assets, counted as a set (`BytesOf`), are no more than the two counters; what is attached is
  among them, since a call that was not measured fails. `OverwritesEarned`: `OverwriteInv` ties the paths that are
  open to mismatches of the trace that no patch has followed. `BlocklistHolds`
  (`WebInv`: what a bundle holds was filtered before it is kept, and only moves from then on).
  `ReportsAreTrue` (`ShellInv`: a code is there as soon as a child ended by itself; `CommandInv`:
  what is on file is what the outcome of the command was). `OneWriter`: the property counts
  writers; `WritersInv` speaks of two of them, and adds that whoever writes has the claim,
  which is never given back.
* `EngineProofs`: `Refinement`, the engine implements `Completion`. Inductive is
  `IInv`: in every phase that reads the validation it is of the workspace as it is
  (`Current`), and in recovery it routes to a failure; a new version is newer than the last
  validation (`Versions`). `FreshDecisions` follows from the same invariant. `RestoreTarget`
  needs that before the first attempt nothing is saved and after it the checkpoint is the
  workspace it began with, or one was missed; `NoOrphans` that in gather only lanes that
  were signalled or answered have left the list. `NoneLeft`: a lane may answer while the
  parent function is before the spawn, reading, or past the wait; the invariant says of each
  of the three why no child goes on unnoticed: there is none, the parent listens to the
  signal, or it was killed. `SpentOnce`: the three counts have an invariant each, `CallsInv`,
  `TurnsInv` and `LadderInv`; the first also gives `GivenUpIsQuiet`.
  `ValidatorsFound` and `BestCommandLeads` go down the ladder of discovery: `RungInv` says of
  each rung which claims and features it has answered for (`Answered`), that nothing collected
  so far is a placeholder, and what a rung that was passed rules out (`Silence`). A duplicate
  is left out only for the same command, so it does not take an answer away. `Filtered`, by induction,
  says what is left of a list. The texts and workspaces are any sets: a claim or a feature the
  module does not know yields nothing. The limits on candidates and on runs are above 0 (`Bounded`).
* `WorkspaceProofs`: `ShownIsFresh`. Files move and a read takes the time before the text, so
  freshness is no invariant of one file: an mtime is given once (`Unique`), a record never
  disagrees with a file of its mtime under any name (`Agree`), and a file seen by a
  read under way, if it is still there, is where it was (`Undisturbed`). The steps of
  a patch of several files go by the last section of each file. `ReverseTakesBack` says of any
  number of hunks what `ReversesRestore` needs of one: the lines of a text that ends in a
  newline make that text again (`TextIs`, `LinesOf`), the stages of a patch are lines or nothing
  (`PatchedIs`), and the reverse patch, whose old side is the whole file at line 1, fits there,
  the first place tried. `ReversesRestore` adds that every file holds lines
  (`Texts`), whatever wrote it; of `search_replace` with all occurrences that is an induction along the text. `LookupIsFresh`: `IndexInv` says
  of a lookup that is alone that the files it has passed are covered, by an entry
  whose stamp is the file's, and `Trusted` that
  such an entry has the file's text. `CertifiedIsProven`: the gate looks at outcomes; the
  invariant remembers the answers on the way: a probe under way has its earlier turn behind
  it, an available one exactly the answers it needs.
  `Implements`: the checkpoint store implements `Snapshots` if no job edits while a
  call is under way. `CallInv` says what a call knows at each git command: staged files are
  the files until they are committed, HEAD and the call's own commit exist, a restore has what
  it found among the commits from its commit on, after `clean` nothing is left that
  `reset` would not remove. A restore is alone (`RestoresAlone`); saves side by side keep each
  other's knowledge since they see the same files. `Effect` is what a step may do to the
  others and to the promise, so that each git command is looked at once.
* `TranslationProofs`: `CallsStayTrue`, `ReplayStaysTrue` and `ConversationStaysWellFormed`, for any number of requests, blocks
  and breaks of a stream that nobody has heard of. What a request shows is joined and selected
  from many lists, so the module begins with lemmas about that: `Flat(s, f)` is what the
  elements of `s` stand for, one after the other, and `FlattenSeq`, `Among`, `Items` and
  `Folded` all come to it (`FlatJoin`, `FlatFlat`, `ItemsFolded`). `TranslatorInv` says what
  the translator has of the answer so far (Anthropic: one block open at most, the parts of the
  others in the message; OpenAI: every block, with what has ended), `CallsHeard` that the
  accumulator has the calls of the answer in order, with the arguments of those that ended, and
  `Views` that the history, the replay buffer, the server and the tools all have the calls of
  the answers accepted so far, that only messages of the user lie between the handle and the
  end of the history, and that in an unbroken chain of handles the replay buffer is, part for
  part, what was streamed. `Own` and `Told` are what the model itself said, by the messages and
  by the items. `WellFormed` needs an invariant of its own (`AnswersInvariant`): it says nothing
  between requests, when the history may end with calls nobody has answered. `AnswersInv` says that what
  the next request would show, from the history or over the handle, is a conversation the
  provider accepts once the results that are `Due` follow it (`Sound`), and that the blocks
  that stream have other ids than the calls that ran. `Answered` names for each call the item
  of its result and the other way round; it survives what each builder does, because putting two conversations
  of different ids one after the other keeps it (`AnsweredJoined`), and so do items that
  neither call nor answer in between (`EmbedsAnswered`) and a prune, which
  leaves every part in its place with its type and its id (`PrunedAlike`).

Assumptions are the named ASSUMEs of the modules, which TLC evaluates in the runs that extend
them: what the bounds are (any natural numbers), the five kinds of tools the scheduler tells
apart (`KindsAssumption`), that a mark for "nothing" is no code, no outcome and no text
(`UnsetAssumption`, `UnsetIsNoResult`, `NoTextAssumption`, `EditAssumption`), that a delay is a number (`DelayAssumption`), and that
a chat gives its runs no validators and is not in benchmark mode (`ChatAssumption`; `chat.ts`
passes neither). Three kinds of theorems have a hypothesis: `Bounded` says that the limits of
`Validation`, which is instantiated and not extended, are above 0, `Implements` that no job edits behind a call's back, and those of
`Translation` that no stream breaks after an event of it was passed on and is retried
(`~LateBreaks`; the run `broken_stream` shows what happens otherwise).

Only model-checked: all liveness; `StrictFits` and `NothingExcluded` of `ToolSchemas`, which
compute over nested schemas with RECURSIVE operators, where a proof would be an induction over
data.

## What the models also show

Facts that came up in modelling. No run is kept for them, and the properties above
are stated so that they do not speak of these cases.

Sessions, turns and chat

* A process that dies between creating and writing a lock leaves an empty file, which
  `acquireLock` (`session-store.ts:632`) answers with "unreadable lock" from then on. One torn
  line makes `readSnapshot` throw, so such a session (`session-store.ts:127`) cannot be
  loaded, although the header says that the JSONL can be "replayed into a provider after a
  crash".
* The forced tool choice is used up by a request that fails (`turn-runner.ts:300`, against
  91-93). A nudge is never stored (`turn-runner.ts:448`, against 63-64).
* `/clear` leaves handle and delivered length (`commands.ts:119`): the next message is
  not sent. After a crash, and after a `/resume` of a session whose last handle is a
  fresh conversation, items on file are never sent (`chat.ts:379`, `chat.ts:209`). When
  the first resume of a compacted context fails, the fallback is the empty conversation
  (`turn-runner.ts:767`). A run that throws has stored items the chat's history lacks. A
  replay of the local history into a conversation that has part of it repeats items.
* The recovery overwrite stays open until used, on whatever turn (`patch-recovery.ts:121`;
  README.md:73 says the next one). An allowed call reports `permission_decision` before
  `tool_called` (`tool-loop.ts:268`; README.md:72 has them the other way round).

Providers

* A transient error event of OpenAI is not retried, since the consumer leaves at the
  event (`adapter.ts:384`, against 392-393); hence the exception in `TransientRetried`.
  The watchdog's abort before the response headers is not transient either
  (`adapter.ts:406`, against 52-56). Every attempt counts for the breaker, user aborts
  and refusals too, and a request in its retries does not ask it again
  (`adapter.ts:319`, `432`; `circuit-breaker.ts:5-7`). Half-open lets every request through.
* A low bucket stays low until a response says otherwise: reset times are never read, a reservation
  does not hear an abort, and headers of an older request overwrite newer ones.
* A tool call whose stop event is lost runs with no arguments, while the replay shows the
  parsed ones. Several thinking blocks become one with the last signature.
* For OpenAI an optional key with an enum can be neither left out nor null: `makeNullable` adds
  null to the type and not to the enum (`request-builder.ts:450`, against "optional fields
  expressed as type unions" with null, line 327), so `checkpoint_save` cannot be called without a
  reason. `NothingExcluded` says that these calls, and no others, are out of reach;
  `OptionalLeftOut` says that none is, and does not hold.

Engine

* The turns of both runs can exceed `maxTurns` by one (`phase-engine.ts:464`); when too little
  time is left for the second, its turns are not used at all (412-416).
* A checkpoint that could not be saved is saved in a later attempt (`phase-engine.ts:543`) and
  may then hold edits of recovery, against "pre-recovery checkpoint"
  (`recovery-engine.ts:116`); hence `missed`. What `restore` reports is not looked at, and
  one that throws ends the task (`phase-engine.ts:677`), as does any request that throws.
* `decideRecovery` cannot give up by exhaustion (`phase-engine.ts:509`, `recovery-engine.ts:64`).
  When gather's budget expires the results of lanes that had finished are given up with the
  rest (`phase-engine.ts:332`). After an abort the recovery loop still validates and decides.
* Four claimed files crowd out every validator of a manifest (`slice(0, 4)`,
  `phase-engine.ts:2355`). A validator killed from outside counts as failed. `timeout 60
  pytest` and every `bundle exec rspec` are refused by the shape check, although the header of
  the discoverer (10-12) names the Gemfile; the workflows it names (14) are not read. The
  repository is searched for tests when there is no candidate yet (`discoverer.ts:152`), and one that
  the shape check will refuse counts: a Gemfile with a spec directory may get no validator,
  although the specs alone would get one (against lines 4-5: "only when earlier rungs produced
  nothing concrete"). `NothingMissed` makes this one exception, by `SearchDue`; `SearchAdds` makes
  none and does not hold. The probe `test -s out` takes the binary
  "test", so that a bare `cargo test` is dropped (`discoverer.ts:376-378` speaks of the same
  binary); `BareNamed` states it and does not hold.
* What a killed exploratory child has started goes on, and may save a checkpoint beside the
  parent's; its copy of the workspace stays (`phase-engine.ts:1433-1436` says it is cleaned up).
  The lane's timer fires before the equal deadline of the read.
* The tokens of a call that was given up, of one that threw, and of the failed first
  attempt of synthesis are never counted. A call that was given up still emits events.

Files, shell, network

* An `index.lock` left by a killed git command blocks every later save; an `init` that is
  interrupted after `git init` is never completed; of two saves side by side one may answer with
  the other's commit; a job that goes on editing breaks a restore (`BackgroundWrites`).
  After a restore `list` does not show later commits. A dangling symlink, an ignored or an LFS
  file makes a restore "unverified". The commit a restore makes first may fail unnoticed:
  `RestoreUndoable` states what it does not give.
* Two sections of a patch for one file: the later one drops the earlier. A patch that creates a
  file overwrites one that exists, and its reverse is refused. A hunk is tried at its shifted
  line, then one line after, one before and so on (`apply.ts:184-188` speaks of strict
  equality), so that repeated lines are hit wrongly: `AppliesAsWritten` does not hold. A removed
  line that starts with "-- " reads as a header. An error in a later file leaves the earlier
  ones written. `write_file` neither records nor clears; `move_file` leaves the record
  of its target; an own write leaves a file unprotected until the next read; a change that
  keeps size and time is not seen.
* A user's abort of a shell command is reported as a timeout. An exception while stdin is
  written leaves the child running.
* The search cache ignores the number of results and the overview flag; two searches for one
  query side by side both go out (`cache.ts:5` speaks of determinism); another provider
  does not clear it. `HEAD` has no timer. `fetch_url` does not ask the blocklist.
* Overlapping lookups may store older symbols under an older stamp, which the next one alone
  repairs; a file that outgrows the limit keeps its symbols.

Command and gate

* Partial flushes of the trajectory are not awaited; the event file can be truncated by two first
  writes; the log is read and rewritten. A hang before the first phase is never aborted by
  the watchdog; a second SIGTERM kills. A signal after the write of `result.json` changes what
  is printed (`help.ts:68` says it is the same JSON): `PrintedIsOnDisk` does not hold.
* Listing the models has no timer. A probe whose retries all fail throws, and no artifact is
  written.

## Not modelled

* Permission classifier: one pure function from a command text to a tier, by regular
  expressions. A model would repeat the expressions; `ToolScheduler` lets it answer anything.
* Job tools: `jobs.ts` calls `../jobs/job-manager.ts`, which is not in the repository.
* Orchestrator and runner wrappers, configuration, project documents: types, and files that are
  read once before anything runs.
* Event log and redaction: observers. Evals, the Harbor agent and the Landlock helper: around the
  program.
* Of modelled components: `list` and `verify` of checkpoints (they only read), encodings and images
  of files, ranking and extraction in search, prompts and contexts of the engine, the calls of
  the adapters that do not stream, chat commands that change no conversation, and what the
  sections above name.

## What could come next

Type correctness of `PhaseEngine`.
