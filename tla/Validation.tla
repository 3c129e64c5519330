----------------------------- MODULE Validation -----------------------------
(***************************************************************************)
(* How a task gets its validators and how they are run: the ladder of      *)
(* discoverValidators, from what the task text claims over what the        *)
(* repository declares to a syntax check, and the runner that executes the *)
(* first of them and classifies how each one ended.                        *)
(*                                                                         *)
(* A candidate is [cmd, confidence, source]. A command is a name; the sets *)
(* below say what its words are to the code. The task text is the set of   *)
(* claims the extractors recognize in it.                                  *)
(***************************************************************************)
EXTENDS Naturals, FiniteSets, SequencesExt

CONSTANTS
  Tasks,          \* task texts: sets of claims
  Workspaces,     \* workspaces: sets of features
  MaxCandidates,  \* maxCandidates
  MaxRuns         \* validators run per validation

VARIABLES
  task, workspace,  \* the claims and the features of this task
  rung,             \* the step of the ladder
  candidates,       \* collected so far
  found,            \* finalized
  next,             \* index of the candidate to run
  proc,             \* its process: "none", "running", "exited", "killed"
  exit,             \* its exit code once it ended: 0, 1, 137 or -1 (by a signal)
  held,             \* a descendant keeps its pipes open
  output,           \* what the runner sees in the output
  outcomes          \* validatorsRun

validationVars == <<task, workspace, rung, candidates, found, next, proc, exit,
                    held, output, outcomes>>

Candidate(cmd, confidence, source) ==
  [cmd |-> cmd, confidence |-> confidence, source |-> source]
Has(f) == f \in workspace
\* However the text says it: ports, endpoints and warnings have several forms.
Says(c) == c \in task
When(p, s) == IF p THEN s ELSE <<>>

\* Array.filter: the elements of s at the positions ps, in their order.
Filter(s, ps) ==
  LET kept[n \in 0..Len(s)] ==
        IF n = 0 THEN <<>>
        ELSE IF n \in ps THEN Append(kept[n - 1], s[n]) ELSE kept[n - 1]
  IN kept[Len(s)]
----------------------------------------------------------------------------
(* Which commands are commands: classifyValidatorCommandShape. *)

Setup == {"npm install"}
Paths == {"/app", "/app/data.csv"}
Placeholder == {"(run project test suite)"}
\* Neither a known validator nor a script: the words of a poetry script, and
\* bundle, which is not among the known commands.
Unknown == {"pkg.check:main", "bundle exec rspec"}
Shaped(cmd) == cmd \notin Setup \cup Paths \cup Unknown
Sane(c) == c.cmd \in Placeholder \/ Shaped(c.cmd)

\* The names a command is known by when duplicates are looked for.
First(cmd) ==
  CASE cmd \in {"test -s out", "test -s log", "test -d src"} -> "test"
    [] cmd \in {"python3 -m pytest -q", "python3 -c load"} -> "python3"
    [] cmd = "cargo test" -> "cargo"
    [] cmd = "make test" -> "make"
    [] cmd \in {"pytest tests", "curl port"} -> IF cmd = "curl port" THEN "curl" ELSE "pytest"
    [] OTHER -> cmd
Binaries(cmd) ==
  CASE cmd = "python3 -m pytest -q" -> {"python3", "pytest"}
    [] cmd = "cargo test" -> {"cargo", "test"}
    [] cmd = "make test" -> {"make", "test"}
    [] OTHER -> {First(cmd)}
----------------------------------------------------------------------------
(* Rung 1: extractFromInstruction. *)

FromTask(cmd, confidence) == Candidate(cmd, confidence, "task_instruction")

\* Backticked commands near validator words; junk in backticks is left out.
Quotes ==
  When(Says("quoted pytest"), <<FromTask("pytest tests", "high")>>)
  \o When(Says("quoted install"), <<FromTask("npm install", "high")>>)
  \o When(Says("quoted path"), <<FromTask("/app", "high")>>)
Quoted == Filter(Quotes, {i \in DOMAIN Quotes : Shaped(Quotes[i].cmd)})

FileProbes ==
  When(Says("file"), <<FromTask("test -s out", "low")>>)
  \o When(Says("second file"), <<FromTask("test -s log", "low")>>)

PortProbes == When(Says("port"), <<FromTask("curl port", "medium")>>)

\* A model cache to load; a source directory when provenance is asked for.
SemanticProbes ==
  When(Says("model cache"), <<FromTask("python3 -c load", "medium")>>)
  \o When(Says("provenance") /\ Has("src"), <<FromTask("test -d src", "low")>>)

\* Validator binaries the prose names.
Bare ==
  When(Says("latex"), <<FromTask("pdflatex main.tex", "medium")>>)
  \o When(Says("bare pytest"), <<FromTask("python3 -m pytest -q", "medium")>>)
  \o When(Says("bare cargo test"), <<FromTask("cargo test", "medium")>>)
  \o When(Says("bare make test"), <<FromTask("make test", "medium")>>)

\* A bare command is left out when one of its names starts a command that was
\* already taken from the text, a probe included.
BareKept(taken) ==
  LET starts == {First(taken[i].cmd) : i \in DOMAIN taken}
  IN Filter(Bare, {i \in DOMAIN Bare : Binaries(Bare[i].cmd) \cap starts = {}})

WarningProbes ==
  When(Says("latex") /\ Says("no overfull"), <<FromTask("sh -c grep overfull", "medium")>>)

FromInstruction ==
  LET taken == Quoted \o FileProbes \o PortProbes \o SemanticProbes
      named == taken \o BareKept(taken) \o WarningProbes
  IN IF named = <<>> /\ Says("run the tests")
     THEN <<FromTask("(run project test suite)", "low")>> ELSE named

\* Placeholders are hints, and no candidates.
Proposed ==
  Filter(FromInstruction, {i \in DOMAIN FromInstruction : FromInstruction[i].cmd \notin Placeholder})
----------------------------------------------------------------------------
(* The rungs that read the workspace.  Its features are files, "specs" for a  *)
(* directory spec or specs, "Gemfile" for one with a spec directory, and the *)
(* commands that are installed. *)

Scripts ==
  When(Has("run_tests.sh"), <<Candidate("bash ./run_tests.sh", "high", "repo_manifest")>>)
  \o When(Has("verify.py"), <<Candidate("python3 ./verify.py", "high", "harbor_task_convention")>>)

Manifest(cmd) == Candidate(cmd, "medium", "repo_manifest")
FromManifest ==
  When(Has("package.json"), <<Manifest("npm run test")>>)
  \o When(Has("pyproject pytest"), <<Manifest("python3 -m pytest -q")>>)
  \o When(Has("pyproject script"), <<Manifest("pkg.check:main")>>)
  \o When(Has("Cargo.toml"), <<Manifest("cargo test")>>)
  \o When(Has("go.mod"), <<Manifest("go test ./...")>>)
  \o When(Has("Makefile"), <<Manifest("make test")>>)
  \o When(Has("composer.json"), <<Manifest("composer test")>>)
  \o When(Has("Gemfile"), <<Manifest("bundle exec rspec")>>)

Framework(cmd) == Candidate(cmd, "medium", "framework_convention")
FromFramework ==
  When(Has("tests/*.py") \/ Has("tests/*.ts"), <<Framework("python3 -m pytest -q")>>)
  \o When(Has("jest.config"), <<Framework("npx jest")>>)
  \o When(Has("vitest.config"), <<Framework("npx vitest run")>>)
  \o When(Has("tsconfig.json") /\ ~Has("package.json"), <<Framework("npx --no-install tsc --noEmit")>>)

FromSearch ==
  IF Has("specs/*.py") THEN <<Candidate("python3 -m pytest specs", "low", "repo_search")>>
  ELSE When(Has("specs/*.ts"), <<Candidate("npx jest specs", "low", "repo_search")>>)

FromHarbor == When(Has("/tests"), <<Candidate("bash /tests/test.sh", "high", "harbor_task_convention")>>)

\* discoverMinimalSafeFallback: of what the installed commands can check.
Safe(cmd) == Candidate(cmd, "low", "minimal_safe_fallback")
PyFiles == Has("*.py") \/ Has("tests/*.py") \/ Has("specs/*.py")
MypyConfig == Has("pyproject.toml") \/ Has("pyproject pytest") \/ Has("pyproject script")
Fallbacks ==
  (IF Has("tsconfig.json") /\ Has("npx") THEN <<Safe("npx tsc --noEmit")>>
   ELSE When(Has("*.js") /\ Has("node"), <<Safe("node --check")>>))
  \o When(PyFiles /\ Has("python3"), <<Safe("py_compile")>>)
  \o When(PyFiles /\ Has("python3") /\ MypyConfig /\ Has("mypy"), <<Safe("mypy .")>>)
  \o When(Has("Cargo.toml") /\ Has("cargo"), <<Safe("cargo check")>>)
  \o When(Has("go.mod") /\ Has("go"), <<Safe("go vet"), Safe("go build")>>)
  \o When(Has("*.rb") /\ Has("ruby"), <<Safe("ruby -c")>>)
  \o When(Has("Makefile") /\ Has("make"), <<Safe("make -n")>>)

\* finalizeDiscoveredCandidates
Finalized(cs) ==
  LET sane == Filter(cs, {i \in DOMAIN cs : Sane(cs[i])})
  IN SubSeq(sane, 1, IF Len(sane) < MaxCandidates THEN Len(sane) ELSE MaxCandidates)

\* A duplicate of an earlier rung's command is not listed again.
New(cs) ==
  Filter(cs, {k \in DOMAIN cs : \A i \in DOMAIN candidates : candidates[i].cmd # cs[k].cmd})
----------------------------------------------------------------------------
ValidationInit ==
  /\ task \in Tasks
  /\ workspace \in Workspaces
  /\ rung = "instruction"
  /\ candidates = <<>> /\ found = <<>>
  /\ next = 1 /\ proc = "none" /\ exit = 0 /\ held = FALSE /\ output = "plain"
  /\ outcomes = <<>>

ladder == <<task, workspace, rung, candidates, found>>
running == <<next, proc, exit, held, output, outcomes>>

Settle(cs) == found' = Finalized(cs) /\ rung' = "run" /\ candidates' = <<>>
Climb(cs, to) == candidates' = candidates \o cs /\ rung' = to /\ UNCHANGED found

\* A quoted command settles it.
Instruction ==
  /\ rung = "instruction"
  /\ IF \E i \in DOMAIN Proposed : Proposed[i].confidence = "high"
     THEN Settle(Proposed) ELSE Climb(Proposed, "scripts")
  /\ UNCHANGED <<task, workspace, running>>

StrongAll(cs) == cs                                                      \* mutant
Strong(cs) == Filter(cs, {i \in DOMAIN cs : cs[i].confidence = "high"})

\* Scripts of the workspace settle it too, and the weak probes are dropped.
WorkspaceScripts ==
  /\ rung = "scripts"
  /\ IF Scripts # <<>> THEN Settle(Strong(candidates) \o Scripts) ELSE Climb(<<>>, "manifest")
  /\ UNCHANGED <<task, workspace, running>>

RepoManifest ==
  /\ rung = "manifest"
  /\ Climb(FromManifest, "framework")
  /\ UNCHANGED <<task, workspace, running>>

FrameworkConvention ==
  /\ rung = "framework"
  /\ Climb(New(FromFramework), "search")
  /\ UNCHANGED <<task, workspace, running>>

\* Only when there is no candidate yet, be it one the shape check will refuse.
RepoSearch ==
  /\ rung = "search"
  /\ Climb(IF candidates = <<>> THEN FromSearch ELSE <<>>, "harbor")
  /\ UNCHANGED <<task, workspace, running>>

HarborTests ==
  /\ rung = "harbor"
  /\ Climb(New(FromHarbor), "fallback")
  /\ UNCHANGED <<task, workspace, running>>

FallbackNone == <<>>                                                     \* mutant
FallbackNew == New(Fallbacks)
MinimalSafe ==
  /\ rung = "fallback"
  /\ Settle(candidates \o FallbackNew)
  /\ UNCHANGED <<task, workspace, running>>
----------------------------------------------------------------------------
(* validate and runValidator, one candidate after the other. *)

Chosen == SubSeq(Filter(found, {i \in DOMAIN found : Sane(found[i])}), 1,
                 IF Len(found) < MaxRuns THEN Len(found) ELSE MaxRuns)
Record(status) ==
  /\ outcomes' = Append(outcomes, [cmd |-> Chosen[next].cmd, status |-> status])
  /\ next' = next + 1
  /\ proc' = "none" /\ exit' = 0 /\ held' = FALSE /\ output' = "plain"

CanRun == rung = "run" /\ next <= Len(Chosen)

SpawnFails ==
  /\ CanRun /\ proc = "none"
  /\ Record("crash")
  /\ UNCHANGED ladder

Spawn ==
  /\ CanRun /\ proc = "none"
  /\ proc' = "running"
  /\ held' \in BOOLEAN
  /\ UNCHANGED <<ladder, next, exit, output, outcomes>>

\* It ends on its own, or a signal that is not the runner's ends it.
ProcessEnds(code, says) ==
  /\ CanRun /\ proc = "running"
  /\ proc' = "exited" /\ exit' = code /\ output' = says
  /\ UNCHANGED <<ladder, next, held, outcomes>>

\* The timer aborts it; whether or not it can be reaped, the runner goes on.
TimesOut ==
  /\ CanRun /\ proc = "running"
  /\ proc' = "killed" /\ exit' = -1
  /\ UNCHANGED <<ladder, next, held, output, outcomes>>

\* A mutant: nothing limits how long the output is read.
PipesCloseKindly ==
  /\ CanRun /\ proc = "exited" /\ held
  /\ held' = FALSE
  /\ UNCHANGED <<ladder, next, proc, exit, output, outcomes>>

\* A descendant lets go of the pipes, or the read deadline passes.
PipesClose ==
  /\ CanRun /\ proc \in {"exited", "killed"} /\ held
  /\ held' = FALSE
  /\ UNCHANGED <<ladder, next, proc, exit, output, outcomes>>

Status ==
  CASE proc = "killed" -> "crash"
    [] proc # "killed" /\ (exit = 137 \/ output = "no interpreter") -> "crash"
    [] proc # "killed" /\ exit = 0 /\ output # "no interpreter" ->
         IF output = "nothing tested" THEN "noop" ELSE "pass"
    [] OTHER -> "fail"

Classify ==
  /\ CanRun /\ proc \in {"exited", "killed"} /\ ~held
  /\ Record(Status)
  /\ UNCHANGED ladder

\* The runner itself: one thing after the other, each with its time limit.
RunnerStep == SpawnFails \/ Spawn \/ TimesOut \/ PipesClose \/ Classify

ValidationNext ==
  \/ Instruction \/ WorkspaceScripts \/ RepoManifest \/ FrameworkConvention
  \/ RepoSearch \/ HarborTests \/ MinimalSafe
  \/ RunnerStep
  \/ \E code \in {0, 1, 137, -1}, says \in {"plain", "nothing tested", "no interpreter"} :
        ProcessEnds(code, says)

\* The ladder and the runner are one sequential program, the timers of the
\* runner fire, and its read deadline passes.
ValidationSpec ==
  /\ ValidationInit /\ [][ValidationNext]_validationVars
  /\ WF_validationVars(rung # "run" /\ ValidationNext)
  /\ WF_validationVars(RunnerStep)
----------------------------------------------------------------------------
Listed == rung = "run"

\* What runs as a validator is a command that can check something: no path, no
\* setup step, no placeholder, from whichever rung it came.
NeverUnfit ==
  \A i \in DOMAIN outcomes : outcomes[i].cmd \notin Setup \cup Paths \cup Unknown \cup Placeholder

\* A command the task quotes, or a script of the workspace, leads: no weak probe
\* of the task text is run in its place.
StrongLeads ==
  (Listed /\ (Says("quoted pytest") \/ Scripts # <<>>)) =>
    /\ Chosen # <<>> /\ Chosen[1].confidence = "high"
    /\ ~Says("quoted pytest") => \A i \in DOMAIN found : found[i].confidence = "high"

\* Some candidate is a command that can run.
Runs(cs) == \E i \in DOMAIN cs : Shaped(cs[i].cmd)

\* The rungs before the search of the repository are silent: the search is due.
SearchDue == Proposed = <<>> /\ FromManifest = <<>> /\ FromFramework = <<>>

\* A task gets a validator if any rung has one that can run, whatever the other
\* rungs yield and the shape check then refuses.  The search of the repository is
\* the exception: any candidate of an earlier rung, a refused one too, is instead
\* of it (SearchAdds).
NothingMissed ==
  (/\ Listed
   /\ \/ Runs(Proposed) \/ Runs(Scripts) \/ Runs(FromManifest) \/ Runs(FromFramework)
      \/ Runs(FromHarbor) \/ Runs(Fallbacks)
      \/ SearchDue /\ Runs(FromSearch)) => found # <<>>

\* The tests a search of the repository finds are listed if nothing else is, as
\* the head of discoverer.ts says.  It does not hold: the rspec command of a
\* Gemfile keeps the search from being made, and is refused afterwards.
SearchAdds == Listed /\ Runs(FromSearch) => found # <<>>

\* A validator binary the text names is dropped only for a quoted command, of
\* which it is another spelling.  It does not hold: the probe of a claimed file
\* starts with "test", and "cargo test" is dropped for it.
BareNamed ==
  Listed => \A i \in DOMAIN Bare :
    (Len(FromInstruction) <= MaxCandidates /\ Scripts = <<>> /\ Quoted = <<>>) =>
      \E k \in DOMAIN found : found[k].cmd = Bare[i].cmd

\* Every validation ends, with an outcome for each validator that was chosen.
ValidationEnds == <>[](Listed /\ Len(outcomes) = Len(Chosen))
============================================================================
