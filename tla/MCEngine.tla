------------------------------ MODULE MCEngine ------------------------------
(***************************************************************************)
(* The engine of a task and what it waits for, for TLC: the phase engine,  *)
(* the discovery and running of validators, the exploratory lane with its  *)
(* child process, and the model calls beside the executor.  They meet      *)
(* through what they return, so a behaviour is one of a single part,       *)
(* chosen at the start; the others stay as they are.                       *)
(***************************************************************************)
EXTENDS MCPhaseEngine, EngineParts

VARIABLE part

ladderVars == <<task, site, rung, candidates, found, next, proc, exit, held, output, outcomes>>
callVars == <<benchmark, calls, made, subagentRuns, timeLeft>>
partVars == <<part, vars, laneVars, ladderVars, callVars>>
-----------------------------------------------------------------------------
(* What task texts may claim, one thing or two, and workspaces may hold. *)

Claims ==
  {"quoted pytest", "quoted install", "quoted path", "file", "second file", "port",
   "model cache", "provenance", "latex", "no overfull", "bare pytest", "bare cargo test",
   "bare make test", "run the tests"}
Installed == {"npx", "node", "python3", "mypy", "cargo", "go", "ruby", "make"}
Features ==
  {"src", "run_tests.sh", "verify.py", "package.json", "pyproject.toml", "pyproject pytest",
   "pyproject script", "Cargo.toml", "go.mod", "Makefile", "composer.json", "Gemfile",
   "tests/*.py", "tests/*.ts", "jest.config", "vitest.config", "tsconfig.json",
   "specs/*.py", "specs/*.ts", "/tests", "*.js", "*.py", "*.rb"}
Trees ==
  {{}} \cup {{f} : f \in Features} \cup
  {{"pyproject pytest", "pyproject script", "*.py"}, {"pyproject script", "specs/*.py"},
   {"tsconfig.json", "package.json"}, {"tsconfig.json", "*.js"}, {"Makefile", "tests/*.py"},
   {"Gemfile", "*.rb"}, {"Gemfile", "specs/*.ts"}, {"run_tests.sh", "verify.py"},
   {"src", "Makefile"}}
\* With nothing installed, and with everything.
Sites == Trees \cup {tree \cup Installed : tree \in Trees}
Texts == {{}} \cup {{a, b} : a, b \in Claims}
-----------------------------------------------------------------------------
\* A task text with two claims meets an empty workspace.
TaskOrSite ==
  IF part = "ladder" THEN Cardinality(task) < 2 \/ site = {} ELSE task = {} /\ site = {}

PartsInit ==
  /\ part \in {"engine", "ladder", "lane", "side"}
  /\ Init /\ (part # "engine" => opts = Bench)
  /\ LaneInit
  /\ Ladder!ValidationInit /\ TaskOrSite
  /\ Side!SubagentInit /\ (part # "side" => benchmark)

Only(own) ==
  /\ part' = part /\ part = own
  /\ own # "engine" => UNCHANGED vars
  /\ own # "lane" => UNCHANGED laneVars
  /\ own # "ladder" => UNCHANGED ladderVars
  /\ own # "side" => UNCHANGED callVars

PartsNext ==
  \/ Only("engine") /\ Next
  \/ Only("lane") /\ LaneNext
  \/ Only("ladder") /\ Ladder!ValidationNext
  \/ Only("side") /\ Side!SubagentNext

\* The fairness of each part, for the part that runs.
PartsFairness ==
  /\ WF_partVars(\/ Only("engine") /\ Engine
                 \/ Only("ladder") /\ rung # "run" /\ Ladder!ValidationNext
                 \/ Only("lane") /\ LaneTimer)
  /\ WF_partVars(\/ Only("engine") /\ Timers
                 \/ Only("ladder") /\ Ladder!RunnerStep
                 \/ Only("lane") /\ LaneAnswer)
  /\ WF_partVars(\/ Only("engine") /\ ~opts.benchmark /\ LaneEnds("scout")
                 \/ Only("lane") /\ ParentStep)
  /\ WF_partVars(Only("lane") /\ killed /\ Dies)

PartsSpec == PartsInit /\ [][PartsNext]_partVars /\ PartsFairness

Finished ==
  CASE part = "engine" -> pc \in Final
    [] part = "ladder" -> Ladder!Listed /\ Len(outcomes) = Len(Ladder!Chosen)
    [] part = "lane" -> parent = "over" /\ child # "running" /\ Settled
    [] OTHER -> TRUE

\* Whatever is going on comes to its end: Ends, ValidationEnds and LaneCloses at
\* once (each of these ends is for good, so that []<> says no less than <>).
PartEnds == []<>Finished
=============================================================================
