----------------------------- MODULE EngineParts -----------------------------
(***************************************************************************)
(* The engine of a task with what it waits for: the phase engine and the   *)
(* exploratory lane, the discovery and running of validators (Ladder) and  *)
(* the model calls beside the executor (Side), each with variables of its  *)
(* own.  What is promised of these parts is stated here, for TLC and for   *)
(* the proofs.                                                             *)
(***************************************************************************)
EXTENDS PhaseEngine, Exploration

CONSTANTS
  MaxCalls, GatherTurns,                        \* of Subagents
  Tasks, Workspaces, MaxCandidates, MaxRuns     \* of Validation

VARIABLES
  task, site, rung, candidates, found, next, proc, exit, held, output, outcomes, \* Validation
  benchmark, calls, made, subagentRuns, timeLeft                                 \* Subagents

Side == INSTANCE Subagents WITH verifierRuns <- subagentRuns, left <- timeLeft
Ladder == INSTANCE Validation WITH workspace <- site
-----------------------------------------------------------------------------
\* discoverValidators lists something where a rung it climbs has something to run.
NothingMissed == Ladder!NothingMissed

\* A command the task quotes, or else a script of the workspace, runs first (the
\* script of /tests, found later, does not), and nothing unfit runs.
BestLead == Ladder!StrongLeads /\ Ladder!NeverUnfit

\* What a task may spend, it spends once: tokens of the calls beside the executor
\* are counted, both runs keep to maxTurns, and recovery climbs its ladder.
Accounted == Side!UsageCounted /\ TurnBudget /\ Climbs

\* A call that was given up sends nothing more: QuietOnceGivenUp of Subagents.
QuietOnceGivenUp == Side!QuietOnceGivenUp
=============================================================================
