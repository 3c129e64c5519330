----------------------------- MODULE Subagents -----------------------------
(***************************************************************************)
(* The model calls beside the executor: the strategy planner and the       *)
(* verifier (runSubagentJson: a run with tools to gather, a structured     *)
(* final run, one retry) and synthesis (two attempts, then a mechanical    *)
(* context).  Each runs under the budget of its phase: in a benchmark a    *)
(* timer gives the caller a degraded answer and aborts the call, whose     *)
(* promise goes on on its own.  A response costs one unit of usage.        *)
(***************************************************************************)
EXTENDS Naturals, FiniteSets

CONSTANTS
  MaxCalls,     \* calls in a task
  GatherTurns   \* turns of the gathering run, 1 or 2 in the code

VARIABLES
  benchmark,    \* the task has budgets and a deadline
  calls,        \* the calls of the task, in order
  made,         \* how many have been made
  verifierRuns,
  left          \* time to the deadline: 2, 1 (below 90 s), 0 (below 20 s)

subagentVars == <<benchmark, calls, made, verifierRuns, left>>

Indices == 1..MaxCalls
Kinds == {"strategy_planner", "verifier", "synthesis"}
\* Where a call is; "first" and "second" are the attempts of synthesis.
Steps == {"gather", "final", "retry", "first", "second"}

Unmade ==
  [kind |-> "none", at |-> "over", caller |-> "none", aborted |-> FALSE, asking |-> FALSE,
   turns |-> 0, run |-> 0, said |-> FALSE, usage |-> 0, spent |-> 0]

SubagentInit ==
  /\ benchmark \in BOOLEAN
  /\ calls = [i \in Indices |-> Unmade]
  /\ made = 0 /\ verifierRuns = 0 /\ left = 2

Open(i) == calls[i].at \in Steps
Waiting(i) == calls[i].caller = "waiting"
Limit(c) == IF c.at = "gather" THEN GatherTurns ELSE 1
Update(i, c) == calls' = [calls EXCEPT ![i] = c]
----------------------------------------------------------------------------
(* How a call ends for its caller, unless it has given up.                 *)

\* The first text that holds a JSON object is the value, with the usage so far.
Return(c) ==
  [c EXCEPT !.at = "over", !.asking = FALSE, !.run = 0,
     !.caller = IF @ = "waiting" THEN "answered" ELSE @]
\* strategyPlanner falls back to its heuristic, maybeRunVerifier to a result of
\* low confidence, runSynthesis to a mechanical context: all with no usage.
Degrade(c) ==
  [c EXCEPT !.at = "over", !.asking = FALSE, !.run = 0,
     !.caller = IF @ = "waiting" THEN "degraded" ELSE @]

\* The next run: a history, a result and turns of its own.
NextRun(c, at) == [c EXCEPT !.at = at, !.asking = FALSE, !.turns = 0, !.run = 0]

\* Mutant: the usage of the retry alone.
AddedLast(c) == [c EXCEPT !.usage = c.run]
\* addUsage; an attempt of synthesis starts at nothing.
Added(c) == [c EXCEPT !.usage = (IF c.at = "second" THEN 0 ELSE @) + c.run]

\* The texts of assistants that are tried for a JSON object: the last one first,
\* then what they said while gathering.
Useful(c, json) == json \/ c.said

\* A run of the turn loop is over; json: its last text holds a JSON object.
RunOver(c, json) ==
  LET a == Added(c) IN
  CASE c.at = "gather" -> NextRun([a EXCEPT !.said = @ \/ json], "final")
    [] c.at = "final" /\ Useful(c, json) -> Return(a)
    [] c.at = "final" /\ ~Useful(c, json) ->
         IF benchmark /\ left = 0 THEN Degrade(a) ELSE NextRun(a, "retry")
    [] c.at \in {"retry", "second"} -> IF json THEN Return(a) ELSE Degrade(a)
    [] c.at = "first" -> IF json THEN Return(a) ELSE NextRun(a, "second")

\* A run that throws takes the call with it; synthesis catches it.
RunThrows(c) == IF c.at = "first" THEN NextRun(c, "second") ELSE Degrade(c)

\* maybeRunVerifier counts a run however it ended.
Counted(i) ==
  verifierRuns' = IF /\ Waiting(i) /\ calls'[i].caller # "waiting"
                     /\ calls[i].kind = "verifier"
                  THEN verifierRuns + 1 ELSE verifierRuns
----------------------------------------------------------------------------
MayVerify(advisory) ==
  /\ verifierRuns < 2
  /\ benchmark => left = 2 /\ (advisory => verifierRuns = 0)

\* One call after the other.
Call(kind, at) ==
  /\ made < MaxCalls
  /\ \A i \in Indices : ~Waiting(i)
  /\ made' = made + 1
  /\ Update(made', [Unmade EXCEPT !.kind = kind, !.caller = "waiting", !.at = at])
  /\ UNCHANGED <<benchmark, verifierRuns, left>>

\* Of the tools a subagent may have, which only read and search, the registry
\* may hold none.
FirstStep == {"gather", "final"}

Ask ==
  \E kind \in Kinds \ {"synthesis"}, at \in FirstStep :
    /\ kind = "verifier" => \E advisory \in BOOLEAN : MayVerify(advisory)
    /\ Call(kind, at)

Synthesize == Call("synthesis", "first")

SendRegardless(i) ==                                                     \* mutant
  /\ Open(i) /\ ~calls[i].asking /\ calls[i].turns < Limit(calls[i])
  /\ Update(i, [calls[i] EXCEPT !.asking = TRUE, !.turns = @ + 1])
  /\ UNCHANGED <<benchmark, made, verifierRuns, left>>

\* The turn loop, or the attempt, makes a request unless the signal is aborted.
Send(i) ==
  /\ Open(i) /\ ~calls[i].asking /\ calls[i].turns < Limit(calls[i]) /\ ~calls[i].aborted
  /\ Update(i, [calls[i] EXCEPT !.asking = TRUE, !.turns = @ + 1])
  /\ UNCHANGED <<benchmark, made, verifierRuns, left>>

Paid(c) == [c EXCEPT !.asking = FALSE, !.run = @ + 1, !.spent = @ + 1]

\* A response with tool calls: the loop goes on, or stops at its last turn.
ToolTurn(i) ==
  /\ calls[i].asking /\ calls[i].at = "gather"
  /\ \E json \in BOOLEAN :
       LET c == Paid(calls[i]) IN
       Update(i, IF c.turns = Limit(c) THEN RunOver(c, json)
                 ELSE [c EXCEPT !.said = @ \/ json])
  /\ Counted(i)
  /\ UNCHANGED <<benchmark, made, left>>

LastTurn(i) ==
  /\ calls[i].asking
  /\ \E json \in BOOLEAN : Update(i, RunOver(Paid(calls[i]), json))
  /\ Counted(i)
  /\ UNCHANGED <<benchmark, made, left>>

\* An error event, or the abort seen at the top of the loop, ends the run;
\* an exception ends the call.  Nothing is known of the tokens it took.
StopsShort(i) ==
  /\ Open(i)
  /\ \/ /\ calls[i].asking
        /\ Update(i, RunOver(calls[i], FALSE))
     \/ /\ ~calls[i].asking /\ calls[i].aborted /\ calls[i].at \in {"gather", "final", "retry"}
        /\ Update(i, RunOver(calls[i], FALSE))
  /\ Counted(i)
  /\ UNCHANGED <<benchmark, made, left>>

Throws(i) ==
  /\ Open(i)
  /\ calls[i].asking \/ (calls[i].aborted /\ calls[i].at \in {"first", "second"})
  /\ Update(i, RunThrows(calls[i]))
  /\ Counted(i)
  /\ UNCHANGED <<benchmark, made, left>>

\* runWithPhaseBudget: only a benchmark has budgets.
TimerFires(i) ==
  /\ benchmark /\ Waiting(i)
  /\ Update(i, [calls[i] EXCEPT !.caller = "degraded", !.aborted = TRUE])
  /\ Counted(i)
  /\ UNCHANGED <<benchmark, made, left>>

\* The caller of the engine aborts: the call in progress finds out.
CallerAborts(i) ==
  /\ Waiting(i) /\ ~calls[i].aborted
  /\ Update(i, [calls[i] EXCEPT !.aborted = TRUE])
  /\ UNCHANGED <<benchmark, made, verifierRuns, left>>

DeadlineNears ==
  /\ benchmark /\ left > 0 /\ left' = left - 1
  /\ UNCHANGED <<benchmark, calls, made, verifierRuns>>

SubagentNext ==
  \/ Ask \/ Synthesize \/ DeadlineNears
  \/ \E i \in Indices :
       Send(i) \/ ToolTurn(i) \/ LastTurn(i) \/ StopsShort(i) \/ Throws(i)
         \/ TimerFires(i) \/ CallerAborts(i)

SubagentSpec == SubagentInit /\ [][SubagentNext]_subagentVars
----------------------------------------------------------------------------
\* The usage that goes with an answer of the planner or the verifier counts
\* every response the call received: gathering, final run and retry
\* (runSubagentJson).  An answer of synthesis leaves its first attempt out.
UsageCounted ==
  \A i \in Indices :
    calls[i].caller = "answered" /\ calls[i].kind # "synthesis"
      => calls[i].usage = calls[i].spent

\* A call its caller has given up makes no further request, however far it still
\* gets (runWithPhaseBudget hands its signal to the run).
QuietOnceGivenUp ==
  [][\A i \in Indices :
       ~calls[i].asking /\ calls'[i].asking => Waiting(i)]_subagentVars
=============================================================================
