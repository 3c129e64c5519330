------------------------------ MODULE ToolParts ------------------------------
(***************************************************************************)
(* A batch of tool calls with what surrounds it: the autonomous command, a *)
(* shell call (Exec) and the network tools (Web), each with variables of   *)
(* its own.  What is promised of these parts is stated here, for TLC and   *)
(* for the proofs.                                                         *)
(***************************************************************************)
EXTENDS ToolScheduler, Autonomous

CONSTANTS Queries, WebCalls, MaxItems                  \* of WebSearch

VARIABLES
  shell, child, code, killed, stopped, armed, held, pipe, timedOut,
  reapDeadlineHit, result,                             \* ShellCall
  mode, cache, webCalls                                \* WebSearch

Exec == INSTANCE ShellCall WITH None <- Unset
Web == INSTANCE WebSearch WITH Calls <- WebCalls, calls <- webCalls, None <- Unset

ASSUME UnsetAssumption == Unset \notin Exec!Codes
-----------------------------------------------------------------------------
\* What a shell call and the command report is what happened: ShellTold of
\* ShellCall, and a command that nothing interrupted prints what its files say.
ToldTruly == Exec!ShellTold /\ UndisturbedAgrees

\* Blocked results reach nobody: NothingDenied of WebSearch.
NothingDenied == Web!NothingDenied
=============================================================================
