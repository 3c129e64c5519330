----------------------------- MODULE Completion -----------------------------
(***************************************************************************)
(* What the phase engine promises about the end of a task, whatever phases *)
(* it goes through: the outcome it reports is the verdict of a validation  *)
(* of the very workspace it leaves behind.                                 *)
(***************************************************************************)
CONSTANTS
  Workspaces, Verdicts,
  None  \* no verdict

VARIABLES
  workspace,
  verdict,  \* of a validation of this workspace, or None
  outcome   \* what the task is reported to be, or None

vars == <<workspace, verdict, outcome>>

Init == workspace \in Workspaces /\ verdict = None /\ outcome = None

\* A model, or a restored checkpoint, changes the workspace.
Change ==
  /\ outcome = None
  /\ workspace' \in Workspaces \ {workspace}
  /\ verdict' = None  \* what was found out is about another workspace
  /\ UNCHANGED outcome

Validate ==
  /\ outcome = None
  /\ verdict' \in Verdicts
  /\ UNCHANGED <<workspace, outcome>>

Conclude ==
  /\ outcome = None /\ verdict # None
  /\ outcome' = verdict
  /\ UNCHANGED <<workspace, verdict>>

Next == Change \/ Validate \/ Conclude

Spec == Init /\ [][Next]_vars
=============================================================================
