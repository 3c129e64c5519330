---------------------------- MODULE MCPhaseEngine ----------------------------
(***************************************************************************)
(* Instances of PhaseEngine for TLC: ways to call it and sets of validator *)
(* runs that the engine tells apart.                                       *)
(***************************************************************************)
EXTENDS PhaseEngine

V(status, confidence, source, command, covers) ==
  [status |-> status, confidence |-> confidence, source |-> source, command |-> command,
   covers |-> covers]

Tests(status) == V(status, "high", "task", "real", TRUE)
Claimed(status) == V(status, "low", "task", "claimed", FALSE)
Probe(status) == V(status, "medium", "task", "shallow", FALSE)
Compiles(status) == V(status, "low", "minimal_safe_fallback", "real", FALSE)

\* Nothing to run; a proof; a failure to work on, and one of the validators
\* themselves; too little evidence.
Findings ==
  {{}, {Tests("pass"), Compiles("pass")}, {Tests("fail"), Compiles("pass")},
   {Probe("fail"), Tests("crash")}, {Probe("pass")}}
LowEvidence == {{Compiles("pass")}, {Claimed("pass")}, {Claimed("pass"), Compiles("pass")}, {Claimed("fail")}}

Plain ==
  [benchmark |-> FALSE, deadline |-> FALSE, midExec |-> FALSE, reExploreTurn |-> 1,
   verifier |-> FALSE, force |-> FALSE, store |-> TRUE, git |-> TRUE, required |-> FALSE]
Bench == [Plain EXCEPT !.benchmark = TRUE, !.midExec = TRUE, !.verifier = TRUE, !.git = FALSE]
Calls ==
  {[Plain EXCEPT !.verifier = TRUE, !.force = TRUE],
   [Plain EXCEPT !.midExec = TRUE, !.reExploreTurn = 2, !.store = FALSE, !.required = TRUE],
   [Bench EXCEPT !.deadline = TRUE, !.store = FALSE],
   Bench}
OneCall == {Plain}
=============================================================================
