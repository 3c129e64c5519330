------------------------------ MODULE ShellCall ------------------------------
\* One call of run_shell or shell_command (executeShell): the child process, its two
\* pipes, and the timers that bound the call when a child or a grandchild will not go.
EXTENDS Naturals

CONSTANT None

Pipes == {"stdout", "stderr"}

VARIABLES
  shell,     \* where executeShell is
  child,     \* "none", "running", "over"
  code,      \* proc.exitCode: None while it runs and after a death by signal
  killed,    \* SIGKILL was sent
  stopped,   \* ctrl.signal.aborted
  armed,     \* the time limit and the link to the caller's signal
  held,      \* pipes that a grandchild holds
  pipe,      \* "open", "whole", or "cut" at a deadline
  timedOut, reapDeadlineHit,
  result

shellVars == <<shell, child, code, killed, stopped, armed, held, pipe, timedOut, reapDeadlineHit, result>>

Codes == {0, 1}
Lost == 255     \* what the call reports as -1

Report(kind, exit) == [kind |-> kind, exit |-> exit]

ShellInit ==
  /\ shell = "start" /\ child = "none" /\ code = None /\ killed = FALSE
  /\ stopped \in BOOLEAN /\ armed = FALSE /\ held = {} /\ pipe = [p \in Pipes |-> "open"]
  /\ timedOut = FALSE /\ reapDeadlineHit = FALSE /\ result = None

\* An empty argv, a catastrophic command, a directory outside the workspace, or a
\* program that cannot be started.
Refuse ==
  /\ shell = "start" /\ shell' = "done"
  /\ \E kind \in {"shell_non_zero_exit", "permission_denied", "path_outside_workspace",
                  "shell_not_found"} : result' = Report(kind, None)
  /\ UNCHANGED <<child, code, killed, stopped, armed, held, pipe, timedOut, reapDeadlineHit>>

Spawn ==
  /\ shell = "start" /\ shell' = "race"
  /\ child' = "running" /\ killed' = stopped /\ armed' = TRUE
  /\ UNCHANGED <<code, stopped, held, pipe, timedOut, reapDeadlineHit, result>>

\* The limit is reached, or the caller's signal fires: Bun kills the child at once.
Abort ==
  /\ armed /\ ~stopped /\ stopped' = TRUE /\ killed' = TRUE
  /\ UNCHANGED <<shell, child, code, armed, held, pipe, timedOut, reapDeadlineHit, result>>

-----------------------------------------------------------------------------
\* The child and what it started.
ChildForks(p) ==
  /\ child = "running" /\ held' = held \cup {p}
  /\ UNCHANGED <<shell, child, code, killed, stopped, armed, pipe, timedOut, reapDeadlineHit, result>>

GrandchildGoes(p) ==
  /\ p \in held /\ held' = held \ {p}
  /\ UNCHANGED <<shell, child, code, killed, stopped, armed, pipe, timedOut, reapDeadlineHit, result>>

\* By itself, or by a signal of ours or of somebody else.
ChildEnds(c) ==
  /\ child = "running" /\ child' = "over" /\ code' = c
  /\ UNCHANGED <<shell, killed, stopped, armed, held, pipe, timedOut, reapDeadlineHit, result>>

PipeEnds(p) ==
  /\ child = "over" /\ p \notin held /\ pipe[p] = "open" /\ pipe' = [pipe EXCEPT ![p] = "whole"]
  /\ UNCHANGED <<shell, child, code, killed, stopped, armed, held, timedOut, reapDeadlineHit, result>>

-----------------------------------------------------------------------------
\* The race of exit and abort is over; what it reads is what holds by now.
Wake ==
  /\ shell = "race" /\ (child = "over" \/ stopped)
  /\ timedOut' = (stopped /\ code = None)
  /\ shell' = (IF timedOut' THEN "reap" ELSE "drain") /\ killed' = (killed \/ timedOut')
  /\ armed' = timedOut'
  /\ UNCHANGED <<child, code, stopped, held, pipe, reapDeadlineHit, result>>

Reaped ==
  /\ shell = "reap" /\ child = "over"
  /\ shell' = "drain" /\ armed' = FALSE
  /\ UNCHANGED <<child, code, killed, stopped, held, pipe, timedOut, reapDeadlineHit, result>>

ReapDeadline ==
  /\ shell = "reap" /\ child = "running"
  /\ shell' = "drain" /\ armed' = FALSE /\ reapDeadlineHit' = TRUE
  /\ UNCHANGED <<child, code, killed, stopped, held, pipe, timedOut, result>>

\* The grace for a pipe that somebody still holds: one second, five after a timeout.
StreamDeadline(p) ==
  /\ shell = "drain" /\ pipe[p] = "open" /\ pipe' = [pipe EXCEPT ![p] = "cut"]
  /\ UNCHANGED <<shell, child, code, killed, stopped, armed, held, timedOut, reapDeadlineHit, result>>

\* Mutated ExitCode: a child that was lost counts as one that ended well.
ExitCodeOrZero == IF code = None THEN 0 ELSE code

ExitCode == IF reapDeadlineHit \/ code = None THEN Lost ELSE code

Finish ==
  /\ shell = "drain" /\ \A p \in Pipes : pipe[p] # "open"
  /\ shell' = "done"
  /\ result' = Report(IF timedOut THEN "shell_timeout"
                      ELSE IF ExitCode # 0 THEN "shell_non_zero_exit" ELSE "ok", ExitCode)
  /\ UNCHANGED <<child, code, killed, stopped, armed, held, pipe, timedOut, reapDeadlineHit>>

\* executeShell itself, one step after the other, and the readers of its pipes.
CallStep == Refuse \/ Spawn \/ Wake \/ Reaped \/ ReapDeadline \/ Finish
PipeStep == \E p \in Pipes : PipeEnds(p) \/ StreamDeadline(p)

ShellNext ==
  \/ CallStep \/ Abort \/ PipeStep
  \/ \E p \in Pipes : ChildForks(p) \/ GrandchildGoes(p)
  \/ \E c \in Codes \cup {None} : ChildEnds(c)

\* The timers fire and the call is scheduled; of the child nothing is promised.
ShellFairness == WF_shellVars(CallStep) /\ WF_shellVars(Abort) /\ WF_shellVars(PipeStep)

ShellSpec == ShellInit /\ [][ShellNext]_shellVars /\ ShellFairness

-----------------------------------------------------------------------------
Started == child # "none"

\* What the model is told of a command is what became of it: "ok" only for a child that
\* ended by itself with 0 (whatever raced it), a failure only of a child that is gone,
\* and a child that is still there has been killed, is called a timeout, with no code.
ShellTold ==
  result # None /\ Started =>
    /\ result.kind = "ok" => child = "over" /\ code = 0
    /\ result.kind = "shell_non_zero_exit" => child = "over" /\ code # 0
    /\ child = "running" => killed /\ result = Report("shell_timeout", Lost)

\* The call ends, also when the child cannot be killed or a daemon keeps its pipes.
ShellEnds == <>(shell = "done")
=============================================================================
