---------------------------- MODULE Exploration ----------------------------
(***************************************************************************)
(* The exploratory lane of gather in a benchmark: runGatherLane with its   *)
(* timer, the function that spawns an isolated child and reads its result, *)
(* and the child, which saves a checkpoint, copies the workspace, runs     *)
(* validators in the copy and removes it.  The child may hang, crash or be *)
(* killed at any point; a kill reaches the child and none of the processes *)
(* it has started.                                                         *)
(***************************************************************************)
EXTENDS Naturals, FiniteSets

CONSTANT MaxProbes  \* validators tried, 2 in the code

VARIABLES
  lane,      \* "running", "counted", "degraded"
  laneAborted, \* the signal of the lane, its timer's or the caller's doing
  parent,    \* where exploratoryExecutorChildProcess is
  ending,    \* how it is going to end: "none", "result", "error"
  child,     \* "none", "running", "over"
  killed,    \* SIGKILL was sent to the child
  work,      \* what the child does, or did last
  printed,   \* the line with the result has left the child
  worktree,  \* the copy of the workspace exists
  probes,    \* validators run so far
  helpers    \* processes of the child: the one that saves, a validator

laneVars == <<lane, laneAborted, parent, ending, child, killed, work, printed, worktree,
              probes, helpers>>
childVars == <<work, printed, worktree, probes, helpers>>

Settled == lane # "running"
\* The abort listener is there from the spawn to the finally block.
Listening == parent \in {"read", "lag", "reap"}

LaneInit ==
  /\ lane = "running" /\ laneAborted = FALSE
  /\ parent = "skip" /\ ending = "none"
  /\ child = "none" /\ killed = FALSE
  /\ work = "boot" /\ printed = FALSE /\ worktree = FALSE
  /\ probes = 0 /\ helpers = {}
----------------------------------------------------------------------------
(* runGatherLane *)

\* controller.abort: the listener kills the child at once.
AbortLane == laneAborted' = TRUE /\ killed' = (killed \/ Listening)

\* The budget of the lane is spent: a degraded answer, whatever comes later.
LaneTimer ==
  /\ ~Settled /\ lane' = "degraded"
  /\ AbortLane
  /\ UNCHANGED <<parent, ending, child, childVars>>

\* abortFromParent: the lane waits for what the run makes of it.
CallerAborts ==
  /\ ~Settled /\ ~laneAborted
  /\ AbortLane
  /\ UNCHANGED <<lane, parent, ending, child, childVars>>

LaneAnswer ==
  /\ ~Settled /\ parent = "over"
  /\ lane' = IF ending = "result" THEN "counted" ELSE "degraded"
  /\ UNCHANGED <<laneAborted, parent, ending, child, killed, childVars>>
----------------------------------------------------------------------------
(* maybeSkipExploratoryChild and exploratoryExecutorChildProcess *)

\* No validator worth a child: a result of low confidence.
Skip ==
  /\ parent = "skip"
  /\ parent' = "over" /\ ending' = "result"
  /\ UNCHANGED <<lane, laneAborted, child, killed, childVars>>

WriteInput ==
  /\ parent = "skip"
  /\ parent' = "spawn"
  /\ UNCHANGED <<lane, laneAborted, ending, child, killed, childVars>>

\* The input cannot be written, or the child not be started: before the try block.
CannotStart ==
  /\ parent \in {"skip", "spawn"}
  /\ parent' = "over" /\ ending' = "error"
  /\ UNCHANGED <<lane, laneAborted, child, killed, childVars>>

SpawnListening ==                                                        \* mutant
  /\ parent = "spawn"
  /\ parent' = "read" /\ child' = "running"
  /\ UNCHANGED <<lane, laneAborted, ending, killed, childVars>>

\* A signal that came before the listener kills the child right away.
Spawn ==
  /\ parent = "spawn"
  /\ parent' = "read" /\ child' = "running"
  /\ killed' = laneAborted
  /\ UNCHANGED <<lane, laneAborted, ending, childVars>>

\* The first line that parses is the result, also one read after the child's end.
ReadLine ==
  /\ parent = "read" /\ printed
  /\ parent' = "lag" /\ ending' = "result"
  /\ UNCHANGED <<lane, laneAborted, child, killed, childVars>>

\* stdout ends with the child.
ReadEnds ==
  /\ parent = "read" /\ ~printed /\ child = "over"
  /\ parent' = "finally" /\ ending' = "error"
  /\ UNCHANGED <<lane, laneAborted, child, killed, childVars>>

\* Armed later than the timer of the lane, for as long: it fires after it.
ReadDeadline ==
  /\ parent = "read" /\ Settled
  /\ parent' = "finally" /\ ending' = "error"
  /\ killed' = TRUE
  /\ UNCHANGED <<lane, laneAborted, child, childVars>>

ExitSeen ==
  /\ parent \in {"lag", "reap"} /\ child = "over"
  /\ parent' = "finally"
  /\ UNCHANGED <<lane, laneAborted, ending, child, killed, childVars>>

\* A second after its result the child has still not gone.
Lags ==
  /\ parent = "lag" /\ child = "running"
  /\ parent' = "reap"
  /\ killed' = TRUE
  /\ UNCHANGED <<lane, laneAborted, ending, child, childVars>>

ReapDeadline ==
  /\ parent = "reap" /\ child = "running"
  /\ parent' = "finally"
  /\ UNCHANGED <<lane, laneAborted, ending, child, killed, childVars>>

\* The rest of stderr, as long as its deadline.
StderrEnds ==
  /\ parent = "finally"
  /\ parent' = "remove"
  /\ UNCHANGED <<lane, laneAborted, ending, child, killed, childVars>>

\* Then the input file.
Finally ==
  /\ parent = "remove"
  /\ parent' = "over"
  /\ UNCHANGED <<lane, laneAborted, ending, child, killed, childVars>>
----------------------------------------------------------------------------
(* The child: main of the runner, exploratoryExecutorInner. *)

Does(step) == child = "running" /\ work = step
Work(step) == work' = step /\ UNCHANGED <<lane, laneAborted, parent, ending, killed>>

Boot ==
  /\ Does("boot") /\ Work("save")
  /\ UNCHANGED <<child, printed, worktree, probes, helpers>>

\* The checkpoint is saved by a process of its own; one that fails is noted.
SaveStarts ==
  /\ Does("save") /\ Work("saving") /\ helpers' = helpers \cup {"saver"}
  /\ UNCHANGED <<child, printed, worktree, probes>>
SaveEnds ==
  /\ Does("saving") /\ "saver" \notin helpers /\ Work("choose")
  /\ UNCHANGED <<child, printed, worktree, probes, helpers>>

\* The child discovers the validators again.
NothingToProbe ==
  /\ Does("choose") /\ Work("print")
  /\ UNCHANGED <<child, printed, worktree, probes, helpers>>
CopyStarts ==
  /\ Does("choose") /\ Work("copy") /\ worktree' = TRUE
  /\ UNCHANGED <<child, printed, probes, helpers>>

\* The model may be asked first, for one turn: Opus only when the task or its
\* validators give a reason to.
AfterCopy == {"model", "check"}
CopyEnds ==
  /\ Does("copy") /\ \E step \in AfterCopy : Work(step)
  /\ UNCHANGED <<child, printed, worktree, probes, helpers>>
ModelEnds ==
  /\ Does("model") /\ Work("check")
  /\ UNCHANGED <<child, printed, worktree, probes, helpers>>

ValidatorStarts ==
  /\ Does("check") /\ probes < MaxProbes /\ Work("checking")
  /\ probes' = probes + 1 /\ helpers' = helpers \cup {"validator"}
  /\ UNCHANGED <<child, printed, worktree>>
\* It ended, or was given up.
ValidatorEnds ==
  /\ Does("checking") /\ Work("check")
  /\ UNCHANGED <<child, printed, worktree, probes, helpers>>

\* An exception passes through the finally block; before the copy there is none.
Fails ==
  /\ child = "running" /\ work \in {"boot", "choose", "copy", "model", "check"}
  /\ Work(IF work \in {"boot", "choose"} THEN "failed" ELSE "unwind")
  /\ UNCHANGED <<child, printed, worktree, probes, helpers>>

CleanUp ==
  /\ (Does("check") /\ probes > 0) \/ Does("unwind")
  /\ Work(IF work = "unwind" THEN "failed" ELSE "print")
  /\ worktree' = FALSE
  /\ UNCHANGED <<child, printed, probes, helpers>>

PrintLine ==
  /\ Does("print") /\ Work("exit") /\ printed' = TRUE
  /\ UNCHANGED <<child, worktree, probes, helpers>>

\* process.exit(0), or 1 after an exception.
Exits ==
  /\ child = "running" /\ work \in {"exit", "failed"}
  /\ child' = "over" /\ work' = "exited"
  /\ UNCHANGED <<lane, laneAborted, parent, ending, killed, printed, worktree, probes, helpers>>

\* By SIGKILL, or by a crash of its own.
Dies ==
  /\ child = "running"
  /\ child' = "over"
  /\ UNCHANGED <<lane, laneAborted, parent, ending, killed, childVars>>

HelperEnds ==
  /\ helpers # {}
  /\ \E h \in helpers : helpers' = helpers \ {h}
  /\ UNCHANGED <<lane, laneAborted, parent, ending, child, killed, work, printed, worktree, probes>>
----------------------------------------------------------------------------
ParentStep ==
  \/ Skip \/ WriteInput \/ CannotStart \/ Spawn \/ ReadLine \/ ReadEnds \/ ReadDeadline
  \/ ExitSeen \/ Lags \/ ReapDeadline \/ StderrEnds \/ Finally
ChildStep ==
  \/ Boot \/ SaveStarts \/ SaveEnds \/ NothingToProbe \/ CopyStarts \/ CopyEnds
  \/ ModelEnds \/ ValidatorStarts \/ ValidatorEnds \/ Fails \/ CleanUp \/ PrintLine
  \/ Exits \/ Dies
LaneNext == LaneTimer \/ CallerAborts \/ LaneAnswer \/ ParentStep \/ ChildStep \/ HelperEnds

\* Timers fire and the engine's own code goes on; of the child nothing is
\* promised but that a kill ends it.
LaneSpec ==
  /\ LaneInit /\ [][LaneNext]_laneVars
  /\ WF_laneVars(LaneTimer) /\ WF_laneVars(LaneAnswer)
  /\ WF_laneVars(ParentStep) /\ WF_laneVars(killed /\ Dies)
----------------------------------------------------------------------------
\* A lane that has answered leaves no child at work: it is over, or was sent
\* SIGKILL, or is going to be as soon as it is there; and nobody is left who
\* would have to wait for it.
NoChildLeft ==
  /\ (Settled /\ child = "running") => killed
  /\ (Settled /\ parent \in {"skip", "spawn"}) => laneAborted

\* The function that owns the child ends and so does the child, whatever it does.
LaneCloses == <>[](parent = "over" /\ child # "running" /\ Settled)
============================================================================
