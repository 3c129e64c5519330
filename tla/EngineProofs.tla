---------------------------- MODULE EngineProofs ----------------------------
(***************************************************************************)
(* Proofs about the engine: PhaseEngine, for any lanes, turns, calls,      *)
(* edits and findings, Exploration, for any number of probes, Subagents,   *)
(* for any number of calls and turns, and Validation, for any claims of a  *)
(* task text, any features of a workspace and any limits.                  *)
(*                                                                         *)
(* The promise of module Completion rests on one fact per phase: where a   *)
(* validation is read (Reading), it is of the workspace as it is.  The     *)
(* phases in between may change the workspace, but only to a version that  *)
(* no validation is of: a new one, or the checkpoint in place of the       *)
(* workspace just validated.                                               *)
(***************************************************************************)
EXTENDS EngineParts, SequenceTheorems, NaturalsInduction, WellFoundedInduction, TLAPS

Reading == {"verify", "verifying", "recover", "restore", "finish"}

Verdict == Route(validation.runs, opts.required)

\* Versions are counted by edits, and what is remembered is not newer.
Versions ==
  /\ edits \in Version /\ workspace \in 0..edits
  /\ validation.of \in 0..edits \cup {None}
  /\ checkpoint \in 0..edits \cup {None}

Current ==
  /\ pc \in Reading => validation.of = workspace
  /\ pc \in {"recover", "restore"} => Verdict = "task_failure"
  /\ pc \in {"recover", "restore", "finish"} => routing = Verdict
  /\ pc = "restore" => checkpoint # None

IInv == Versions /\ Current

\* routeValidation always gives one of the three statuses.
LEMMA RouteStatus == \A runs, required : Route(runs, required) \in Statuses
  BY DEF Route, Statuses

LEMMA Constants == MaxEdits \in Nat /\ None \notin Nat /\ None \notin Statuses
  BY TurnsAssumption, NoneAssumption

LEMMA InitInv == Init => IInv
  BY Constants DEF Init, IInv, Versions, Current, Reading, Version

\* Phases that neither read nor write a validation or the workspace.
LEMMA QuietStep ==
  ASSUME IInv,
         TimePasses \/ Abort \/ GatherEnds \/ Timers \/ (\E l \in Lanes : LaneEnds(l))
           \/ RunEnds \/ TurnsUsedUp \/ ReExplore
  PROVE  /\ IInv'
         /\ UNCHANGED <<workspace, edits, validation, routing, opts, recovery>>
         /\ (pc = "finish") = (pc' = "finish")
<1> USE DEF IInv, Versions, Current, Verdict, Reading, Go, StartRun
<1>1. CASE TimePasses \/ Abort
  BY <1>1 DEF TimePasses, Abort, Final, run, judged, recovering
<1>2. CASE GatherEnds \/ Timers \/ (\E l \in Lanes : LaneEnds(l))
  BY <1>2 DEF GatherEnds, Timers, GatherTimesOut, LaneTimesOut, Degraded, LaneEnds, gatherOnly, run,
              judged, recovering
<1>3. CASE RunEnds \/ TurnsUsedUp \/ ReExplore
  BY <1>3 DEF RunEnds, TurnsUsedUp, Progressing, ReExplore, run, judged, recovering
<1> QED BY <1>1, <1>2, <1>3

\* A turn may leave the workspace alone, or at a version nobody has seen.
LEMMA TurnStep ==
  ASSUME IInv, Turn
  PROVE  /\ IInv' /\ pc # "finish" /\ pc' # "finish"
         /\ UNCHANGED <<validation, opts, recovery>>
         /\ workspace' # workspace => workspace' \in Version /\ workspace' # validation.of
<1> USE Constants DEF Turn, Go, run, judged, recovering
<1>1. pc = "execute" /\ pc' \in {"execute", "validate"} /\ UNCHANGED <<validation, checkpoint, opts, recovery>>
  BY DEF Mutate
<1>2. CASE Mutate
  <2>1. edits' = edits + 1 /\ workspace' = edits' /\ edits' \in Version
    BY <1>2 DEF Mutate, IInv, Versions, Version
  <2>2. Versions' /\ workspace' # validation.of
    BY <1>1, <2>1 DEF IInv, Versions, Version
  <2> QED BY <1>1, <2>1, <2>2 DEF IInv, Versions, Version, Current, Reading
<1>3. CASE UNCHANGED <<pc, workspace, edits>>
  BY <1>1, <1>3 DEF IInv, Versions, Version, Current, Reading
<1> QED BY <1>2, <1>3

\* Validate makes validation.of the workspace.
LEMMA ValidateStep ==
  ASSUME IInv, Validate
  PROVE  /\ IInv' /\ pc # "finish" /\ pc' # "finish"
         /\ UNCHANGED <<workspace, opts, recovery>> /\ validation'.of = workspace
<1>1. /\ validation'.of = workspace /\ pc = "validate" /\ pc' = "verify"
      /\ UNCHANGED <<workspace, edits, opts, checkpoint, recovery>>
  BY DEF Validate, Go, recovering
<1> QED BY <1>1 DEF IInv, Versions, Current, Reading

\* Routing reads the validation of the workspace, and so do the loop's tests.
LEMMA RouteStep ==
  ASSUME IInv, pc \in {"verify", "verifying"}, RouteNow,
         UNCHANGED <<workspace, edits, validation, checkpoint, opts, recovery>>
  PROVE  IInv' /\ (pc' = "finish" => routing' = Verdict)
<1>1. /\ routing' = Verdict /\ pc' \in {"recover", "finish"}
      /\ pc' = "recover" => Verdict = "task_failure"
  BY DEF RouteNow, Go, Verdict
<1>2. Verdict' = Verdict
  BY DEF Verdict
<1> QED BY <1>1, <1>2 DEF IInv, Versions, Current, Reading

LEMMA VerifyStep ==
  ASSUME IInv, Verify \/ VerifierEnds
  PROVE  /\ IInv' /\ pc # "finish" /\ UNCHANGED <<workspace, validation, opts, recovery>>
         /\ pc' = "finish" => routing' = Verdict /\ validation.of = workspace
<1>1. /\ pc \in {"verify", "verifying"}
      /\ UNCHANGED <<workspace, edits, validation, checkpoint, opts, recovery>>
      /\ RouteNow \/ pc' = "verifying"
  BY DEF Verify, VerifierEnds, Go, recovering
<1>2. validation.of = workspace
  BY <1>1 DEF IInv, Current, Reading
<1>3. CASE RouteNow
  BY <1>1, <1>2, <1>3, RouteStep
<1>4. CASE pc' = "verifying"
  BY <1>1, <1>2, <1>4 DEF IInv, Versions, Current, Reading
<1> QED BY <1>1, <1>3, <1>4

\* A restore is only decided on when there is a checkpoint.
LEMMA RestoreHasCheckpoint ==
  ASSUME NEW again, NEW sha, Decide(again, sha) = "checkpoint_restore"
  PROVE  sha # None
  BY DEF Decide, Restorable

LEMMA RecoverStep ==
  ASSUME IInv, Recover
  PROVE  /\ IInv' /\ pc = "recover" /\ UNCHANGED <<workspace, validation, opts>>
         /\ pc' = "finish" => routing' = Verdict /\ validation.of = workspace
<1>1. PICK decision : /\ decision = Decide(repeated', checkpoint')
                      /\ Carry(decision)
  BY DEF Recover
<1>2. /\ pc = "recover"
      /\ UNCHANGED <<workspace, edits, validation, routing, opts>>
      /\ checkpoint' \in {checkpoint, workspace}
  BY DEF Recover, SaveCheckpoint, judged
<1>3. pc' \in {"finish", "restore", "re_explore", "execute"}
  BY <1>1 DEF Carry, Go, StartRun
<1>4. pc' = "restore" => checkpoint' # None
  <2> SUFFICES ASSUME pc' = "restore" PROVE checkpoint' # None
    OBVIOUS
  <2>1. decision = "checkpoint_restore"
    BY <1>1 DEF Carry, Go, StartRun
  <2> QED BY <1>1, <2>1, RestoreHasCheckpoint
<1>5. /\ validation.of = workspace /\ Verdict = "task_failure"
      /\ routing = Verdict /\ Verdict' = Verdict
  BY <1>2 DEF IInv, Current, Reading, Verdict
<1> QED BY <1>2, <1>3, <1>4, <1>5 DEF IInv, Versions, Current, Reading

\* A restore puts another version in the place of the one just validated.
LEMMA RestoreStep ==
  ASSUME IInv, Restore
  PROVE  /\ IInv' /\ pc # "finish" /\ pc' # "finish"
         /\ UNCHANGED <<validation, opts, recovery>>
         /\ workspace' # workspace => workspace' \in Version /\ workspace' # validation.of
<1>1. /\ pc = "restore" /\ pc' \in {"validate", "threw"}
      /\ workspace' \in {workspace, checkpoint}
      /\ UNCHANGED <<edits, validation, checkpoint, opts, recovery>>
  BY DEF Restore, Go, AfterRestore, judged, recovering
<1>2. checkpoint \in 0..edits /\ validation.of = workspace /\ edits \in Version
  BY <1>1 DEF IInv, Versions, Current, Reading
<1>3. workspace' \in 0..edits /\ workspace' \in Version
  BY <1>1, <1>2, Constants DEF IInv, Versions, Version
<1> QED BY <1>1, <1>2, <1>3 DEF IInv, Versions, Current, Reading

LEMMA NextCases ==
  ASSUME Next
  PROVE  \/ TimePasses \/ Abort \/ GatherEnds \/ Timers \/ (\E l \in Lanes : LaneEnds(l))
         \/ RunEnds \/ TurnsUsedUp \/ ReExplore
         \/ Turn \/ Validate \/ Verify \/ VerifierEnds \/ Recover \/ Restore
  BY DEF Next, Engine

LEMMA StutterStep == IInv /\ UNCHANGED vars => IInv' /\ Verdict' = Verdict
  BY DEF vars, gathering, run, judged, recovering, IInv, Versions, Current, Verdict, Reading

LEMMA InvStep == IInv /\ [Next]_vars => IInv'
  BY NextCases, StutterStep, QuietStep, TurnStep, ValidateStep, VerifyStep, RecoverStep, RestoreStep

LEMMA Invariance == Spec => []IInv
  BY InitInv, InvStep, PTL DEF Spec

-----------------------------------------------------------------------------
(***************************************************************************)
(* The engine implements Completion.                                       *)
(***************************************************************************)
LEMMA InitRefines == Init => Task!Init
  BY Constants DEF Init, Task!Init, Version, verdict, outcome

\* As long as nothing is reported, a new version is a change to Completion.
LEMMA ChangeRefines ==
  ASSUME pc # "finish", pc' # "finish", UNCHANGED <<validation, opts>>,
         workspace' # workspace => workspace' \in Version /\ workspace' # validation.of
  PROVE  Task!Change \/ UNCHANGED Task!vars
<1>1. outcome = None /\ outcome' = None
  BY DEF outcome
<1>2. CASE workspace' = workspace
  BY <1>1, <1>2 DEF Task!vars, verdict
<1>3. CASE workspace' # workspace
  BY <1>1, <1>3 DEF Task!Change, verdict
<1> QED BY <1>2, <1>3

\* A phase that reads the validation may end the task with what it says.
LEMMA ReadRefines ==
  ASSUME pc # "finish", UNCHANGED <<workspace, validation, opts>>,
         pc' = "finish" => routing' = Verdict /\ validation.of = workspace
  PROVE  Task!Conclude \/ UNCHANGED Task!vars
<1>1. outcome = None /\ verdict' = verdict
  BY DEF outcome, verdict
<1>2. CASE pc' = "finish"
  <2>1. outcome' = verdict /\ verdict = Verdict
    BY <1>2 DEF outcome, verdict, Verdict
  <2>2. verdict # None
    BY <2>1, RouteStatus, Constants DEF Verdict
  <2> QED BY <1>1, <2>1, <2>2 DEF Task!Conclude
<1>3. CASE pc' # "finish"
  BY <1>1, <1>3 DEF Task!vars, outcome
<1> QED BY <1>2, <1>3

LEMMA ValidateRefines ==
  ASSUME IInv, Validate
  PROVE  Task!Validate
<1>1. pc # "finish" /\ pc' # "finish" /\ UNCHANGED workspace /\ validation'.of = workspace
  BY ValidateStep
<1>2. outcome = None /\ outcome' = None
  BY <1>1 DEF outcome
<1>3. verdict' \in Statuses
  BY <1>1, RouteStatus DEF verdict
<1> QED BY <1>1, <1>2, <1>3 DEF Task!Validate

LEMMA StepRefines == IInv /\ [Next]_vars => [Task!Next]_(Task!vars)
<1> SUFFICES ASSUME IInv, [Next]_vars PROVE Task!Next \/ UNCHANGED Task!vars
  OBVIOUS
<1>1. CASE TimePasses \/ Abort \/ GatherEnds \/ Timers \/ (\E l \in Lanes : LaneEnds(l))
             \/ RunEnds \/ TurnsUsedUp \/ ReExplore
  <2>1. UNCHANGED <<workspace, validation, routing, opts>> /\ (pc = "finish") = (pc' = "finish")
    BY <1>1, QuietStep
  <2> QED BY <2>1 DEF Task!vars, verdict, outcome
<1>2. CASE Turn \/ Restore
  BY <1>2, TurnStep, RestoreStep, ChangeRefines DEF Task!Next
<1>3. CASE Validate
  BY <1>3, ValidateRefines DEF Task!Next
<1>4. CASE Verify \/ VerifierEnds \/ Recover
  BY <1>4, VerifyStep, RecoverStep, ReadRefines DEF Task!Next
<1>5. CASE UNCHANGED vars
  BY <1>5 DEF vars, judged, Task!vars, verdict, outcome
<1> QED BY <1>1, <1>2, <1>3, <1>4, <1>5, NextCases

\* For any number of lanes, turns and edits and whatever validators find, the
\* outcome is a verdict on the workspace the engine leaves behind.
THEOREM Refinement == Spec => ReportsWhatItLeaves
<1>1. Init => Task!Init
  BY InitRefines
<1>2. IInv /\ [Next]_vars => [Task!Next]_(Task!vars)
  BY StepRefines
<1> QED BY <1>1, <1>2, Invariance, PTL DEF Spec, ReportsWhatItLeaves, Task!Spec

\* No step of recovery is decided on an old validation, or on a success.
THEOREM FreshDecisions == Spec => DecidesOnCurrent
<1>1. ASSUME IInv, [Next]_vars, recovery'.attempts # recovery.attempts
      PROVE  validation.of = workspace /\ Verdict = "task_failure"
  <2>1. recovery' # recovery
    BY <1>1
  <2>2. Recover
    BY <1>1, <2>1, NextCases, QuietStep, TurnStep, ValidateStep, VerifyStep, RestoreStep
       DEF vars, recovering
  <2>3. pc = "recover"
    BY <2>2 DEF Recover
  <2> QED BY <1>1, <2>3 DEF IInv, Current, Reading
<1>2. IInv /\ [Next]_vars =>
        [recovery'.attempts # recovery.attempts =>
           validation.of = workspace /\ Route(validation.runs, opts.required) = "task_failure"]_vars
  BY <1>1 DEF Verdict
<1> QED BY <1>2, Invariance, PTL DEF Spec, DecidesOnCurrent

-----------------------------------------------------------------------------
(***************************************************************************)
(* The checkpoint of recovery.                                             *)
(***************************************************************************)
\* The first attempt sets entry, and the checkpoint to the same or missed.
Begun ==
  /\ entry \in Version \cup {None} /\ checkpoint \in Version \cup {None}
  /\ entry = None => checkpoint = None
  /\ entry # None => missed \/ checkpoint = entry

LEMMA BegunRecover ==
  ASSUME Begun, workspace \in Version, Recover
  PROVE  Begun'
<1> USE Constants DEF Begun, Version
<1>1. /\ entry' = IF entry = None THEN workspace ELSE entry
      /\ SaveCheckpoint
  BY DEF Recover
<1>2. CASE KeepsCheckpoint /\ UNCHANGED <<checkpoint, missed>>
  BY <1>1, <1>2 DEF KeepsCheckpoint
<1>3. CASE ~KeepsCheckpoint /\ checkpoint' = workspace /\ UNCHANGED missed
  BY <1>1, <1>3 DEF KeepsCheckpoint
<1>4. CASE ~KeepsCheckpoint /\ missed' = TRUE /\ UNCHANGED checkpoint
  BY <1>1, <1>4 DEF KeepsCheckpoint
<1> QED BY <1>1, <1>2, <1>3, <1>4 DEF SaveCheckpoint

\* Only Recover writes what Begun is about.
LEMMA OthersKeepBegun ==
  ASSUME [Next]_vars, ~Recover
  PROVE  UNCHANGED <<entry, checkpoint, missed>>
<1>1. CASE UNCHANGED vars
  BY <1>1 DEF vars, recovering
<1>2. CASE Engine
  BY <1>2 DEF Engine, GatherEnds, Turn, RunEnds, TurnsUsedUp, Progressing, ReExplore, Validate, Verify,
              VerifierEnds, Restore, gatherOnly, recovering
<1>3. CASE Timers \/ TimePasses \/ Abort \/ (\E l \in Lanes : LaneEnds(l))
  BY <1>3 DEF Timers, GatherTimesOut, LaneTimesOut, Degraded, TimePasses, Abort, LaneEnds, gatherOnly, recovering
<1> QED BY <1>1, <1>2, <1>3 DEF Next

\* What a restore would bring back is the workspace recovery began with, for
\* any edits in between and any number of failed saves after the first.
THEOREM RestoreTarget == Spec => []RestoreUndoesRecovery
<1>1. Init => Begun
  BY DEF Init, Begun
<1>2. IInv /\ Begun /\ [Next]_vars => Begun'
  <2> SUFFICES ASSUME IInv, Begun, [Next]_vars PROVE Begun'
    OBVIOUS
  <2>1. workspace \in Version
    BY Constants DEF IInv, Versions, Version
  <2>2. CASE Recover
    BY <2>1, <2>2, BegunRecover
  <2>3. CASE ~Recover
    BY <2>3, OthersKeepBegun DEF Begun
  <2> QED BY <2>2, <2>3
<1>3. IInv /\ Begun => RestoreUndoesRecovery
  BY DEF IInv, Current, Begun, RestoreUndoesRecovery
<1> QED BY <1>1, <1>2, <1>3, Invariance, PTL DEF Spec

-----------------------------------------------------------------------------
(***************************************************************************)
(* The lanes of gather.                                                    *)
(***************************************************************************)
\* A lane that works unsignalled is waited for, and that only while gathering.
Heard ==
  /\ alive \ waiting \subseteq signalled
  /\ pc # "gather" => alive \subseteq signalled

\* However many lanes there are and whichever timer fires first, no lane is
\* left working without having been told to stop.
THEOREM NoOrphans == Spec => []NoOrphanLane
<1>1. Init => Heard
  BY DEF Init, Heard
<1>2. Heard /\ [Next]_vars => Heard'
  <2> SUFFICES ASSUME Heard, [Next]_vars PROVE Heard'
    OBVIOUS
  <2> USE DEF Heard, Go
  <2>1. CASE UNCHANGED vars
    BY <2>1 DEF vars, gathering
  <2>2. CASE Engine
    <3>1. CASE GatherEnds
      BY <3>1 DEF GatherEnds, gathering
    <3>2. CASE ~GatherEnds
      <4>1. UNCHANGED <<waiting, alive, signalled>> /\ pc # "gather"
        BY <2>2, <3>2 DEF Engine, Turn, RunEnds, TurnsUsedUp, Progressing, ReExplore, Validate, Verify,
                          VerifierEnds, Recover, Restore, gathering
      <4> QED BY <4>1
    <3> QED BY <3>1, <3>2
  <2>3. CASE Timers
    BY <2>3 DEF Timers, GatherTimesOut, LaneTimesOut, Degraded, SignalLanes
  <2>4. CASE TimePasses \/ Abort
    BY <2>4 DEF TimePasses, Abort, gathering
  <2>5. CASE \E l \in Lanes : LaneEnds(l)
    BY <2>5 DEF LaneEnds
  <2> QED BY <2>1, <2>2, <2>3, <2>4, <2>5 DEF Next
<1>3. Heard => NoOrphanLane
  BY DEF Heard, NoOrphanLane
<1> QED BY <1>1, <1>2, <1>3, PTL DEF Spec

-----------------------------------------------------------------------------
(***************************************************************************)
(* Exploration for any number of probes.  A lane may give its answer while *)
(* the function that owns the child is anywhere: before the spawn, reading *)
(* the child's output, or past the wait for its end.  The invariant says   *)
(* of each of the three why no child goes on unnoticed.                    *)
(***************************************************************************)
Unborn == parent \in {"skip", "spawn"}
Past == parent \in {"reap", "finally", "remove", "over"}

LaneTypes ==
  /\ lane \in {"running", "counted", "degraded"} /\ laneAborted \in BOOLEAN
  /\ parent \in {"skip", "spawn", "read", "lag", "reap", "finally", "remove", "over"}
  /\ child \in {"none", "running", "over"} /\ killed \in BOOLEAN

LaneSafe ==
  /\ LaneTypes
  /\ Unborn => child = "none"
  /\ Past /\ child = "running" => killed
  /\ NoChildLeft

LEMMA LaneSafeInit == LaneInit => LaneSafe
  BY DEF LaneInit, LaneSafe, LaneTypes, Unborn, Past, NoChildLeft, Settled

\* The lane settles, or is told to: a child that is there gets the signal.
LEMMA LaneKeeps ==
  ASSUME LaneSafe, LaneTimer \/ CallerAborts \/ LaneAnswer
  PROVE  LaneSafe'
<1> USE DEF LaneSafe, LaneTypes, Unborn, Past, NoChildLeft, Settled, Listening
<1>1. CASE LaneTimer
  BY <1>1 DEF LaneTimer, AbortLane
<1>2. CASE CallerAborts
  BY <1>2 DEF CallerAborts, AbortLane
<1>3. CASE LaneAnswer
  BY <1>3 DEF LaneAnswer
<1> QED BY <1>1, <1>2, <1>3

\* The owner of the child: it starts no child for a lane that has answered without
\* killing it, and lets go of none that it has not killed.
LEMMA ParentKeeps ==
  ASSUME LaneSafe, ParentStep
  PROVE  LaneSafe'
<1> USE DEF LaneSafe, LaneTypes, Unborn, Past, NoChildLeft, Settled
<1>1. CASE Skip \/ WriteInput \/ CannotStart
  BY <1>1 DEF Skip, WriteInput, CannotStart
<1>2. CASE Spawn
  BY <1>2 DEF Spawn
<1>3. CASE ReadLine \/ ReadEnds \/ ReadDeadline
  BY <1>3 DEF ReadLine, ReadEnds, ReadDeadline
<1>4. CASE ExitSeen \/ Lags \/ ReapDeadline \/ StderrEnds \/ Finally
  BY <1>4 DEF ExitSeen, Lags, ReapDeadline, StderrEnds, Finally
<1> QED BY <1>1, <1>2, <1>3, <1>4 DEF ParentStep

\* The child does its work, or ends; nothing it does brings it back.
LEMMA ChildKeeps ==
  ASSUME LaneSafe, ChildStep \/ HelperEnds
  PROVE  LaneSafe'
<1>1. /\ UNCHANGED <<lane, laneAborted, parent, killed>>
      /\ child' = child \/ (child = "running" /\ child' = "over")
  BY DEF ChildStep, HelperEnds, Does, Work, Boot, SaveStarts, SaveEnds, NothingToProbe,
         CopyStarts, CopyEnds, ModelEnds, ValidatorStarts, ValidatorEnds, Fails, CleanUp,
         PrintLine, Exits, Dies
<1> QED BY <1>1 DEF LaneSafe, LaneTypes, Unborn, Past, NoChildLeft, Settled

\* Whenever the timer of the lane fires or the caller aborts, and however the child
\* hangs, crashes or lags, none goes on at work behind a lane that has answered.
THEOREM NoneLeft == LaneSpec => []NoChildLeft
<1>1. LaneSafe /\ [LaneNext]_laneVars => LaneSafe'
  <2> SUFFICES ASSUME LaneSafe, [LaneNext]_laneVars PROVE LaneSafe'
    OBVIOUS
  <2>1. CASE UNCHANGED laneVars
    BY <2>1 DEF laneVars, LaneSafe, LaneTypes, Unborn, Past, NoChildLeft, Settled
  <2>2. CASE LaneTimer \/ CallerAborts \/ LaneAnswer
    BY <2>2, LaneKeeps
  <2>3. CASE ParentStep
    BY <2>3, ParentKeeps
  <2>4. CASE ChildStep \/ HelperEnds
    BY <2>4, ChildKeeps
  <2> QED BY <2>1, <2>2, <2>3, <2>4 DEF LaneNext
<1>2. LaneSafe => NoChildLeft
  BY DEF LaneSafe
<1> QED BY LaneSafeInit, <1>1, <1>2, PTL DEF LaneSpec

-----------------------------------------------------------------------------
(***************************************************************************)
(* What a task may spend.  The turns: the second run of the execute phase  *)
(* starts from where the first one stopped, and recovery runs do not count.*)
(***************************************************************************)
Bound == IF opts.midExec /\ opts.reExploreTurn = MaxTurns THEN MaxTurns + 1 ELSE MaxTurns

\* The first run stopped for another exploration.
Stopped == mode = "first" /\ opts.midExec /\ opts.reExploreTurn <= MaxTurns /\ turns = opts.reExploreTurn

TurnsInv ==
  /\ executed \in Nat /\ turns \in Nat /\ opts \in Options /\ mode \in {"first", "rest", "fix"}
  /\ executed <= Bound
  /\ mode = "first" => executed = turns /\ turns <= MaxTurns
  /\ mode = "rest" =>
       opts.midExec /\ opts.reExploreTurn <= MaxTurns /\ executed = turns + opts.reExploreTurn
  /\ pc = "re_explore" /\ history = <<>> => Stopped

LEMMA CallOptions ==
  ASSUME opts \in Options
  PROVE  /\ opts.midExec \in BOOLEAN /\ opts.reExploreTurn \in Nat \ {0}
         /\ MaxTurns \in Nat \ {0} /\ Bound \in {MaxTurns, MaxTurns + 1}
  BY OptionsAssumption, TurnsAssumption DEF Bound

LEMMA TurnsInit == Init => TurnsInv
<1> SUFFICES ASSUME Init PROVE TurnsInv
  OBVIOUS
<1>1. opts \in Options /\ executed = 0 /\ turns = 0 /\ mode = "first" /\ pc = "gather"
  BY DEF Init
<1> QED BY <1>1, CallOptions DEF TurnsInv

\* One more turn stays within the limit of the run.
LEMMA TurnTurns ==
  ASSUME TurnsInv, Turn
  PROVE  TurnsInv'
<1>1. /\ turns < Limit /\ turns' = turns + 1 /\ UNCHANGED <<opts, mode, history>>
      /\ executed' = IF mode = "fix" THEN executed ELSE executed + 1
      /\ pc' # "re_explore"
  BY DEF Turn, Mutate, Go, recovering
<1> USE CallOptions DEF TurnsInv, Bound
<1>2. CASE mode = "first"
  BY <1>1, <1>2 DEF Limit
<1>3. CASE mode = "rest"
  <2>1. Limit = Remaining /\ executed - turns = opts.reExploreTurn
    BY <1>3 DEF Limit
  <2>2. turns + 1 <= Remaining
    BY <1>1, <2>1 DEF Remaining
  <2> QED BY <1>1, <1>3, <2>1, <2>2 DEF Remaining
<1>4. CASE mode = "fix"
  BY <1>1, <1>4
<1> QED BY <1>2, <1>3, <1>4

LEMMA TurnsStep == TurnsInv /\ [Next]_vars => TurnsInv'
<1> SUFFICES ASSUME TurnsInv, [Next]_vars PROVE TurnsInv'
  OBVIOUS
<1> USE CallOptions
<1>1. CASE Turn
  BY <1>1, TurnTurns
<1>2. CASE TurnsUsedUp
  <2>1. /\ mode = "first" /\ turns = Limit /\ opts.midExec /\ turns >= opts.reExploreTurn
        /\ UNCHANGED <<opts, executed, history>>
        /\ \/ pc' = "re_explore" /\ UNCHANGED <<mode, turns>>
           \/ pc' = "execute" /\ mode' = "rest" /\ turns' = 0
    BY <1>2 DEF TurnsUsedUp, Progressing, StartRun, Go, recovering
  <2>2. turns = opts.reExploreTurn /\ opts.reExploreTurn <= MaxTurns
    BY <2>1 DEF TurnsInv, Limit
  <2> QED BY <2>1, <2>2 DEF TurnsInv, Stopped, Bound
<1>3. CASE ReExplore
  <2>1. /\ pc = "re_explore" /\ UNCHANGED <<opts, executed, history>> /\ pc' # "re_explore"
        /\ \/ history = <<>> /\ mode' = "rest" /\ turns' = 0
           \/ UNCHANGED <<mode, turns>>
    BY <1>3 DEF ReExplore, StartRun, Go, recovering
  <2> QED BY <2>1 DEF TurnsInv, Stopped, Bound
<1>4. CASE Recover
  <2>1. /\ UNCHANGED <<opts, executed>> /\ history' = Append(history, Decide(repeated', checkpoint'))
        /\ \/ mode' = "fix" /\ turns' = 0
           \/ UNCHANGED <<mode, turns>>
    BY <1>4 DEF Recover, Carry, StartRun
  <2>2. history' # <<>>
    BY <2>1
  <2> QED BY <2>1, <2>2 DEF TurnsInv, Bound
<1>5. CASE UNCHANGED vars
  BY <1>5 DEF vars, run, recovering, TurnsInv, Stopped, Bound
<1>6. CASE TimePasses \/ Abort \/ GatherEnds \/ Timers \/ (\E l \in Lanes : LaneEnds(l))
  <2>1. UNCHANGED <<opts, run, history>> /\ (pc' = "re_explore" => pc' = pc)
    BY <1>6 DEF TimePasses, Abort, GatherEnds, Timers, GatherTimesOut, LaneTimesOut, Degraded, LaneEnds,
                gatherOnly, recovering, Go
  <2> QED BY <2>1 DEF run, TurnsInv, Stopped, Bound
<1>7. CASE RunEnds \/ Validate \/ Verify \/ VerifierEnds \/ Restore
  <2>1. UNCHANGED <<opts, run, history>> /\ pc' # "re_explore"
    BY <1>7 DEF RunEnds, Validate, Verify, VerifierEnds, RouteNow, Restore, AfterRestore, recovering, Go
  <2> QED BY <2>1 DEF run, TurnsInv, Stopped, Bound
<1> QED BY NextCases, <1>1, <1>2, <1>3, <1>4, <1>5, <1>6, <1>7

(***************************************************************************)
(* The ladder of recovery.  Two local fixes in a row after a restore would *)
(* be the third and fourth fix, with no other approach left to try: for    *)
(* that the attempts do not suffice.                                       *)
(***************************************************************************)
Restored == \E i \in DOMAIN history : history[i] = "checkpoint_restore"
FixedSince == \E i, j \in DOMAIN history :
  i < j /\ history[i] = "checkpoint_restore" /\ history[j] = "local_fix"
OnlyFixes == \A i \in DOMAIN history : history[i] = "local_fix"

Counters ==
  /\ history \in Seq(Actions) /\ recovery.attempts = Len(history)
  /\ recovery.localFix \in Nat /\ recovery.alternative \in Nat /\ recovery.reExplore \in Nat
  /\ recovery.localFix + recovery.alternative + (IF Restored THEN 1 ELSE 0) <= Len(history)
  /\ Len(history) <= MaxRecoveryAttempts
  /\ pc = "recover" => Len(history) < MaxRecoveryAttempts

Marks ==
  /\ Restored => checkpoint # None /\ checkpoint \in recovery.restored /\ recovery.localFix >= 2
  /\ FixedSince => recovery.localFix >= 3
  /\ OnlyFixes => recovery.localFix = Len(history)

LadderInv == Counters /\ Marks /\ Climbs

LEMMA LadderInit == Init => LadderInv
  BY DEF Init, LadderInv, Counters, Marks, Climbs, Restored, FixedSince, OnlyFixes, MaxRecoveryAttempts

\* Where recovery is not deciding, its state stays; it goes on only below the limit.
LEMMA LadderKeeps ==
  ASSUME LadderInv, UNCHANGED <<recovery, checkpoint, history>>,
         pc' = "recover" => pc = "recover" \/ recovery.attempts < MaxRecoveryAttempts
  PROVE  LadderInv'
<1> USE DEF LadderInv
<1>1. Counters'
  BY DEF Counters, Restored
<1>2. Marks' /\ Climbs'
  BY DEF Marks, Climbs, Restored, FixedSince, OnlyFixes
<1> QED BY <1>1, <1>2

LEMMA RecoverClimbs ==
  ASSUME LadderInv, Recover
  PROVE  LadderInv'
<1> DEFINE d == Decide(repeated', checkpoint')
           n == Len(history)
<1>1. /\ pc = "recover" /\ pc' # "recover" /\ history' = Append(history, d)
      /\ checkpoint # None => checkpoint' = checkpoint
      /\ recovery'.attempts = recovery.attempts + 1
      /\ recovery'.localFix = recovery.localFix + Count(d, "local_fix")
      /\ recovery'.alternative = recovery.alternative + Count(d, "alternative_approach")
      /\ recovery'.reExplore = recovery.reExplore + Count(d, "re_explore")
      /\ recovery'.restored = recovery.restored \cup {v \in {checkpoint'} : d = "checkpoint_restore"}
  BY DEF Recover, SaveCheckpoint, KeepsCheckpoint, Carry, Go, StartRun
<1>2. d \in Actions
  BY DEF Decide, Actions
<1>3. d = "checkpoint_restore" => Restorable(checkpoint') /\ recovery.localFix >= 2
  BY DEF Decide
<1>4. d = "local_fix" => ~(recovery.localFix >= 3 /\ recovery.alternative = 0)
  BY DEF Decide
<1> HIDE DEF d
<1>5. Counters /\ Marks /\ Climbs
  BY DEF LadderInv
<1>6. history \in Seq(Actions) /\ n \in Nat /\ DOMAIN history = 1..n
  BY <1>5, LenProperties DEF Counters
<1>7. /\ history' \in Seq(Actions) /\ Len(history') = n + 1 /\ DOMAIN history' = 1..n + 1
      /\ \A i \in 1..n : history'[i] = history[i]
      /\ history'[n + 1] = d
  BY <1>1, <1>2, <1>6, AppendProperties, LenProperties
<1> HIDE DEF n
<1>8. n < 5 /\ recovery.attempts = n
  BY <1>1, <1>5 DEF Counters, MaxRecoveryAttempts, n
<1>9. d = "checkpoint_restore" => ~Restored
  BY <1>1, <1>3, <1>5 DEF Marks, Restorable
<1>10. Restored' <=> Restored \/ d = "checkpoint_restore"
  <2>1. ASSUME Restored PROVE Restored'
    BY <1>6, <1>7, <2>1 DEF Restored
  <2>2. ASSUME d = "checkpoint_restore" PROVE Restored'
    BY <1>6, <1>7, <2>2 DEF Restored
  <2>3. ASSUME Restored', d # "checkpoint_restore" PROVE Restored
    BY <1>6, <1>7, <2>3 DEF Restored
  <2> QED BY <2>1, <2>2, <2>3
<1>11. Counters'
  <2>1. recovery'.localFix \in Nat /\ recovery'.alternative \in Nat /\ recovery'.reExplore \in Nat
    BY <1>1, <1>5 DEF Counters, Count
  <2>2. recovery'.localFix + recovery'.alternative + (IF Restored' THEN 1 ELSE 0) <= n + 1
    <3>1. recovery.localFix + recovery.alternative + (IF Restored THEN 1 ELSE 0) <= n
      BY <1>5 DEF Counters, n
    <3>2. recovery.localFix \in Nat /\ recovery.alternative \in Nat
      BY <1>5 DEF Counters
    <3> QED BY <1>1, <1>6, <1>9, <1>10, <3>1, <3>2 DEF Count
  <2> QED BY <1>1, <1>6, <1>7, <1>8, <2>1, <2>2 DEF Counters, MaxRecoveryAttempts
<1>12. Marks'
  <2>1. ASSUME Restored' PROVE (checkpoint # None /\ checkpoint \in recovery.restored /\ recovery.localFix >= 2)'
    <3>1. recovery.localFix >= 2
      BY <1>3, <1>5, <1>10, <2>1 DEF Marks
    <3>2. recovery'.localFix >= 2
      BY <1>1, <1>5, <3>1 DEF Counters, Count
    <3>3. checkpoint' # None
      BY <1>1, <1>3, <1>5, <1>10, <2>1 DEF Marks, Restorable
    <3>4. checkpoint' \in recovery'.restored
      BY <1>1, <1>5, <1>10, <2>1 DEF Marks
    <3> QED BY <3>2, <3>3, <3>4
  <2>2. ASSUME FixedSince' PROVE recovery'.localFix >= 3
    <3>1. PICK i, j \in 1..n + 1 : i < j /\ history'[i] = "checkpoint_restore" /\ history'[j] = "local_fix"
      BY <1>7, <2>2 DEF FixedSince
    <3>2. i \in 1..n /\ history[i] = "checkpoint_restore" /\ Restored
      BY <1>6, <1>7, <3>1 DEF Restored
    <3>3. recovery.localFix \in Nat /\ recovery.localFix >= 2
      BY <1>5, <3>2 DEF Counters, Marks
    <3>4. CASE j = n + 1
      BY <1>1, <1>7, <3>1, <3>3, <3>4 DEF Count
    <3>5. CASE j \in 1..n
      <4>1. FixedSince
        BY <1>6, <1>7, <3>1, <3>2, <3>5 DEF FixedSince
      <4> QED BY <1>1, <1>5, <3>3, <4>1 DEF Marks, Count
    <3> QED BY <1>6, <3>1, <3>4, <3>5
  <2>3. ASSUME OnlyFixes' PROVE recovery'.localFix = n + 1
    <3>1. OnlyFixes /\ d = "local_fix"
      BY <1>6, <1>7, <2>3 DEF OnlyFixes
    <3> QED BY <1>1, <1>5, <3>1 DEF Marks, Count, n
  <2> QED BY <1>7, <2>1, <2>2, <2>3 DEF Marks
<1>13. Climbs'
  <2>1. ASSUME NEW i \in 1..n + 1, NEW j \in 1..n + 1,
               history'[i] = "checkpoint_restore", history'[j] = "checkpoint_restore"
        PROVE i = j
    <3>1. CASE i \in 1..n /\ j \in 1..n
      BY <1>5, <1>6, <1>7, <2>1, <3>1 DEF Climbs
    <3>2. CASE i = n + 1 \/ j = n + 1
      <4>1. d = "checkpoint_restore" => \A k \in 1..n : history[k] # "checkpoint_restore"
        BY <1>6, <1>9 DEF Restored
      <4> QED BY <1>6, <1>7, <2>1, <3>2, <4>1
    <3> QED BY <1>6, <3>1, <3>2
  <2>2. ASSUME NEW i \in 1..n + 1, NEW j \in 1..n + 1, NEW k \in 1..n + 1, i < j, j < k,
               history'[i] = "checkpoint_restore", history'[j] = "local_fix", history'[k] = "local_fix"
        PROVE \E m \in j..k : history'[m] # "local_fix"
    <3>1. i \in 1..n /\ j \in 1..n /\ history[i] = "checkpoint_restore" /\ history[j] = "local_fix"
      BY <1>6, <1>7, <2>2
    <3>2. CASE k \in 1..n
      <4>1. PICK m \in j..k : history[m] # "local_fix"
        BY <1>5, <1>6, <1>7, <2>2, <3>1, <3>2 DEF Climbs
      <4>2. m \in 1..n
        BY <1>6, <3>1, <3>2
      <4> QED BY <1>7, <4>1, <4>2
    <3>3. CASE k = n + 1
      <4>1. Restored /\ FixedSince /\ d = "local_fix"
        BY <1>6, <1>7, <2>2, <3>1, <3>3 DEF Restored, FixedSince
      <4>2. recovery.localFix >= 3 /\ recovery.alternative # 0
        BY <1>4, <1>5, <4>1 DEF Marks
      <4>3. recovery.localFix + recovery.alternative + 1 <= n
            /\ recovery.localFix \in Nat /\ recovery.alternative \in Nat
        BY <1>5, <4>1 DEF Counters, n
      <4> QED BY <1>6, <1>8, <4>2, <4>3
    <3> QED BY <1>6, <3>2, <3>3
  <2>3. ASSUME n + 1 = MaxRecoveryAttempts PROVE \E i \in 1..n + 1 : history'[i] # "local_fix"
    <3> SUFFICES ASSUME \A i \in 1..n + 1 : history'[i] = "local_fix" PROVE FALSE
      OBVIOUS
    <3>1. OnlyFixes /\ d = "local_fix"
      BY <1>6, <1>7 DEF OnlyFixes
    <3>2. recovery.localFix = n /\ recovery.alternative # 0
      BY <1>4, <1>5, <2>3, <3>1, <1>6 DEF Marks, MaxRecoveryAttempts, n
    <3>3. recovery.localFix + recovery.alternative <= n /\ recovery.alternative \in Nat
      BY <1>5, <1>6 DEF Counters, n
    <3> QED BY <1>6, <3>2, <3>3
  <2> QED BY <1>7, <2>1, <2>2, <2>3 DEF Climbs
<1> QED BY <1>11, <1>12, <1>13 DEF LadderInv

LEMMA LadderStep == LadderInv /\ [Next]_vars => LadderInv'
<1> SUFFICES ASSUME LadderInv, [Next]_vars PROVE LadderInv'
  OBVIOUS
<1>1. CASE Recover
  BY <1>1, RecoverClimbs
<1>2. CASE ~Recover
  <2>1. UNCHANGED <<recovery, checkpoint, history>>
    <3>1. CASE UNCHANGED vars
      BY <3>1 DEF vars, recovering
    <3>2. CASE Next
      BY <1>2, <3>2, NextCases DEF recovering, TimePasses, Abort, GatherEnds, Timers, GatherTimesOut,
         LaneTimesOut, LaneEnds, gatherOnly, RunEnds, TurnsUsedUp, ReExplore, Turn, Validate, Verify,
         VerifierEnds, Restore
    <3> QED BY <3>1, <3>2
  <2>2. pc' = "recover" => pc = "recover" \/ recovery.attempts < MaxRecoveryAttempts
    <3>1. CASE UNCHANGED vars
      BY <3>1 DEF vars
    <3>2. CASE TimePasses \/ Abort \/ GatherEnds \/ Timers \/ (\E l \in Lanes : LaneEnds(l))
      BY <3>2 DEF TimePasses, Abort, GatherEnds, Timers, GatherTimesOut, LaneTimesOut, LaneEnds, Go
    <3>3. CASE RunEnds \/ TurnsUsedUp \/ ReExplore \/ Turn \/ Validate \/ Restore
      BY <3>3 DEF RunEnds, TurnsUsedUp, Progressing, StartRun, ReExplore, Turn, Mutate, Validate, Restore,
                  AfterRestore, Go
    <3>4. CASE Verify \/ VerifierEnds
      BY <3>4 DEF Verify, VerifierEnds, RouteNow, Go
    <3> QED BY <1>2, NextCases, <3>1, <3>2, <3>3, <3>4
  <2> QED BY <2>1, <2>2, LadderKeeps
<1> QED BY <1>1, <1>2

(***************************************************************************)
(* The calls beside the executor.  What a call has spent is either in its  *)
(* usage or in the run it is at; one that has answered, or that its caller *)
(* has given up, is over or has its signal aborted.                        *)
(***************************************************************************)
CallRecord ==
  [kind : Side!Kinds \cup {"none"}, at : Side!Steps \cup {"over"},
   caller : {"none", "waiting", "answered", "degraded"}, aborted : BOOLEAN, asking : BOOLEAN,
   turns : Nat, run : Nat, said : BOOLEAN, usage : Nat, spent : Nat]

Counting(c) ==
  c.kind # "synthesis" =>
    /\ c.at \notin {"first", "second"}
    /\ c.at # "over" => c.usage + c.run = c.spent
    /\ c.caller = "answered" => c.at = "over" /\ c.usage = c.spent
Hearing(c) ==
  /\ c.asking => c.at # "over"
  /\ c.at # "over" /\ ~c.aborted => c.caller = "waiting"

Kept(c) == c \in CallRecord /\ Counting(c) /\ Hearing(c)

\* No request of the call is out.
Rests(c) == Kept(c) /\ ~c.asking

CallsInv == DOMAIN calls = Side!Indices /\ \A i \in Side!Indices : Kept(calls[i])

\* All that was spent is in the usage, but for synthesis, or the call has ended.
Summed(c) ==
  /\ c \in CallRecord /\ Hearing(c) /\ c.at # "over"
  /\ c.kind # "synthesis" =>
       c.at \notin {"first", "second"} /\ c.caller # "answered" /\ c.usage = c.spent

\* A call goes on to another run.
LEMMA NextRunKept ==
  ASSUME NEW c, Summed(c), NEW at \in Side!Steps, c.kind = "synthesis" \/ at \notin {"first", "second"}
  PROVE  Rests(Side!NextRun(c, at))
<1> DEFINE d == Side!NextRun(c, at)
<1>1. d \in CallRecord
  BY DEF Side!NextRun, Summed, CallRecord
<1>2. /\ d.kind = c.kind /\ d.at = at /\ d.caller = c.caller /\ d.aborted = c.aborted
      /\ d.asking = FALSE /\ d.run = 0 /\ d.usage = c.usage /\ d.spent = c.spent
  BY DEF Side!NextRun, Summed, CallRecord
<1> HIDE DEF d
<1>3. c.usage \in Nat
  BY DEF Summed, CallRecord
<1>4. Counting(d)
  BY <1>2, <1>3 DEF Summed, Counting
<1>5. Hearing(d)
  BY <1>2 DEF Summed, Hearing
<1> QED BY <1>1, <1>2, <1>4, <1>5 DEF Rests, Kept, d

\* It returns its value, with the usage.
LEMMA ReturnKept ==
  ASSUME NEW c, Summed(c)
  PROVE  Rests(Side!Return(c))
<1> DEFINE d == Side!Return(c)
<1>1. d \in CallRecord
  BY DEF Side!Return, Summed, CallRecord
<1>2. d.kind = c.kind /\ d.at = "over" /\ d.asking = FALSE /\ d.usage = c.usage /\ d.spent = c.spent
  BY DEF Side!Return, Summed, CallRecord
<1> HIDE DEF d
<1> QED BY <1>1, <1>2 DEF Rests, Kept, Counting, Hearing, Summed, d

\* It ends without one: nothing is said of the usage.
LEMMA DegradeKept ==
  ASSUME NEW c \in CallRecord, c.kind # "synthesis" => c.caller # "answered"
  PROVE  Rests(Side!Degrade(c))
<1> DEFINE d == Side!Degrade(c)
<1>1. d \in CallRecord
  BY DEF Side!Degrade, CallRecord
<1>2. /\ d.kind = c.kind /\ d.at = "over" /\ d.asking = FALSE
      /\ d.caller = IF c.caller = "waiting" THEN "degraded" ELSE c.caller
  BY DEF Side!Degrade, CallRecord
<1> HIDE DEF d
<1> QED BY <1>1, <1>2 DEF Rests, Kept, Counting, Hearing, d

\* addUsage at the end of a run.
LEMMA AddedSums ==
  ASSUME NEW c, Kept(c), c.at # "over"
  PROVE  /\ Summed(Side!Added(c)) /\ Side!Added(c).at = c.at /\ Side!Added(c).kind = c.kind
<1> DEFINE d == Side!Added(c)
<1>1. d \in CallRecord
  <2>1. (IF c.at = "second" THEN 0 ELSE c.usage) + c.run \in Nat
    BY DEF Kept, CallRecord
  <2> QED BY <2>1 DEF Side!Added, Kept, CallRecord
<1>2. /\ d.kind = c.kind /\ d.at = c.at /\ d.caller = c.caller /\ d.aborted = c.aborted
      /\ d.asking = c.asking /\ d.spent = c.spent
      /\ d.usage = (IF c.at = "second" THEN 0 ELSE c.usage) + c.run
  BY DEF Side!Added, Kept, CallRecord
<1> HIDE DEF d
<1> QED BY <1>1, <1>2 DEF Kept, Counting, Hearing, Summed, d

LEMMA RunOverKept ==
  ASSUME NEW c, Kept(c), c.at # "over", NEW json \in BOOLEAN
  PROVE  Rests(Side!RunOver(c, json))
<1> DEFINE a == Side!Added(c)
<1>1. Summed(a) /\ a.at = c.at /\ a.kind = c.kind
  BY AddedSums
<1>2. a \in CallRecord /\ (a.kind # "synthesis" => a.caller # "answered")
  BY <1>1 DEF Summed
<1>3. c.at \in {"gather", "final", "retry", "first", "second"}
  BY DEF Kept, CallRecord, Side!Steps
<1>4. c.at = "first" => a.kind = "synthesis"
  BY <1>1 DEF Kept, Counting
<1>5. Rests(Side!NextRun([a EXCEPT !.said = @ \/ json], "final"))
  <2> DEFINE b == [a EXCEPT !.said = @ \/ json]
  <2> HIDE DEF a
  <2>1. b \in CallRecord /\ b.at = a.at /\ b.kind = a.kind /\ b.caller = a.caller /\ b.usage = a.usage
        /\ b.spent = a.spent /\ b.asking = a.asking /\ b.aborted = a.aborted
    BY <1>2 DEF CallRecord
  <2> HIDE DEF b
  <2>2. Summed(b)
    BY <1>1, <2>1 DEF Summed, Hearing
  <2> QED BY <2>2, NextRunKept DEF Side!Steps, b
<1>6. Rests(Side!NextRun(a, "retry"))
  BY <1>1, NextRunKept DEF Side!Steps
<1>7. c.at = "first" => Rests(Side!NextRun(a, "second"))
  BY <1>1, <1>4, NextRunKept DEF Side!Steps
<1>8. Rests(Side!Return(a)) /\ Rests(Side!Degrade(a))
  BY <1>1, <1>2, ReturnKept, DegradeKept
<1> HIDE DEF a
<1>9. Side!RunOver(c, json) \in
        {Side!NextRun([a EXCEPT !.said = @ \/ json], "final"), Side!NextRun(a, "retry"), Side!Return(a),
         Side!Degrade(a)} \cup (IF c.at = "first" THEN {Side!NextRun(a, "second")} ELSE {})
  BY <1>3 DEF Side!RunOver, a
<1> QED BY <1>5, <1>6, <1>7, <1>8, <1>9

\* A response is paid for where it comes in.
LEMMA PaidKept ==
  ASSUME NEW c, Kept(c), c.at # "over"
  PROVE  Rests(Side!Paid(c)) /\ Side!Paid(c).at = c.at
<1> DEFINE d == Side!Paid(c)
<1>1. d \in CallRecord
  <2>1. c \in CallRecord /\ c.run + 1 \in Nat /\ c.spent + 1 \in Nat
    BY DEF Kept, CallRecord
  <2> QED BY <2>1 DEF Side!Paid, CallRecord
<1>2. /\ d.kind = c.kind /\ d.at = c.at /\ d.caller = c.caller /\ d.aborted = c.aborted
      /\ d.asking = FALSE /\ d.spent = c.spent + 1 /\ d.run = c.run + 1 /\ d.usage = c.usage
      /\ c.usage \in Nat /\ c.run \in Nat /\ c.spent \in Nat
  BY DEF Side!Paid, Kept, CallRecord
<1> HIDE DEF d
<1> QED BY <1>1, <1>2 DEF Rests, Kept, Counting, Hearing, d

LEMMA ThrowsKept ==
  ASSUME NEW c, Kept(c), c.at # "over"
  PROVE  Rests(Side!RunThrows(c))
<1>1. CASE c.at = "first"
  <2>1. Summed(c) /\ c.kind = "synthesis"
    BY <1>1 DEF Kept, Counting, Summed
  <2> QED BY <1>1, <2>1, NextRunKept DEF Side!RunThrows, Side!Steps
<1>2. CASE c.at # "first"
  <2>1. c \in CallRecord /\ (c.kind # "synthesis" => c.caller # "answered")
    BY DEF Kept, Counting
  <2> QED BY <1>2, <2>1, DegradeKept DEF Side!RunThrows
<1> QED BY <1>1, <1>2

\* What one call goes through leaves the others alone.
LEMMA UpdateKept ==
  ASSUME CallsInv, NEW i \in Side!Indices, NEW c, Kept(c), Side!Update(i, c)
  PROVE  CallsInv'
<1>1. DOMAIN calls' = DOMAIN calls /\ \A k \in Side!Indices : calls'[k] = IF k = i THEN c ELSE calls[k]
  BY DEF Side!Update, CallsInv
<1> QED BY <1>1 DEF CallsInv

\* Only a call whose signal is not aborted sends a request.
LEMMA SendKept ==
  ASSUME CallsInv, NEW i \in Side!Indices, Side!Send(i)
  PROVE  CallsInv' /\ \A k \in Side!Indices : ~calls[k].asking /\ calls'[k].asking => Side!Waiting(k)
<1> DEFINE c == calls[i]
           d == [c EXCEPT !.asking = TRUE, !.turns = @ + 1]
<1>1. Kept(c) /\ c.at # "over" /\ ~c.aborted /\ Side!Update(i, d)
  BY DEF Side!Send, Side!Open, Side!Steps, CallsInv
<1>2. c.caller = "waiting"
  BY <1>1 DEF Kept, Hearing
<1> HIDE DEF c
<1>3. d \in CallRecord
  <2>1. c \in CallRecord /\ c.turns + 1 \in Nat
    BY <1>1 DEF Kept, CallRecord
  <2> QED BY <2>1 DEF CallRecord
<1>4. /\ d.kind = c.kind /\ d.at = c.at /\ d.caller = c.caller /\ d.usage = c.usage /\ d.run = c.run
      /\ d.spent = c.spent
  BY <1>1 DEF Kept, CallRecord
<1> HIDE DEF d
<1>5. Kept(d)
  BY <1>1, <1>2, <1>3, <1>4 DEF Kept, Counting, Hearing
<1>6. CallsInv'
  BY <1>1, <1>5, UpdateKept
<1>7. \A k \in Side!Indices : k # i => calls'[k] = calls[k]
  BY <1>1 DEF Side!Update, CallsInv
<1> QED BY <1>2, <1>6, <1>7 DEF Side!Waiting, c

\* A run comes to its end, or the call does: no request goes out.
Silent == \A k \in Side!Indices : calls'[k].asking => calls[k].asking

LEMMA UpdateSilent ==
  ASSUME CallsInv, NEW i \in Side!Indices, NEW c, Rests(c), Side!Update(i, c)
  PROVE  CallsInv' /\ Silent
<1>1. CallsInv'
  BY UpdateKept DEF Rests
<1>2. \A k \in Side!Indices : calls'[k] = IF k = i THEN c ELSE calls[k]
  BY DEF Side!Update, CallsInv
<1> QED BY <1>1, <1>2 DEF Silent, Rests

LEMMA RunEndsKept ==
  ASSUME CallsInv, NEW i \in Side!Indices, Side!LastTurn(i) \/ Side!StopsShort(i) \/ Side!Throws(i)
  PROVE  CallsInv' /\ Silent
<1> DEFINE c == calls[i]
<1>1. Kept(c) /\ c.at # "over"
  BY DEF Side!LastTurn, Side!StopsShort, Side!Throws, Side!Open, Side!Steps, CallsInv, Kept, Hearing
<1> HIDE DEF c
<1>2. CASE Side!LastTurn(i)
  <2>1. PICK json \in BOOLEAN : Side!Update(i, Side!RunOver(Side!Paid(c), json))
    BY <1>2 DEF Side!LastTurn, c
  <2>2. Kept(Side!Paid(c)) /\ Side!Paid(c).at # "over"
    BY <1>1, PaidKept DEF Rests
  <2>3. Rests(Side!RunOver(Side!Paid(c), json))
    BY <2>2, RunOverKept
  <2> QED BY <2>1, <2>3, UpdateSilent
<1>3. CASE Side!StopsShort(i)
  <2>1. Side!Update(i, Side!RunOver(c, FALSE))
    BY <1>3 DEF Side!StopsShort, c
  <2>2. Rests(Side!RunOver(c, FALSE))
    BY <1>1, RunOverKept
  <2> QED BY <2>1, <2>2, UpdateSilent
<1>4. CASE Side!Throws(i)
  <2>1. Side!Update(i, Side!RunThrows(c))
    BY <1>4 DEF Side!Throws, c
  <2>2. Rests(Side!RunThrows(c))
    BY <1>1, ThrowsKept
  <2> QED BY <2>1, <2>2, UpdateSilent
<1> QED BY <1>2, <1>3, <1>4

\* A response with tool calls ends the run at its last turn only.
LEMMA ToolTurnKept ==
  ASSUME CallsInv, NEW i \in Side!Indices, Side!ToolTurn(i)
  PROVE  CallsInv' /\ Silent
<1> DEFINE c == Side!Paid(calls[i])
<1>1. Kept(calls[i]) /\ calls[i].at # "over"
  BY DEF Side!ToolTurn, CallsInv
<1>2. Rests(c) /\ c.at # "over"
  BY <1>1, PaidKept
<1>3. PICK json \in BOOLEAN :
        Side!Update(i, IF c.turns = Side!Limit(c) THEN Side!RunOver(c, json)
                       ELSE [c EXCEPT !.said = @ \/ json])
  BY DEF Side!ToolTurn
<1> HIDE DEF c
<1>4. Rests(Side!RunOver(c, json))
  BY <1>2, RunOverKept DEF Rests
<1> DEFINE d == [c EXCEPT !.said = @ \/ json]
<1>5. Rests(d)
  <2>1. d \in CallRecord
    BY <1>2 DEF Rests, Kept, CallRecord
  <2>2. /\ d.kind = c.kind /\ d.at = c.at /\ d.caller = c.caller /\ d.aborted = c.aborted
        /\ d.asking = c.asking /\ d.usage = c.usage /\ d.run = c.run /\ d.spent = c.spent
    BY <1>2 DEF Rests, Kept, CallRecord
  <2> HIDE DEF d
  <2> QED BY <1>2, <2>1, <2>2 DEF Rests, Kept, Counting, Hearing
<1> HIDE DEF d
<1>6. Side!Update(i, Side!RunOver(c, json)) \/ Side!Update(i, d)
  BY <1>3 DEF d
<1> QED BY <1>4, <1>5, <1>6, UpdateSilent

\* The timer and the caller abort: the call has its signal before it is given up.
LEMMA GivenUpKept ==
  ASSUME CallsInv, NEW i \in Side!Indices, Side!TimerFires(i) \/ Side!CallerAborts(i)
  PROVE  CallsInv' /\ Silent
<1> DEFINE c == calls[i]
           d == [c EXCEPT !.caller = "degraded", !.aborted = TRUE]
           e == [c EXCEPT !.aborted = TRUE]
<1>1. Kept(c) /\ c.caller = "waiting"
  BY DEF Side!TimerFires, Side!CallerAborts, Side!Waiting, CallsInv
<1>2. Side!Update(i, d) \/ Side!Update(i, e)
  BY DEF Side!TimerFires, Side!CallerAborts
<1> HIDE DEF c
<1>3. d \in CallRecord /\ e \in CallRecord
  BY <1>1 DEF Kept, CallRecord
<1>4. /\ d.kind = c.kind /\ d.at = c.at /\ d.caller = "degraded" /\ d.aborted = TRUE
      /\ d.asking = c.asking /\ d.usage = c.usage /\ d.run = c.run /\ d.spent = c.spent
  BY <1>1 DEF Kept, CallRecord
<1>5. /\ e.kind = c.kind /\ e.at = c.at /\ e.caller = "waiting" /\ e.aborted = TRUE
      /\ e.asking = c.asking /\ e.usage = c.usage /\ e.run = c.run /\ e.spent = c.spent
  BY <1>1 DEF Kept, CallRecord
<1> HIDE DEF d, e
<1>6. Kept(d) /\ Kept(e)
  BY <1>1, <1>3, <1>4, <1>5 DEF Kept, Counting, Hearing
<1>7. PICK f \in {d, e} : Side!Update(i, f)
  BY <1>2
<1>8. CallsInv'
  BY <1>6, <1>7, UpdateKept
<1>9. \A k \in Side!Indices : calls'[k] = IF k = i THEN f ELSE calls[k]
  BY <1>7 DEF Side!Update, CallsInv
<1> QED BY <1>4, <1>5, <1>8, <1>9 DEF Silent, c

LEMMA CallKept ==
  ASSUME CallsInv, NEW kind \in Side!Kinds, NEW at \in Side!Steps, Side!Call(kind, at),
         kind = "synthesis" \/ at \notin {"first", "second"}
  PROVE  CallsInv' /\ Silent
<1> DEFINE c == [Side!Unmade EXCEPT !.kind = kind, !.caller = "waiting", !.at = at]
<1>1. /\ Side!Unmade \in CallRecord /\ Side!Unmade.asking = FALSE
      /\ Side!Unmade.usage = 0 /\ Side!Unmade.run = 0 /\ Side!Unmade.spent = 0
  BY DEF Side!Unmade, CallRecord
<1>2. Rests(c)
  <2>1. c \in CallRecord
    BY <1>1 DEF CallRecord
  <2>2. /\ c.kind = kind /\ c.caller = "waiting" /\ c.at = at /\ c.asking = FALSE
        /\ c.usage = 0 /\ c.run = 0 /\ c.spent = 0
    BY <1>1 DEF CallRecord
  <2>3. "over" \notin Side!Steps
    BY DEF Side!Steps
  <2> HIDE DEF c
  <2>4. Counting(c) /\ Hearing(c) /\ ~c.asking
    BY <2>2, <2>3 DEF Counting, Hearing
  <2> QED BY <2>1, <2>4 DEF Rests, Kept
<1>3. Side!Update(made', c)
  BY DEF Side!Call
<1> HIDE DEF c
<1>4. CASE made' \in Side!Indices
  BY <1>2, <1>3, <1>4, UpdateSilent
<1>5. CASE made' \notin Side!Indices
  <2>1. DOMAIN calls' = DOMAIN calls /\ \A k \in Side!Indices : calls'[k] = calls[k]
    BY <1>3, <1>5 DEF Side!Update, CallsInv
  <2> QED BY <2>1 DEF CallsInv, Silent
<1> QED BY <1>4, <1>5

LEMMA CallsStep ==
  CallsInv /\ [Side!SubagentNext]_(Side!subagentVars) =>
    CallsInv' /\ \A k \in Side!Indices : ~calls[k].asking /\ calls'[k].asking => Side!Waiting(k)
<1> SUFFICES ASSUME CallsInv, [Side!SubagentNext]_(Side!subagentVars)
             PROVE  \/ CallsInv' /\ Silent
                    \/ CallsInv' /\ \A k \in Side!Indices :
                         ~calls[k].asking /\ calls'[k].asking => Side!Waiting(k)
  BY DEF Silent
<1>1. CASE Side!Ask
  <2>1. PICK kind \in Side!Kinds \ {"synthesis"}, at \in Side!FirstStep : Side!Call(kind, at)
    BY <1>1 DEF Side!Ask
  <2>2. kind \in Side!Kinds /\ at \in Side!Steps /\ at \notin {"first", "second"}
    BY DEF Side!FirstStep, Side!Steps
  <2> QED BY <2>1, <2>2, CallKept
<1>2. CASE Side!Synthesize
  <2>1. Side!Call("synthesis", "first") /\ "synthesis" \in Side!Kinds /\ "first" \in Side!Steps
    BY <1>2 DEF Side!Synthesize, Side!Kinds, Side!Steps
  <2> QED BY <2>1, CallKept
<1>3. CASE Side!DeadlineNears \/ UNCHANGED Side!subagentVars
  <2>1. calls' = calls
    BY <1>3 DEF Side!DeadlineNears, Side!subagentVars
  <2> QED BY <2>1 DEF CallsInv, Silent
<1>4. ASSUME NEW i \in Side!Indices, Side!Send(i)
      PROVE  CallsInv' /\ \A k \in Side!Indices : ~calls[k].asking /\ calls'[k].asking => Side!Waiting(k)
  BY <1>4, SendKept
<1>5. ASSUME NEW i \in Side!Indices, Side!ToolTurn(i) PROVE CallsInv' /\ Silent
  BY <1>5, ToolTurnKept
<1>6. ASSUME NEW i \in Side!Indices, Side!LastTurn(i) \/ Side!StopsShort(i) \/ Side!Throws(i)
      PROVE  CallsInv' /\ Silent
  BY <1>6, RunEndsKept
<1>7. ASSUME NEW i \in Side!Indices, Side!TimerFires(i) \/ Side!CallerAborts(i)
      PROVE  CallsInv' /\ Silent
  BY <1>7, GivenUpKept
<1> QED BY <1>1, <1>2, <1>3, <1>4, <1>5, <1>6, <1>7 DEF Side!SubagentNext

LEMMA CallsInit == Side!SubagentInit => CallsInv
<1> SUFFICES ASSUME Side!SubagentInit PROVE CallsInv
  OBVIOUS
<1>1. calls = [i \in Side!Indices |-> Side!Unmade]
  BY DEF Side!SubagentInit
<1>2. Kept(Side!Unmade)
  <2>1. Side!Unmade \in CallRecord
    BY DEF Side!Unmade, CallRecord
  <2> QED BY <2>1 DEF Kept, Counting, Hearing, Side!Unmade
<1> QED BY <1>1, <1>2 DEF CallsInv

\* The usage that comes with an answer of the planner or the verifier is that of all its
\* responses (runSubagentJson), the two runs of execution keep to maxTurns together, and
\* recovery goes up its ladder: for any limits, however the calls and runs end.
THEOREM SpentOnce == Spec /\ Side!SubagentSpec => []Accounted
<1>1. CallsInv => Side!UsageCounted
  BY DEF CallsInv, Kept, Counting, Side!UsageCounted
<1>2. TurnsInv => TurnBudget
  BY DEF TurnsInv, TurnBudget, Bound
<1>3. LadderInv => Climbs
  BY DEF LadderInv
<1>4. CallsInv /\ [Side!SubagentNext]_(Side!subagentVars) => CallsInv'
  BY CallsStep
<1>5. CallsInv /\ TurnsInv /\ LadderInv => Accounted
  BY <1>1, <1>2, <1>3 DEF Accounted
<1> QED BY <1>4, <1>5, CallsInit, TurnsInit, TurnsStep, LadderInit, LadderStep, PTL
        DEF Spec, Side!SubagentSpec

\* Only a call its caller still waits for sends a request (runWithPhaseBudget aborts
\* before it degrades).
THEOREM GivenUpIsQuiet == Side!SubagentSpec => QuietOnceGivenUp
<1>1. CallsInv /\ [Side!SubagentNext]_(Side!subagentVars) =>
        CallsInv' /\ [\A i \in Side!Indices :
                        ~calls[i].asking /\ calls'[i].asking => Side!Waiting(i)]_(Side!subagentVars)
  BY CallsStep
<1> QED BY <1>1, CallsInit, PTL DEF Side!SubagentSpec, QuietOnceGivenUp, Side!QuietOnceGivenUp

-----------------------------------------------------------------------------
(* Validation: which validators the ladder finds.  What Filter computes is  *)
(* proved by induction over the length of the list, as in TurnRunnerProofs. *)

\* Induction up to a bound, and the existence of functions defined by recursion.
LEMMA Induction ==
  ASSUME NEW N \in Nat, NEW P, 0 \in P, \A n \in 0..N - 1 : n \in P => n + 1 \in P
  PROVE  0..N \subseteq P
<1> DEFINE Bad == {n \in 0..N : n \notin P}
<1> SUFFICES ASSUME Bad # {} PROVE FALSE
  OBVIOUS
<1> DEFINE Less == OpToRel(<, Nat)
<1>1. Bad \subseteq Nat /\ \A x, y \in Nat : y < x => <<y, x>> \in Less
  BY DEF OpToRel
<1>2. IsWellFoundedOn(Less, Nat)
  BY NatLessThanWellFounded
<1> HIDE DEF Less, Bad
<1>3. PICK x \in Bad : \A y \in Bad : ~(<<y, x>> \in Less)
  BY <1>1, <1>2, WFMin
<1>4. \A y \in Bad : ~(y < x)
  BY <1>1, <1>3
<1> USE DEF Bad
<1>5. x \in 1..N /\ x - 1 \in 0..N - 1 /\ x - 1 \notin Bad
  BY <1>4
<1> QED BY <1>5

\* g is what the recursion from a by the functions F comes to.
Iterates(g, N, S, a, F) ==
  g[0] = a /\ \A n \in 1..N : g[n - 1] \in S => g[n] = F[n][g[n - 1]]

LEMMA Recursion ==
  ASSUME NEW N \in Nat, NEW S, NEW a \in S, NEW F \in [1..N -> [S -> S]]
  PROVE  \E f \in [0..N -> S] : Iterates(f, N, S, a, F)
<1> DEFINE Obeys(f, m) == f[0] = a /\ \A n \in 1..m : f[n] = F[n][f[n - 1]]
           P == {m \in 0..N : \E f \in [0..m -> S] : Obeys(f, m)}
<1>1. 0 \in P
  <2> DEFINE g == [n \in 0..0 |-> a]
  <2>1. g \in [0..0 -> S] /\ Obeys(g, 0)
    OBVIOUS
  <2> HIDE DEF g
  <2> QED BY <2>1
<1>2. ASSUME NEW m \in 0..N - 1, m \in P
      PROVE  m + 1 \in P
  <2>1. PICK f \in [0..m -> S] : Obeys(f, m)
    BY <1>2
  <2> DEFINE g == [n \in 0..m + 1 |-> IF n = m + 1 THEN F[m + 1][f[m]] ELSE f[n]]
  <2>2. f[m] \in S /\ m + 1 \in 1..N
    OBVIOUS
  <2>3. F[m + 1][f[m]] \in S
    BY <2>2
  <2>4. g \in [0..m + 1 -> S]
    BY <2>3
  <2>5. Obeys(g, m + 1)
    BY <2>1
  <2> HIDE DEF g
  <2> QED BY <2>4, <2>5
<1>3. N \in P
  <2> HIDE DEF P
  <2>1. 0..N \subseteq P
    BY <1>1, <1>2, Induction
  <2> QED BY <2>1
<1> QED BY <1>3 DEF Iterates

Els(s) == {s[i] : i \in 1..Len(s)}

LEMMA ElsAppend ==
  ASSUME NEW S, NEW s \in Seq(S), NEW x \in S
  PROVE  /\ Append(s, x) \in Seq(S) /\ Els(Append(s, x)) = Els(s) \cup {x}
         /\ s # <<>> => (Append(s, x) # <<>> /\ Append(s, x)[1] = s[1])
<1>1. Append(s, x) \in Seq(S) /\ Els(Append(s, x)) = Els(s) \cup {x}
  BY AppendProperties DEF Els
<1>2. s # <<>> => (Append(s, x) # <<>> /\ Append(s, x)[1] = s[1])
  BY AppendProperties
<1> QED BY <1>1, <1>2

LEMMA ElsConcat ==
  ASSUME NEW S, NEW s \in Seq(S), NEW t \in Seq(S)
  PROVE  /\ s \o t \in Seq(S) /\ Els(s \o t) = Els(s) \cup Els(t)
         /\ s # <<>> => (s \o t # <<>> /\ (s \o t)[1] = s[1])
<1>1. s \o t \in Seq(S) /\ Len(s \o t) = Len(s) + Len(t) /\ Len(s) \in Nat /\ Len(t) \in Nat
  BY ConcatProperties, LenProperties
<1>2. \A i \in 1..Len(s) + Len(t) : (s \o t)[i] = IF i <= Len(s) THEN s[i] ELSE t[i - Len(s)]
  BY ConcatProperties
<1>3. Els(s \o t) \subseteq Els(s) \cup Els(t)
  BY <1>1, <1>2 DEF Els
<1>4. Els(s) \subseteq Els(s \o t)
  BY <1>1, <1>2 DEF Els
<1>5. Els(t) \subseteq Els(s \o t)
  <2> SUFFICES ASSUME NEW i \in 1..Len(t) PROVE t[i] \in Els(s \o t)
    BY DEF Els
  <2>1. (s \o t)[Len(s) + i] = t[i] /\ Len(s) + i \in 1..Len(s \o t)
    BY <1>1, <1>2
  <2> QED BY <2>1 DEF Els
<1>6. s # <<>> => (s \o t # <<>> /\ (s \o t)[1] = s[1])
  BY <1>1, <1>2
<1> QED BY <1>1, <1>3, <1>4, <1>5, <1>6

\* The first n elements of a list.
LEMMA ElsHead ==
  ASSUME NEW S, NEW s \in Seq(S), NEW n \in 0..Len(s)
  PROVE  /\ SubSeq(s, 1, n) \in Seq(S) /\ Len(SubSeq(s, 1, n)) = n
         /\ Els(SubSeq(s, 1, n)) \subseteq Els(s)
         /\ n # 0 => (SubSeq(s, 1, n) # <<>> /\ SubSeq(s, 1, n)[1] = s[1])
<1>1. SubSeq(s, 1, n) \in Seq(S) /\ Len(SubSeq(s, 1, n)) = n
  BY LenProperties, SubSeqProperties
<1>2. \A i \in 1..n : SubSeq(s, 1, n)[i] = s[i]
  BY LenProperties, SubSeqProperties
<1> QED BY <1>1, <1>2 DEF Els

\* What is left by Filter is what was at the positions, the first one first.
FilterSteps(s, ps) ==
  CHOOSE kept : kept = [n \in 0..Len(s) |->
                          IF n = 0 THEN <<>>
                          ELSE IF n \in ps THEN Append(kept[n - 1], s[n]) ELSE kept[n - 1]]

LEMMA FilterExists ==
  ASSUME NEW S, NEW s \in Seq(S), NEW ps
  PROVE  LET kept == FilterSteps(s, ps) IN
         /\ kept[0] = <<>>
         /\ \A n \in 1..Len(s) :
              kept[n] = IF n \in ps THEN Append(kept[n - 1], s[n]) ELSE kept[n - 1]
         /\ \A n \in 0..Len(s) : kept[n] \in Seq(S)
<1> DEFINE N == Len(s)
           T == Seq(S)
           After(x, n) == IF n \in ps THEN Append(x, s[n]) ELSE x
           F == [n \in 1..N |-> [x \in T |-> After(x, n)]]
           Obeys(f) == f = [n \in 0..N |-> IF n = 0 THEN <<>> ELSE After(f[n - 1], n)]
<1>1. N \in Nat /\ <<>> \in T
  BY LenProperties
<1>2. F \in [1..N -> [T -> T]]
  BY LenProperties, AppendProperties
<1>3. \A n \in 1..N, x \in T : F[n][x] = After(x, n)
  OBVIOUS
<1>4. FilterSteps(s, ps) = CHOOSE f : Obeys(f)
  BY DEF FilterSteps
<1> HIDE DEF N, T, F, After
<1>5. PICK f \in [0..N -> T] : Iterates(f, N, T, <<>>, F)
  BY <1>1, <1>2, Recursion
<1>6. Obeys(f)
  <2>1. \A n \in 1..N : f[n - 1] \in T
    BY <1>1
  <2>2. f[0] = <<>> /\ \A n \in 1..N : f[n] = After(f[n - 1], n)
    BY <1>3, <1>5, <2>1 DEF Iterates
  <2> QED BY <1>1, <2>2
<1>7. Obeys(FilterSteps(s, ps))
  <2> HIDE DEF Obeys
  <2> QED BY <1>4, <1>6
<1> DEFINE g == FilterSteps(s, ps)
<1>8. g[0] = <<>> /\ \A n \in 1..N : g[n] = After(g[n - 1], n)
  BY <1>1, <1>7
<1> HIDE DEF g
<1> DEFINE P == {n \in 0..N : g[n] \in T}
<1>9. 0 \in P
  BY <1>1, <1>8
<1>10. ASSUME NEW n \in 0..N - 1, n \in P PROVE n + 1 \in P
  <2>1. n + 1 \in 1..N /\ (n + 1) - 1 = n
    BY <1>1
  <2>2. g[n + 1] = After(g[n], n + 1) /\ g[n] \in T
    BY <1>8, <1>10, <2>1
  <2>3. s[n + 1] \in S
    BY <2>1 DEF N
  <2>4. After(g[n], n + 1) \in T
    BY <2>2, <2>3, AppendProperties DEF T, After
  <2> QED BY <2>1, <2>2, <2>4
<1>11. 0..N \subseteq P
  <2> HIDE DEF P
  <2> QED BY <1>1, <1>9, <1>10, Induction
<1> QED BY <1>8, <1>11 DEF g, N, T, After

LEMMA Filtered ==
  ASSUME NEW S, NEW s \in Seq(S), NEW ps
  PROVE  LET f == Ladder!Filter(s, ps) IN
         /\ f \in Seq(S)
         /\ Els(f) = {s[i] : i \in ps \cap (1..Len(s))}
         /\ (s # <<>> /\ 1 \in ps) => (f # <<>> /\ f[1] = s[1])
         /\ 1..Len(s) \subseteq ps => f = s
<1> DEFINE N == Len(s)
           g == FilterSteps(s, ps)
           Upto(n) == {s[i] : i \in ps \cap (1..n)}
           Leads(n) == (n # 0 /\ 1 \in ps) => (g[n] # <<>> /\ g[n][1] = s[1])
           Whole(n) == 1..n \subseteq ps => g[n] = SubSeq(s, 1, n)
           P == {n \in 0..N : Els(g[n]) = Upto(n) /\ Leads(n) /\ Whole(n)}
<1>1. N \in Nat /\ Ladder!Filter(s, ps) = g[N]
  BY LenProperties DEF Ladder!Filter, FilterSteps
<1>2. /\ g[0] = <<>> /\ \A n \in 0..N : g[n] \in Seq(S)
      /\ \A n \in 1..N : g[n] = IF n \in ps THEN Append(g[n - 1], s[n]) ELSE g[n - 1]
  BY FilterExists
<1> HIDE DEF g
<1>3. 0 \in P
  <2>1. Els(<<>>) = {} /\ Upto(0) = {} /\ SubSeq(s, 1, 0) = <<>>
    BY DEF Els
  <2> QED BY <1>1, <1>2, <2>1
<1>4. ASSUME NEW n \in 0..N - 1, n \in P PROVE n + 1 \in P
  <2>0. /\ n + 1 \in 1..N /\ (n + 1) - 1 = n /\ n \in 0..N /\ n \in Nat
        /\ s[n + 1] \in S /\ g[n] \in Seq(S)
    <3>1. n + 1 \in 1..N /\ (n + 1) - 1 = n /\ n \in 0..N /\ n \in Nat
      BY <1>1
    <3>2. g[n] \in Seq(S)
      BY <1>2, <3>1
    <3>3. s[n + 1] \in S
      BY <3>1
    <3> QED BY <3>1, <3>2, <3>3
  <2>1. g[n + 1] = IF n + 1 \in ps THEN Append(g[n], s[n + 1]) ELSE g[n]
    BY <1>2, <2>0
  <2>2. Els(g[n]) = Upto(n) /\ Leads(n) /\ Whole(n)
    BY <1>4
  <2>3. Upto(n + 1) = IF n + 1 \in ps THEN Upto(n) \cup {s[n + 1]} ELSE Upto(n)
    BY <2>0
  <2>4. Els(g[n + 1]) = Upto(n + 1)
    <3>1. Els(Append(g[n], s[n + 1])) = Els(g[n]) \cup {s[n + 1]}
      BY <2>0, ElsAppend
    <3>2. Els(g[n]) = Upto(n)
      BY <2>2
    <3> HIDE DEF Upto
    <3> QED BY <2>1, <2>3, <3>1, <3>2
  <2>5. Leads(n + 1)
    <3> SUFFICES ASSUME 1 \in ps PROVE g[n + 1] # <<>> /\ g[n + 1][1] = s[1]
      BY <2>0
    <3>1. CASE n = 0
      <4>1. g[n + 1] = Append(<<>>, s[1])
        BY <1>2, <2>1, <3>1
      <4> QED BY <4>1
    <3>2. CASE n # 0
      <4>1. g[n] # <<>> /\ g[n][1] = s[1]
        BY <2>2, <3>2
      <4>2. /\ Append(g[n], s[n + 1]) # <<>>
            /\ Append(g[n], s[n + 1])[1] = g[n][1]
        BY <2>0, <4>1, ElsAppend
      <4> QED BY <2>1, <4>1, <4>2
    <3> QED BY <3>1, <3>2
  <2>6. Whole(n + 1)
    <3> SUFFICES ASSUME 1..n + 1 \subseteq ps PROVE g[n + 1] = SubSeq(s, 1, n + 1)
      OBVIOUS
    <3>1. n + 1 \in ps /\ 1..n \subseteq ps
      BY <2>0
    <3>2. g[n + 1] = Append(SubSeq(s, 1, n), s[n + 1])
      BY <2>1, <2>2, <3>1
    <3>3. SubSeq(s, 1, n + 1) = Append(SubSeq(s, 1, n), s[n + 1])
      BY <1>1, <2>0
    <3> QED BY <3>2, <3>3
  <2> QED BY <2>0, <2>4, <2>5, <2>6
<1>5. N \in P
  <2> HIDE DEF P
  <2>1. 0..N \subseteq P
    BY <1>1, <1>3, <1>4, Induction
  <2> QED BY <1>1, <2>1
<1>6. SubSeq(s, 1, N) = s /\ (s # <<>> => N # 0)
  BY <1>1
<1> QED BY <1>1, <1>2, <1>5, <1>6

\* A list of candidates and the set of them.
Lists(s, E) == s \in Seq(E) /\ Els(s) = E
One(p, c) == IF p THEN {c} ELSE {}

LEMMA Wider == \A S, T, s : (s \in Seq(S) /\ S \subseteq T) => s \in Seq(T)
OBVIOUS

LEMMA Joined ==
  \A s, t, E, F : (Lists(s, E) /\ Lists(t, F)) => Lists(s \o t, E \cup F)
<1> SUFFICES ASSUME NEW s, NEW t, NEW E, NEW F, Lists(s, E), Lists(t, F)
             PROVE  Lists(s \o t, E \cup F)
  OBVIOUS
<1>1. s \in Seq(E \cup F) /\ t \in Seq(E \cup F)
  BY Wider DEF Lists
<1> QED BY <1>1, ElsConcat DEF Lists

LEMMA Single ==
  \A p \in BOOLEAN : \A c : Lists(Ladder!When(p, <<c>>), One(p, c))
<1> SUFFICES ASSUME NEW p \in BOOLEAN, NEW c PROVE Lists(Ladder!When(p, <<c>>), One(p, c))
  OBVIOUS
<1>1. <<c>> \in Seq({c}) /\ Els(<<c>>) = {c}
  BY DEF Els
<1>2. <<>> \in Seq({}) /\ Els(<<>>) = {}
  BY DEF Els
<1> QED BY <1>1, <1>2 DEF Lists, One, Ladder!When

LEMMA Couple ==
  \A p \in BOOLEAN : \A c, d : Lists(Ladder!When(p, <<c, d>>), One(p, c) \cup One(p, d))
<1> SUFFICES ASSUME NEW p \in BOOLEAN, NEW c, NEW d
             PROVE  Lists(Ladder!When(p, <<c, d>>), One(p, c) \cup One(p, d))
  OBVIOUS
<1>1. <<c, d>> \in Seq({c, d}) /\ Els(<<c, d>>) = {c, d}
  BY DEF Els
<1>2. <<>> \in Seq({}) /\ Els(<<>>) = {}
  BY DEF Els
<1>3. CASE p
  BY <1>1, <1>3 DEF Lists, One, Ladder!When
<1>4. CASE ~p
  BY <1>2, <1>4 DEF Lists, One, Ladder!When
<1> QED BY <1>3, <1>4

LEMMA CandidateIs ==
  \A m, k, o : /\ Ladder!Candidate(m, k, o).cmd = m
               /\ Ladder!Candidate(m, k, o).confidence = k
BY DEF Ladder!Candidate

LEMMA FromTaskIs ==
  \A m, k : /\ Ladder!FromTask(m, k).cmd = m
            /\ Ladder!FromTask(m, k).confidence = k
BY CandidateIs DEF Ladder!FromTask

\* The rungs that read the workspace, as sets.
LEMMA ScriptsListed ==
  /\ Lists(Ladder!Scripts, Els(Ladder!Scripts))
  /\ \A c \in Els(Ladder!Scripts) :
       c.confidence = "high" /\ Ladder!Shaped(c.cmd) /\ c.cmd \notin Ladder!Placeholder
<1> DEFINE c1 == Ladder!Candidate("bash ./run_tests.sh", "high", "repo_manifest")
           c2 == Ladder!Candidate("python3 ./verify.py", "high", "harbor_task_convention")
           p1 == Ladder!Has("run_tests.sh")
           p2 == Ladder!Has("verify.py")
<1>1. /\ c1.cmd = "bash ./run_tests.sh" /\ c2.cmd = "python3 ./verify.py"
      /\ c1.confidence = "high" /\ c2.confidence = "high"
  BY CandidateIs
<1>2. Ladder!Scripts = Ladder!When(p1, <<c1>>) \o Ladder!When(p2, <<c2>>)
  BY DEF Ladder!Scripts
<1>0. p1 \in BOOLEAN /\ p2 \in BOOLEAN
  BY DEF Ladder!Has
<1> HIDE DEF c1, c2, p1, p2
<1>4. Lists(Ladder!Scripts, One(p1, c1) \cup One(p2, c2))
  BY <1>0, <1>1, <1>2, Single, Joined
<1>6. /\ Ladder!Shaped(c1.cmd) /\ c1.cmd \notin Ladder!Placeholder
      /\ Ladder!Shaped(c2.cmd) /\ c2.cmd \notin Ladder!Placeholder
  BY <1>1 DEF Ladder!Shaped, Ladder!Setup, Ladder!Paths, Ladder!Unknown, Ladder!Placeholder
<1> QED BY <1>1, <1>4, <1>6 DEF Lists, One

LEMMA ManifestListed ==
  /\ Lists(Ladder!FromManifest, Els(Ladder!FromManifest))
  /\ \A c \in Els(Ladder!FromManifest) : c.cmd \notin Ladder!Placeholder
<1> DEFINE c1 == Ladder!Manifest("npm run test")
           c2 == Ladder!Manifest("python3 -m pytest -q")
           c3 == Ladder!Manifest("pkg.check:main")
           c4 == Ladder!Manifest("cargo test")
           c5 == Ladder!Manifest("go test ./...")
           c6 == Ladder!Manifest("make test")
           c7 == Ladder!Manifest("composer test")
           c8 == Ladder!Manifest("bundle exec rspec")
           p1 == Ladder!Has("package.json")
           p2 == Ladder!Has("pyproject pytest")
           p3 == Ladder!Has("pyproject script")
           p4 == Ladder!Has("Cargo.toml")
           p5 == Ladder!Has("go.mod")
           p6 == Ladder!Has("Makefile")
           p7 == Ladder!Has("composer.json")
           p8 == Ladder!Has("Gemfile")
           C == {c1, c2, c3, c4, c5, c6, c7, c8}
           w1 == Ladder!When(p1, <<c1>>)
           w2 == w1 \o Ladder!When(p2, <<c2>>)
           w3 == w2 \o Ladder!When(p3, <<c3>>)
           w4 == w3 \o Ladder!When(p4, <<c4>>)
           w5 == w4 \o Ladder!When(p5, <<c5>>)
           w6 == w5 \o Ladder!When(p6, <<c6>>)
           w7 == w6 \o Ladder!When(p7, <<c7>>)
           w8 == w7 \o Ladder!When(p8, <<c8>>)
           Of(s) == Lists(s, Els(s)) /\ Els(s) \subseteq C
<1>1. \A c \in C : c.cmd \notin Ladder!Placeholder
  <2>1. /\ c1.cmd = "npm run test" /\ c2.cmd = "python3 -m pytest -q" /\ c3.cmd = "pkg.check:main"
        /\ c4.cmd = "cargo test" /\ c5.cmd = "go test ./..." /\ c6.cmd = "make test"
        /\ c7.cmd = "composer test" /\ c8.cmd = "bundle exec rspec"
    BY CandidateIs DEF Ladder!Manifest
  <2> HIDE DEF c1, c2, c3, c4, c5, c6, c7, c8
  <2> QED BY <2>1 DEF Ladder!Placeholder
<1>2. /\ p1 \in BOOLEAN /\ p2 \in BOOLEAN /\ p3 \in BOOLEAN /\ p4 \in BOOLEAN /\ p5 \in BOOLEAN
      /\ p6 \in BOOLEAN /\ p7 \in BOOLEAN /\ p8 \in BOOLEAN
  BY DEF Ladder!Has
<1>3. Ladder!FromManifest = w8
  BY DEF Ladder!FromManifest
<1> HIDE DEF c1, c2, c3, c4, c5, c6, c7, c8, p1, p2, p3, p4, p5, p6, p7, p8
<1>4. \A p \in BOOLEAN : \A c \in C : Of(Ladder!When(p, <<c>>))
  BY Single DEF Lists, One
<1>5. c1 \in C /\ c2 \in C /\ c3 \in C /\ c4 \in C /\ c5 \in C /\ c6 \in C /\ c7 \in C /\ c8 \in C
  OBVIOUS
<1> HIDE DEF C
<1>6. \A s, u : (Of(s) /\ Of(u)) => Of(s \o u)
  <2> SUFFICES ASSUME NEW s, NEW u, Of(s), Of(u) PROVE Of(s \o u)
    OBVIOUS
  <2>1. Lists(s \o u, Els(s) \cup Els(u))
    BY Joined
  <2> QED BY <2>1 DEF Lists
<1> HIDE DEF Of
<1>7. Of(w1) /\ Of(w2)
  BY <1>2, <1>4, <1>5, <1>6
<1> HIDE DEF w2
<1>8. Of(w3) /\ Of(w4)
  BY <1>2, <1>4, <1>5, <1>6, <1>7
<1> HIDE DEF w4
<1>9. Of(w5) /\ Of(w6)
  BY <1>2, <1>4, <1>5, <1>6, <1>8
<1> HIDE DEF w6
<1>10. Of(w7) /\ Of(w8)
  BY <1>2, <1>4, <1>5, <1>6, <1>9
<1> HIDE DEF w8
<1> QED BY <1>1, <1>3, <1>10 DEF Of

\* A list of commands that can check something, and one that is not empty.
Fit(c) == Ladder!Shaped(c.cmd) /\ c.cmd \notin Ladder!Placeholder
Fits(s) == Lists(s, Els(s)) /\ \A c \in Els(s) : Fit(c)
Some(s) == Els(s) # {}

LEMMA FitJoined ==
  \A s, t : (Fits(s) /\ Fits(t)) =>
    /\ Fits(s \o t) /\ ((Some(s) \/ Some(t)) => Some(s \o t))
    /\ Els(s \o t) = Els(s) \cup Els(t)
<1> SUFFICES ASSUME NEW s, NEW t, Fits(s), Fits(t)
             PROVE  /\ Fits(s \o t) /\ ((Some(s) \/ Some(t)) => Some(s \o t))
                    /\ Els(s \o t) = Els(s) \cup Els(t)
  OBVIOUS
<1>1. Lists(s \o t, Els(s) \cup Els(t))
  BY Joined DEF Fits
<1> QED BY <1>1 DEF Fits, Some, Lists

LEMMA FitSingle ==
  \A p \in BOOLEAN : \A c : Fit(c) =>
    /\ Fits(Ladder!When(p, <<c>>)) /\ (p => Some(Ladder!When(p, <<c>>)))
    /\ Els(Ladder!When(p, <<c>>)) = One(p, c)
<1> SUFFICES ASSUME NEW p \in BOOLEAN, NEW c, Fit(c)
             PROVE  /\ Fits(Ladder!When(p, <<c>>)) /\ (p => Some(Ladder!When(p, <<c>>)))
                    /\ Els(Ladder!When(p, <<c>>)) = One(p, c)
  OBVIOUS
<1>1. Lists(Ladder!When(p, <<c>>), One(p, c))
  BY Single
<1> QED BY <1>1 DEF Fits, Some, Lists, One

LEMMA Nothing == Fits(<<>>) /\ Els(<<>>) = {}
BY DEF Fits, Lists, Els

LEMMA FitPair ==
  \A p \in BOOLEAN : \A c, d : (Fit(c) /\ Fit(d)) => Fits(Ladder!When(p, <<c, d>>))
<1> SUFFICES ASSUME NEW p \in BOOLEAN, NEW c, NEW d, Fit(c), Fit(d)
             PROVE  Fits(Ladder!When(p, <<c, d>>))
  OBVIOUS
<1>1. Lists(Ladder!When(p, <<c, d>>), One(p, c) \cup One(p, d))
  BY Couple
<1> QED BY <1>1 DEF Fits, Lists, One

LEMMA FrameworkFits == Fits(Ladder!FromFramework)
<1> DEFINE c1 == Ladder!Framework("python3 -m pytest -q")
           c2 == Ladder!Framework("npx jest")
           c3 == Ladder!Framework("npx vitest run")
           c4 == Ladder!Framework("npx --no-install tsc --noEmit")
           p1 == Ladder!Has("tests/*.py") \/ Ladder!Has("tests/*.ts")
           p2 == Ladder!Has("jest.config")
           p3 == Ladder!Has("vitest.config")
           p4 == Ladder!Has("tsconfig.json") /\ ~Ladder!Has("package.json")
           w1 == Ladder!When(p1, <<c1>>)
           w2 == Ladder!When(p2, <<c2>>)
           w3 == Ladder!When(p3, <<c3>>)
           w4 == Ladder!When(p4, <<c4>>)
<1>1. /\ c1.cmd = "python3 -m pytest -q" /\ c2.cmd = "npx jest" /\ c3.cmd = "npx vitest run"
      /\ c4.cmd = "npx --no-install tsc --noEmit"
  BY CandidateIs DEF Ladder!Framework
<1>2. p1 \in BOOLEAN /\ p2 \in BOOLEAN /\ p3 \in BOOLEAN /\ p4 \in BOOLEAN
  BY DEF Ladder!Has
<1>4. Ladder!FromFramework = w1 \o w2 \o w3 \o w4
  BY DEF Ladder!FromFramework
<1> HIDE DEF c1, c2, c3, c4, p1, p2, p3, p4
<1>5. Fit(c1) /\ Fit(c2) /\ Fit(c3) /\ Fit(c4)
  BY <1>1 DEF Fit, Ladder!Shaped, Ladder!Setup, Ladder!Paths, Ladder!Unknown, Ladder!Placeholder
<1>6. Fits(w1) /\ Fits(w2) /\ Fits(w3) /\ Fits(w4)
  BY <1>2, <1>5, FitSingle
<1> HIDE DEF w1, w2, w3, w4
<1>7. Fits(w1 \o w2)
  BY <1>6, FitJoined
<1>8. Fits(w1 \o w2 \o w3)
  BY <1>6, <1>7, FitJoined
<1>9. Fits(w1 \o w2 \o w3 \o w4)
  BY <1>6, <1>8, FitJoined
<1> QED BY <1>4, <1>9

LEMMA SearchFits == Fits(Ladder!FromSearch)
<1> DEFINE c1 == Ladder!Candidate("python3 -m pytest specs", "low", "repo_search")
           c2 == Ladder!Candidate("npx jest specs", "low", "repo_search")
<1>1. c1.cmd = "python3 -m pytest specs" /\ c2.cmd = "npx jest specs"
  BY CandidateIs
<1> HIDE DEF c1, c2
<1>2. Fit(c1) /\ Fit(c2)
  BY <1>1 DEF Fit, Ladder!Shaped, Ladder!Setup, Ladder!Paths, Ladder!Unknown, Ladder!Placeholder
<1>3. Ladder!FromSearch = IF Ladder!Has("specs/*.py") THEN Ladder!When(TRUE, <<c1>>)
                          ELSE Ladder!When(Ladder!Has("specs/*.ts"), <<c2>>)
  BY DEF Ladder!FromSearch, Ladder!When, c1, c2
<1>4. Ladder!Has("specs/*.ts") \in BOOLEAN /\ TRUE \in BOOLEAN
  BY DEF Ladder!Has
<1> QED BY <1>2, <1>3, <1>4, FitSingle

LEMMA HarborFits == Fits(Ladder!FromHarbor)
<1> DEFINE c1 == Ladder!Candidate("bash /tests/test.sh", "high", "harbor_task_convention")
<1>1. c1.cmd = "bash /tests/test.sh"
  BY CandidateIs
<1>2. Ladder!FromHarbor = Ladder!When("/tests" \in site, <<c1>>) /\ ("/tests" \in site) \in BOOLEAN
  BY DEF Ladder!FromHarbor, Ladder!Has
<1> HIDE DEF c1
<1>3. Fit(c1)
  BY <1>1 DEF Fit, Ladder!Shaped, Ladder!Setup, Ladder!Paths, Ladder!Unknown, Ladder!Placeholder
<1> QED BY <1>2, <1>3, FitSingle

LEMMA FallbacksFit == Fits(Ladder!Fallbacks)
<1> DEFINE c1 == Ladder!Safe("npx tsc --noEmit")
           x1 == Ladder!Safe("node --check")
           c2 == Ladder!Safe("py_compile")
           c3 == Ladder!Safe("mypy .")
           c4 == Ladder!Safe("cargo check")
           c5 == Ladder!Safe("go vet")
           x5 == Ladder!Safe("go build")
           c6 == Ladder!Safe("ruby -c")
           c7 == Ladder!Safe("make -n")
           b1 == Ladder!Has("tsconfig.json") /\ Ladder!Has("npx")
           p1 == Ladder!Has("*.js") /\ Ladder!Has("node")
           p2 == Ladder!PyFiles /\ Ladder!Has("python3")
           p3 == Ladder!PyFiles /\ Ladder!Has("python3") /\ Ladder!MypyConfig /\ Ladder!Has("mypy")
           p4 == Ladder!Has("Cargo.toml") /\ Ladder!Has("cargo")
           p5 == Ladder!Has("go.mod") /\ Ladder!Has("go")
           p6 == Ladder!Has("*.rb") /\ Ladder!Has("ruby")
           p7 == Ladder!Has("Makefile") /\ Ladder!Has("make")
           w1 == IF b1 THEN <<c1>> ELSE Ladder!When(p1, <<x1>>)
           w2 == Ladder!When(p2, <<c2>>)
           w3 == Ladder!When(p3, <<c3>>)
           w4 == Ladder!When(p4, <<c4>>)
           w5 == Ladder!When(p5, <<c5, x5>>)
           w6 == Ladder!When(p6, <<c6>>)
           w7 == Ladder!When(p7, <<c7>>)
<1>1. /\ c1.cmd = "npx tsc --noEmit" /\ x1.cmd = "node --check" /\ c2.cmd = "py_compile"
      /\ c3.cmd = "mypy ." /\ c4.cmd = "cargo check" /\ c5.cmd = "go vet" /\ x5.cmd = "go build"
      /\ c6.cmd = "ruby -c" /\ c7.cmd = "make -n"
  BY CandidateIs DEF Ladder!Safe
<1>2. /\ p1 \in BOOLEAN /\ p2 \in BOOLEAN /\ p3 \in BOOLEAN /\ p4 \in BOOLEAN /\ p5 \in BOOLEAN
      /\ p6 \in BOOLEAN /\ p7 \in BOOLEAN
  BY DEF Ladder!Has, Ladder!PyFiles
<1>4. Ladder!Fallbacks = w1 \o w2 \o w3 \o w4 \o w5 \o w6 \o w7
  BY DEF Ladder!Fallbacks
<1> HIDE DEF c1, x1, c2, c3, c4, c5, x5, c6, c7, b1, p1, p2, p3, p4, p5, p6, p7
<1>5. /\ Fit(c1) /\ Fit(x1) /\ Fit(c2) /\ Fit(c3) /\ Fit(c4) /\ Fit(c5) /\ Fit(x5) /\ Fit(c6)
      /\ Fit(c7)
  BY <1>1 DEF Fit, Ladder!Shaped, Ladder!Setup, Ladder!Paths, Ladder!Unknown, Ladder!Placeholder
<1>6. Fits(w1)
  <2>1. <<c1>> = Ladder!When(TRUE, <<c1>>) /\ TRUE \in BOOLEAN
    BY DEF Ladder!When
  <2>2. Fits(<<c1>>)
    BY <1>5, <2>1, FitSingle
  <2>3. Fits(Ladder!When(p1, <<x1>>))
    BY <1>2, <1>5, FitSingle
  <2> QED BY <2>2, <2>3
<1>7. Fits(w2) /\ Fits(w3) /\ Fits(w4) /\ Fits(w5) /\ Fits(w6) /\ Fits(w7)
  BY <1>2, <1>5, FitSingle, FitPair
<1> HIDE DEF w1, w2, w3, w4, w5, w6, w7
<1>8. Fits(w1 \o w2)
  BY <1>6, <1>7, FitJoined
<1>9. Fits(w1 \o w2 \o w3)
  BY <1>7, <1>8, FitJoined
<1>10. Fits(w1 \o w2 \o w3 \o w4)
  BY <1>7, <1>9, FitJoined
<1>11. Fits(w1 \o w2 \o w3 \o w4 \o w5)
  BY <1>7, <1>10, FitJoined
<1>12. Fits(w1 \o w2 \o w3 \o w4 \o w5 \o w6)
  BY <1>7, <1>11, FitJoined
<1>13. Fits(w1 \o w2 \o w3 \o w4 \o w5 \o w6 \o w7)
  BY <1>7, <1>12, FitJoined
<1> QED BY <1>4, <1>13

\* The elements of s that are in G.
Picked(s, G) == Ladder!Filter(s, {i \in DOMAIN s : s[i] \in G})
LEMMA PickedIs ==
  \A s, E, G : (Lists(s, E) /\ G \subseteq E) =>
    /\ Lists(Picked(s, G), G)
    /\ (s # <<>> /\ s[1] \in G) => (Picked(s, G) # <<>> /\ Picked(s, G)[1] = s[1])
    /\ G = E => Picked(s, G) = s
<1> SUFFICES ASSUME NEW s, NEW E, NEW G, Lists(s, E), G \subseteq E
             PROVE  /\ Lists(Picked(s, G), G)
                    /\ (s # <<>> /\ s[1] \in G) =>
                         (Picked(s, G) # <<>> /\ Picked(s, G)[1] = s[1])
                    /\ G = E => Picked(s, G) = s
  OBVIOUS
<1> DEFINE ps == {i \in DOMAIN s : s[i] \in G}
           f == Ladder!Filter(s, ps)
<1>0. f = Picked(s, G)
  BY DEF Picked
<1>1. /\ s \in Seq(E) /\ Els(s) = E /\ DOMAIN s = 1..Len(s) /\ Len(s) \in Nat
      /\ \A i \in 1..Len(s) : s[i] \in E
  BY DEF Lists
<1>2. /\ f \in Seq(E)
      /\ Els(f) = {s[i] : i \in ps \cap (1..Len(s))}
      /\ (s # <<>> /\ 1 \in ps) => (f # <<>> /\ f[1] = s[1])
      /\ 1..Len(s) \subseteq ps => f = s
  BY <1>1, Filtered
<1>3. {s[i] : i \in ps \cap (1..Len(s))} = G
  BY <1>1 DEF Els
<1>4. (s # <<>> /\ s[1] \in G) => 1 \in ps
  BY <1>1
<1>5. G = E => 1..Len(s) \subseteq ps
  BY <1>1
<1> HIDE DEF ps, f
<1>6. Els(f) = G
  BY <1>2, <1>3
<1>7. f \in Seq(G)
  <2>1. /\ DOMAIN f = 1..Len(f) /\ Len(f) \in Nat
        /\ \A i \in 1..Len(f) : f[i] \in G
    BY <1>2, <1>6 DEF Els
  <2> QED BY <1>2, <2>1
<1> QED BY <1>0, <1>2, <1>4, <1>5, <1>6, <1>7 DEF Lists

\* Commands that can check something, none of which settles the ladder.
Soft(s) == Fits(s) /\ \A c \in Els(s) : c.confidence # "high"

LEMMA SoftJoined == \A s, t : (Soft(s) /\ Soft(t)) => Soft(s \o t)
BY FitJoined DEF Soft

LEMMA SoftSingle ==
  \A p \in BOOLEAN : \A c : (Fit(c) /\ c.confidence # "high") => Soft(Ladder!When(p, <<c>>))
BY FitSingle DEF Soft, One

\* What the task text quotes: one command among what may stand in backticks.
LEMMA QuotedIs ==
  /\ Fits(Ladder!Quoted)
  /\ \A c \in Els(Ladder!Quoted) : Ladder!Says("quoted pytest")
  /\ Ladder!Says("quoted pytest") =>
       Ladder!Quoted # <<>> /\ Ladder!Quoted[1] = Ladder!FromTask("pytest tests", "high")
<1> DEFINE c1 == Ladder!FromTask("pytest tests", "high")
           c2 == Ladder!FromTask("npm install", "high")
           c3 == Ladder!FromTask("/app", "high")
           p1 == Ladder!Says("quoted pytest")
           p2 == Ladder!Says("quoted install")
           p3 == Ladder!Says("quoted path")
           w1 == Ladder!When(p1, <<c1>>)
           w2 == Ladder!When(p2, <<c2>>)
           w3 == Ladder!When(p3, <<c3>>)
           E == One(p1, c1) \cup One(p2, c2) \cup One(p3, c3)
           G == One(p1, c1)
           q == Ladder!Quotes
<1>1. c1.cmd = "pytest tests" /\ c2.cmd = "npm install" /\ c3.cmd = "/app"
  BY FromTaskIs
<1>2. p1 \in BOOLEAN /\ p2 \in BOOLEAN /\ p3 \in BOOLEAN
  BY DEF Ladder!Says
<1>3. q = w1 \o w2 \o w3
  BY DEF Ladder!Quotes
<1> HIDE DEF c1, c2, c3, p1, p2, p3, q
<1>4. Lists(w1, One(p1, c1)) /\ Lists(w2, One(p2, c2)) /\ Lists(w3, One(p3, c3))
  BY <1>2, Single
<1>5. p1 => w1 = <<c1>>
  BY DEF Ladder!When
<1> HIDE DEF w1, w2, w3
<1>6. Lists(w1 \o w2, One(p1, c1) \cup One(p2, c2))
  BY <1>4, Joined
<1>7. Lists(q, E)
  BY <1>3, <1>4, <1>6, Joined
<1>8. p1 => (q # <<>> /\ q[1] = c1)
  <2> SUFFICES ASSUME p1 PROVE q # <<>> /\ q[1] = c1
    OBVIOUS
  <2>1. w1 = <<c1>> /\ w2 \in Seq(One(p2, c2)) /\ w3 \in Seq(One(p3, c3))
    BY <1>4, <1>5 DEF Lists
  <2>2. (w1 \o w2) \o w3 # <<>> /\ ((w1 \o w2) \o w3)[1] = c1
    BY <2>1
  <2> QED BY <1>3, <2>2
<1>9. Ladder!Shaped(c1.cmd) /\ ~Ladder!Shaped(c2.cmd) /\ ~Ladder!Shaped(c3.cmd) /\ Fit(c1)
  BY <1>1 DEF Fit, Ladder!Shaped, Ladder!Setup, Ladder!Paths, Ladder!Unknown, Ladder!Placeholder
<1>10. {i \in DOMAIN q : Ladder!Shaped(q[i].cmd)} = {i \in DOMAIN q : q[i] \in G}
  <2>1. \A i \in DOMAIN q : q[i] \in E
    BY <1>7 DEF Lists
  <2>2. \A c \in E : Ladder!Shaped(c.cmd) <=> c \in G
    BY <1>9 DEF One
  <2> QED BY <2>1, <2>2
<1>11. Ladder!Quoted = Picked(q, G)
  BY <1>10 DEF Ladder!Quoted, Picked, q
<1> HIDE DEF E, G
<1>12. G \subseteq E /\ (p1 => c1 \in G) /\ (\A c \in G : p1 /\ c = c1)
  BY DEF E, G, One
<1>13. /\ Lists(Ladder!Quoted, G)
       /\ (q # <<>> /\ q[1] \in G) => (Ladder!Quoted # <<>> /\ Ladder!Quoted[1] = q[1])
  BY <1>7, <1>11, <1>12, PickedIs
<1>14. p1 => (Ladder!Quoted # <<>> /\ Ladder!Quoted[1] = c1)
  BY <1>8, <1>12, <1>13
<1> QED BY <1>9, <1>12, <1>13, <1>14 DEF Fits, Lists, p1, c1

\* The probes and the commands named in prose: none is quoted, so none is "high".
LEMMA ProbesSoft ==
  /\ Soft(Ladder!FileProbes) /\ Soft(Ladder!PortProbes) /\ Soft(Ladder!SemanticProbes)
  /\ Soft(Ladder!WarningProbes)
<1> DEFINE c1 == Ladder!FromTask("test -s out", "low")
           c2 == Ladder!FromTask("test -s log", "low")
           c3 == Ladder!FromTask("curl port", "medium")
           c4 == Ladder!FromTask("python3 -c load", "medium")
           c5 == Ladder!FromTask("test -d src", "low")
           c6 == Ladder!FromTask("sh -c grep overfull", "medium")
           p1 == Ladder!Says("file")
           p2 == Ladder!Says("second file")
           p3 == Ladder!Says("port")
           p4 == Ladder!Says("model cache")
           p5 == Ladder!Says("provenance") /\ Ladder!Has("src")
           p6 == Ladder!Says("latex") /\ Ladder!Says("no overfull")
<1>1. /\ c1.cmd = "test -s out" /\ c2.cmd = "test -s log" /\ c3.cmd = "curl port"
      /\ c4.cmd = "python3 -c load" /\ c5.cmd = "test -d src" /\ c6.cmd = "sh -c grep overfull"
      /\ c1.confidence = "low" /\ c2.confidence = "low" /\ c3.confidence = "medium"
      /\ c4.confidence = "medium" /\ c5.confidence = "low" /\ c6.confidence = "medium"
  BY FromTaskIs
<1>2. /\ p1 \in BOOLEAN /\ p2 \in BOOLEAN /\ p3 \in BOOLEAN /\ p4 \in BOOLEAN /\ p5 \in BOOLEAN
      /\ p6 \in BOOLEAN
  BY DEF Ladder!Says, Ladder!Has
<1>3. /\ Ladder!FileProbes = Ladder!When(p1, <<c1>>) \o Ladder!When(p2, <<c2>>)
      /\ Ladder!PortProbes = Ladder!When(p3, <<c3>>)
      /\ Ladder!SemanticProbes = Ladder!When(p4, <<c4>>) \o Ladder!When(p5, <<c5>>)
      /\ Ladder!WarningProbes = Ladder!When(p6, <<c6>>)
  BY DEF Ladder!FileProbes, Ladder!PortProbes, Ladder!SemanticProbes, Ladder!WarningProbes
<1> HIDE DEF c1, c2, c3, c4, c5, c6, p1, p2, p3, p4, p5, p6
<1>5. Fit(c1) /\ Fit(c2) /\ Fit(c3) /\ Fit(c4) /\ Fit(c5) /\ Fit(c6)
  BY <1>1 DEF Fit, Ladder!Shaped, Ladder!Setup, Ladder!Paths, Ladder!Unknown, Ladder!Placeholder
<1> DEFINE w1 == Ladder!When(p1, <<c1>>)
           w2 == Ladder!When(p2, <<c2>>)
           w3 == Ladder!When(p3, <<c3>>)
           w4 == Ladder!When(p4, <<c4>>)
           w5 == Ladder!When(p5, <<c5>>)
           w6 == Ladder!When(p6, <<c6>>)
<1>6. Soft(w1) /\ Soft(w2) /\ Soft(w3) /\ Soft(w4) /\ Soft(w5) /\ Soft(w6)
  BY <1>1, <1>2, <1>5, SoftSingle
<1>7. Soft(w1 \o w2) /\ Soft(w4 \o w5)
  BY <1>6, SoftJoined
<1> QED BY <1>3, <1>6, <1>7

LEMMA BareSoft == Soft(Ladder!Bare)
<1> DEFINE c1 == Ladder!FromTask("pdflatex main.tex", "medium")
           c2 == Ladder!FromTask("python3 -m pytest -q", "medium")
           c3 == Ladder!FromTask("cargo test", "medium")
           c4 == Ladder!FromTask("make test", "medium")
           p1 == Ladder!Says("latex")
           p2 == Ladder!Says("bare pytest")
           p3 == Ladder!Says("bare cargo test")
           p4 == Ladder!Says("bare make test")
           w1 == Ladder!When(p1, <<c1>>)
           w2 == Ladder!When(p2, <<c2>>)
           w3 == Ladder!When(p3, <<c3>>)
           w4 == Ladder!When(p4, <<c4>>)
<1>1. /\ c1.cmd = "pdflatex main.tex" /\ c2.cmd = "python3 -m pytest -q" /\ c3.cmd = "cargo test"
      /\ c4.cmd = "make test"
      /\ c1.confidence = "medium" /\ c2.confidence = "medium" /\ c3.confidence = "medium"
      /\ c4.confidence = "medium"
  BY FromTaskIs
<1>2. p1 \in BOOLEAN /\ p2 \in BOOLEAN /\ p3 \in BOOLEAN /\ p4 \in BOOLEAN
  BY DEF Ladder!Says
<1>4. Ladder!Bare = w1 \o w2 \o w3 \o w4
  BY DEF Ladder!Bare
<1> HIDE DEF c1, c2, c3, c4, p1, p2, p3, p4
<1>5. Fit(c1) /\ Fit(c2) /\ Fit(c3) /\ Fit(c4)
  BY <1>1 DEF Fit, Ladder!Shaped, Ladder!Setup, Ladder!Paths, Ladder!Unknown, Ladder!Placeholder
<1>6. Soft(w1) /\ Soft(w2) /\ Soft(w3) /\ Soft(w4)
  BY <1>1, <1>2, <1>5, SoftSingle
<1> HIDE DEF w1, w2, w3, w4
<1>7. Soft(w1 \o w2)
  BY <1>6, SoftJoined
<1>8. Soft(w1 \o w2 \o w3)
  BY <1>6, <1>7, SoftJoined
<1>9. Soft(w1 \o w2 \o w3 \o w4)
  BY <1>6, <1>8, SoftJoined
<1> QED BY <1>4, <1>9

LEMMA BareKeptSoft == \A taken : Soft(Ladder!BareKept(taken))
<1> SUFFICES ASSUME NEW taken PROVE Soft(Ladder!BareKept(taken))
  OBVIOUS
<1> DEFINE b == Ladder!Bare
           starts == {Ladder!First(taken[i].cmd) : i \in DOMAIN taken}
           ps == {i \in DOMAIN b : Ladder!Binaries(b[i].cmd) \cap starts = {}}
           f == Ladder!BareKept(taken)
<1>1. f = Ladder!Filter(b, ps)
  BY DEF Ladder!BareKept
<1>2. b \in Seq(Els(b)) /\ \A c \in Els(b) : Fit(c) /\ c.confidence # "high"
  BY BareSoft DEF Soft, Fits, Lists
<1> HIDE DEF ps, f, b
<1>3. f \in Seq(Els(b)) /\ Els(f) = {b[i] : i \in ps \cap (1..Len(b))}
  BY <1>1, <1>2, Filtered
<1>5. Els(f) \subseteq Els(b)
  BY <1>3 DEF Els
<1>6. f \in Seq(Els(f))
  <2>1. DOMAIN f = 1..Len(f) /\ Len(f) \in Nat
    BY <1>3
  <2> QED BY <1>3, <2>1 DEF Els
<1>7. Soft(f)
  BY <1>2, <1>5, <1>6 DEF Soft, Fits, Lists
<1> QED BY <1>7 DEF f, b

\* Only a quoted command is "high", and it comes first.
Offered(s) ==
  /\ Fits(s)
  /\ \A c \in Els(s) : c.confidence = "high" => Ladder!Says("quoted pytest")
  /\ Ladder!Says("quoted pytest") => (s # <<>> /\ s[1].confidence = "high")

LEMMA HeadStays ==
  \A S, s, u : (s \in Seq(S) /\ u \in Seq(S) /\ s # <<>>) =>
    (s \o u # <<>> /\ (s \o u)[1] = s[1])
OBVIOUS

QuotedOnly(s) == \A c \in Els(s) : c.confidence = "high" => Ladder!Says("quoted pytest")
LEMMA NamedOffered ==
  LET taken == Ladder!Quoted \o Ladder!FileProbes \o Ladder!PortProbes \o Ladder!SemanticProbes IN
  Offered(taken \o Ladder!BareKept(taken) \o Ladder!WarningProbes)
<1> DEFINE q == Ladder!Quoted
           t == q \o Ladder!FileProbes \o Ladder!PortProbes \o Ladder!SemanticProbes
           b == Ladder!BareKept(t)
           n == t \o b \o Ladder!WarningProbes
           Leads(s) == /\ Fits(s) /\ QuotedOnly(s)
                       /\ Ladder!Says("quoted pytest") => (s # <<>> /\ s[1].confidence = "high")
<1>1. Leads(q)
  <2>1. /\ Fits(q) /\ QuotedOnly(q)
        /\ Ladder!Says("quoted pytest") => (q # <<>> /\ q[1] = Ladder!FromTask("pytest tests", "high"))
    BY QuotedIs DEF QuotedOnly
  <2>2. Ladder!FromTask("pytest tests", "high").confidence = "high"
    BY FromTaskIs
  <2> QED BY <2>1, <2>2
<1>2. \A s, u : (Leads(s) /\ Soft(u)) => Leads(s \o u)
  <2> SUFFICES ASSUME NEW s, NEW u, Leads(s), Soft(u)
               PROVE  Leads(s \o u)
    OBVIOUS
  <2>1. Fits(s \o u) /\ Els(s \o u) = Els(s) \cup Els(u)
    BY FitJoined DEF Soft
  <2>2. s \in Seq(Els(s) \cup Els(u)) /\ u \in Seq(Els(s) \cup Els(u))
    BY Wider DEF Fits, Lists, Soft
  <2>3. s # <<>> => (s \o u # <<>> /\ (s \o u)[1] = s[1])
    BY <2>2, HeadStays
  <2>4. QuotedOnly(s \o u)
    BY <2>1 DEF Soft, QuotedOnly
  <2> QED BY <2>1, <2>3, <2>4
<1> HIDE DEF q, Leads
<1> DEFINE t2 == q \o Ladder!FileProbes
           t3 == t2 \o Ladder!PortProbes
<1>3. Leads(t2)
  BY <1>1, <1>2, ProbesSoft
<1> HIDE DEF t2
<1>4. Leads(t3)
  BY <1>2, <1>3, ProbesSoft
<1>5. t = t3 \o Ladder!SemanticProbes
  BY DEF t2
<1> HIDE DEF t3, t
<1>6. Leads(t)
  BY <1>2, <1>4, <1>5, ProbesSoft
<1>7. Soft(b)
  BY BareKeptSoft
<1> HIDE DEF b
<1> DEFINE m == t \o b
<1>8. Leads(m)
  BY <1>2, <1>6, <1>7
<1>9. n = m \o Ladder!WarningProbes
  OBVIOUS
<1> HIDE DEF m, n
<1>10. Leads(n)
  BY <1>2, <1>8, <1>9, ProbesSoft
<1>11. Offered(n)
  BY <1>10 DEF Leads, Offered, QuotedOnly
<1> QED BY <1>11 DEF n, b, t, q

LEMMA ProposedOffered == Offered(Ladder!Proposed)
<1> DEFINE t == Ladder!Quoted \o Ladder!FileProbes \o Ladder!PortProbes \o Ladder!SemanticProbes
           n == t \o Ladder!BareKept(t) \o Ladder!WarningProbes
           x == Ladder!FromTask("(run project test suite)", "low")
           fi == Ladder!FromInstruction
           o == Ladder!Proposed
<1>1. Offered(n)
  BY NamedOffered
<1>2. fi = IF n = <<>> /\ Ladder!Says("run the tests") THEN <<x>> ELSE n
  BY DEF Ladder!FromInstruction
<1>3. x.cmd \in Ladder!Placeholder
  BY CandidateIs DEF Ladder!FromTask, Ladder!Placeholder
<1>0. o = Ladder!Filter(fi, {i \in DOMAIN fi : fi[i].cmd \notin Ladder!Placeholder})
  BY DEF Ladder!Proposed
<1> HIDE DEF n, x, t, o
<1>4. CASE n = <<>> /\ Ladder!Says("run the tests")
  <2>0. fi = <<x>>
    BY <1>2, <1>4
  <2>1. fi = <<x>> /\ <<x>> \in Seq({x})
    BY <2>0
  <2>2. {i \in DOMAIN fi : fi[i].cmd \notin Ladder!Placeholder} = {}
    BY <1>3, <2>1
  <2>3. o = Ladder!Filter(<<x>>, {})
    BY <1>0, <2>1, <2>2
  <2>4. o \in Seq({x}) /\ Els(o) = {<<x>>[i] : i \in {} \cap (1..Len(<<x>>))}
    <3>1. \A s : s \in Seq({x}) =>
            /\ Ladder!Filter(s, {}) \in Seq({x})
            /\ Els(Ladder!Filter(s, {})) = {s[i] : i \in {} \cap (1..Len(s))}
      BY Filtered
    <3> QED BY <2>1, <2>3, <3>1
  <2>5. o = <<>>
    <3>1. Els(o) = {}
      BY <2>4
    <3>2. o \in Seq({x}) /\ Len(o) \in Nat
      BY <2>4
    <3>3. \A i \in 1..Len(o) : o[i] \in Els(o)
      BY DEF Els
    <3>4. 1 \notin 1..Len(o)
      BY <3>1, <3>3
    <3> QED BY <3>2, <3>4
  <2> QED BY <1>1, <1>4, <2>5 DEF Offered, o
<1>5. CASE ~(n = <<>> /\ Ladder!Says("run the tests"))
  <2>1. fi = n
    BY <1>2, <1>5
  <2>2. Lists(n, Els(n)) /\ \A c \in Els(n) : c.cmd \notin Ladder!Placeholder
    BY <1>1 DEF Offered, Fits, Fit
  <2>3. n \in Seq(Els(n))
    BY <2>2 DEF Lists
  <2>4. \A i \in 1..Len(n) : n[i] \in Els(n)
    BY DEF Els
  <2>5. 1..Len(n) \subseteq {i \in DOMAIN n : n[i].cmd \notin Ladder!Placeholder}
    BY <2>2, <2>3, <2>4
  <2>6. o = n
    BY <1>0, <2>1, <2>3, <2>5, Filtered
  <2> QED BY <1>1, <2>6 DEF o
<1> QED BY <1>4, <1>5

\* The limits leave room for one validator.  What is finalized can check something,
\* as long as anything that was collected could; the first one collected leads.
Bounded == MaxCandidates \in Nat \ {0} /\ MaxRuns \in Nat \ {0}
NoPlaceholder(s) == \A c \in Els(s) : c.cmd \notin Ladder!Placeholder
Shapely(s) == \E c \in Els(s) : Ladder!Shaped(c.cmd)

LEMMA FinalizedIs ==
  \A s : (Bounded /\ Lists(s, Els(s)) /\ NoPlaceholder(s)) =>
    /\ Fits(Ladder!Finalized(s)) /\ Els(Ladder!Finalized(s)) \subseteq Els(s)
    /\ Shapely(s) => Ladder!Finalized(s) # <<>>
    /\ (s # <<>> /\ Ladder!Shaped(s[1].cmd)) =>
         (Ladder!Finalized(s) # <<>> /\ Ladder!Finalized(s)[1] = s[1])
<1> SUFFICES ASSUME NEW s, Bounded, Lists(s, Els(s)), NoPlaceholder(s)
             PROVE  /\ Fits(Ladder!Finalized(s)) /\ Els(Ladder!Finalized(s)) \subseteq Els(s)
                    /\ Shapely(s) => Ladder!Finalized(s) # <<>>
                    /\ (s # <<>> /\ Ladder!Shaped(s[1].cmd)) =>
                         (Ladder!Finalized(s) # <<>> /\ Ladder!Finalized(s)[1] = s[1])
  OBVIOUS
<1> DEFINE G == {c \in Els(s) : Ladder!Sane(c)}
           k == Picked(s, G)
           m == IF Len(k) < MaxCandidates THEN Len(k) ELSE MaxCandidates
           f == Ladder!Finalized(s)
<1>1. s \in Seq(Els(s)) /\ \A i \in 1..Len(s) : s[i] \in Els(s)
  BY DEF Lists, Els
<1>2. {i \in DOMAIN s : Ladder!Sane(s[i])} = {i \in DOMAIN s : s[i] \in G}
  BY <1>1
<1>3. f = SubSeq(k, 1, m)
  BY <1>2 DEF Ladder!Finalized, Picked
<1>4. \A c \in Els(s) : Ladder!Sane(c) <=> Ladder!Shaped(c.cmd)
  BY DEF Ladder!Sane, NoPlaceholder
<1>5. \A c \in G : Fit(c)
  BY <1>4 DEF Fit, NoPlaceholder
<1>6. Shapely(s) => G # {}
  BY <1>4 DEF Shapely
<1>7. (s # <<>> /\ Ladder!Shaped(s[1].cmd)) => s[1] \in G
  <2>1. s # <<>> => s[1] \in Els(s)
    BY <1>1
  <2> QED BY <1>4, <2>1
<1>8. G \subseteq Els(s)
  OBVIOUS
<1> HIDE DEF G, k
<1>9. Lists(k, G) /\ ((s # <<>> /\ s[1] \in G) => (k # <<>> /\ k[1] = s[1]))
  BY <1>8, PickedIs DEF k
<1>10. k \in Seq(G) /\ Len(k) \in Nat /\ m \in 0..Len(k) /\ (k # <<>> => m # 0)
  BY <1>9 DEF Lists, Bounded
<1> HIDE DEF m, f
<1>11. /\ f \in Seq(G) /\ Len(f) = m /\ Els(f) \subseteq Els(k)
       /\ m # 0 => (f # <<>> /\ f[1] = k[1])
  BY <1>3, <1>10, ElsHead
<1>12. Els(f) \subseteq G /\ f \in Seq(Els(f))
  <2>1. DOMAIN f = 1..Len(f) /\ Len(f) \in Nat
    BY <1>11
  <2>2. Els(f) \subseteq G
    BY <1>9, <1>11 DEF Lists
  <2> QED BY <1>11, <2>1, <2>2 DEF Els
<1>13. Fits(f)
  BY <1>5, <1>12 DEF Fits, Lists
<1>14. G # {} => k # <<>>
  <2>1. Els(<<>>) = {}
    BY DEF Els
  <2> QED BY <1>9, <2>1 DEF Lists
<1> QED BY <1>6, <1>7, <1>8, <1>9, <1>10, <1>11, <1>12, <1>13, <1>14 DEF f

LEMMA Members ==
  \A s, E : Lists(s, E) =>
    /\ Lists(s, Els(s)) /\ DOMAIN s = 1..Len(s) /\ Len(s) \in Nat
    /\ \A i \in DOMAIN s : s[i] \in E
    /\ \A c \in E : \E i \in DOMAIN s : s[i] = c
    /\ s # <<>> => (1 \in DOMAIN s /\ s[1] \in E)
    /\ <<>> \o s = s /\ s \o <<>> = s
    /\ E = {} => s = <<>>
<1> SUFFICES ASSUME NEW s, NEW E, s \in Seq(E), Els(s) = E
             PROVE  /\ DOMAIN s = 1..Len(s) /\ Len(s) \in Nat
                    /\ \A i \in DOMAIN s : s[i] \in E
                    /\ \A c \in E : \E i \in DOMAIN s : s[i] = c
                    /\ s # <<>> => (1 \in DOMAIN s /\ s[1] \in E)
                    /\ <<>> \o s = s /\ s \o <<>> = s
                    /\ E = {} => s = <<>>
  BY DEF Lists
<1>1. DOMAIN s = 1..Len(s) /\ Len(s) \in Nat /\ \A i \in DOMAIN s : s[i] \in E
  OBVIOUS
<1>2. \A c \in E : \E i \in DOMAIN s : s[i] = c
  BY <1>1 DEF Els
<1>3. s # <<>> => (1 \in DOMAIN s /\ s[1] \in E)
  BY <1>1
<1>4. <<>> \o s = s /\ s \o <<>> = s
  OBVIOUS
<1> QED BY <1>1, <1>2, <1>3, <1>4

\* A list whose members are those of another is one that New leaves in part.
LEMMA NewIs ==
  \A s : (candidates \in Seq(Els(candidates)) /\ Fits(s)) =>
    /\ Fits(Ladder!New(s)) /\ (s = <<>> => Ladder!New(s) = <<>>)
    /\ Shapely(s) => (Shapely(candidates) \/ Shapely(Ladder!New(s)))
<1> SUFFICES ASSUME NEW s, candidates \in Seq(Els(candidates)), Fits(s)
             PROVE  /\ Fits(Ladder!New(s)) /\ (s = <<>> => Ladder!New(s) = <<>>)
                    /\ Shapely(s) => (Shapely(candidates) \/ Shapely(Ladder!New(s)))
  OBVIOUS
<1> DEFINE G == {c \in Els(s) : \A i \in DOMAIN candidates : candidates[i].cmd # c.cmd}
<1>1. s \in Seq(Els(s)) /\ (\A i \in 1..Len(s) : s[i] \in Els(s)) /\ Lists(s, Els(s))
  BY DEF Fits, Lists, Els
<1>2. {k \in DOMAIN s : \A i \in DOMAIN candidates : candidates[i].cmd # s[k].cmd}
        = {k \in DOMAIN s : s[k] \in G}
  BY <1>1
<1>3. Ladder!New(s) = Picked(s, G)
  BY <1>2 DEF Ladder!New, Picked
<1>4. Lists(Ladder!New(s), G) /\ G \subseteq Els(s)
  BY <1>1, <1>3, PickedIs
<1>5. Fits(Ladder!New(s)) /\ Els(Ladder!New(s)) = G
  BY <1>4 DEF Fits, Lists
<1>6. ASSUME NEW c \in Els(s), c \notin G PROVE Shapely(candidates)
  <2>1. PICK i \in DOMAIN candidates : candidates[i].cmd = c.cmd
    BY <1>6
  <2>2. candidates[i] \in Els(candidates)
    BY <2>1 DEF Els
  <2> QED BY <2>1, <2>2 DEF Shapely, Fits, Fit
<1>7. \A c \in G : Ladder!Shaped(c.cmd)
  BY DEF Fits, Fit
<1> HIDE DEF G
<1>8. Shapely(s) => (G # {} \/ Shapely(candidates))
  BY <1>6 DEF Shapely
<1>9. s = <<>> => Ladder!New(s) = <<>>
  <2>1. s = <<>> => Els(s) = {}
    BY Nothing
  <2>2. Lists(Ladder!New(s), G) /\ (Els(s) = {} => G = {})
    BY <1>4
  <2> QED BY <2>1, <2>2, Members
<1> QED BY <1>5, <1>7, <1>8, <1>9 DEF Shapely

\* What was finalized is what runs, up to the bound.
LEMMA ChosenIs ==
  (Bounded /\ Fits(found)) =>
    /\ Fits(Ladder!Chosen)
    /\ found # <<>> => (Ladder!Chosen # <<>> /\ Ladder!Chosen[1] = found[1])
<1> SUFFICES ASSUME Bounded, Fits(found)
             PROVE  /\ Fits(Ladder!Chosen)
                    /\ found # <<>> => (Ladder!Chosen # <<>> /\ Ladder!Chosen[1] = found[1])
  OBVIOUS
<1> DEFINE m == IF Len(found) < MaxRuns THEN Len(found) ELSE MaxRuns
           ps == {i \in DOMAIN found : Ladder!Sane(found[i])}
           c == Ladder!Chosen
<1>1. found \in Seq(Els(found)) /\ \A i \in 1..Len(found) : found[i] \in Els(found)
  BY DEF Fits, Lists, Els
<1>2. 1..Len(found) \subseteq ps
  BY <1>1 DEF Fits, Fit, Ladder!Sane
<1>3. Ladder!Filter(found, ps) = found
  BY <1>1, <1>2, Filtered
<1>4. c = SubSeq(found, 1, m)
  BY <1>3 DEF Ladder!Chosen
<1>5. m \in 0..Len(found) /\ (found # <<>> => m # 0)
  BY <1>1 DEF Bounded
<1> HIDE DEF m, ps, c
<1>6. /\ c \in Seq(Els(found)) /\ Els(c) \subseteq Els(found)
      /\ m # 0 => (c # <<>> /\ c[1] = found[1])
  BY <1>1, <1>4, <1>5, ElsHead
<1>7. c \in Seq(Els(c))
  <2>1. DOMAIN c = 1..Len(c) /\ Len(c) \in Nat
    BY <1>6
  <2> QED BY <1>6, <2>1 DEF Els
<1>8. Fits(c)
  BY <1>6, <1>7 DEF Fits, Lists
<1> QED BY <1>5, <1>6, <1>8 DEF c

\* What NothingMissed promises a validator for: some rung has one that can run.
Promised ==
  \/ Ladder!Runs(Ladder!Proposed) \/ Ladder!Runs(Ladder!Scripts)
  \/ Ladder!Runs(Ladder!FromManifest) \/ Ladder!Runs(Ladder!FromFramework)
  \/ Ladder!Runs(Ladder!FromHarbor) \/ Ladder!Runs(Ladder!Fallbacks)
  \/ Ladder!SearchDue /\ Ladder!Runs(Ladder!FromSearch)

LEMMA RunsIs == \A s : Lists(s, Els(s)) => (Ladder!Runs(s) <=> Shapely(s))
<1> SUFFICES ASSUME NEW s, Lists(s, Els(s)) PROVE Ladder!Runs(s) <=> Shapely(s)
  OBVIOUS
<1>1. /\ \A i \in DOMAIN s : s[i] \in Els(s)
      /\ \A c \in Els(s) : \E i \in DOMAIN s : s[i] = c
  BY Members
<1> QED BY <1>1 DEF Ladder!Runs, Shapely

\* What the rungs read does not change while they are climbed.
LEMMA Unmoved ==
  ASSUME task' = task, site' = site
  PROVE  /\ Ladder!Says("quoted pytest")' = Ladder!Says("quoted pytest")
         /\ Ladder!Proposed' = Ladder!Proposed /\ Ladder!Scripts' = Ladder!Scripts
         /\ Ladder!FromManifest' = Ladder!FromManifest
         /\ Ladder!FromFramework' = Ladder!FromFramework
         /\ Ladder!FromSearch' = Ladder!FromSearch /\ Ladder!FromHarbor' = Ladder!FromHarbor
         /\ Ladder!SearchDue' = Ladder!SearchDue /\ Promised' = Promised
<1>1. Ladder!Says("quoted pytest")' = Ladder!Says("quoted pytest")
  BY DEF Ladder!Says
<1>2. Ladder!Proposed' = Ladder!Proposed
  <2>1. Ladder!Quoted' = Ladder!Quoted
    BY DEF Ladder!Quoted, Ladder!Quotes, Ladder!Says
  <2>2. /\ Ladder!FileProbes' = Ladder!FileProbes /\ Ladder!PortProbes' = Ladder!PortProbes
        /\ Ladder!SemanticProbes' = Ladder!SemanticProbes
        /\ Ladder!WarningProbes' = Ladder!WarningProbes /\ Ladder!Bare' = Ladder!Bare
    BY DEF Ladder!FileProbes, Ladder!PortProbes, Ladder!SemanticProbes, Ladder!WarningProbes,
           Ladder!Bare, Ladder!Says, Ladder!Has
  <2>3. Ladder!FromInstruction' = Ladder!FromInstruction
    BY <2>1, <2>2 DEF Ladder!FromInstruction, Ladder!BareKept, Ladder!Says
  <2> QED BY <2>3 DEF Ladder!Proposed
<1>3. Ladder!Scripts' = Ladder!Scripts /\ Ladder!FromManifest' = Ladder!FromManifest
  BY DEF Ladder!Scripts, Ladder!FromManifest, Ladder!Has
<1>4. /\ Ladder!FromFramework' = Ladder!FromFramework /\ Ladder!FromSearch' = Ladder!FromSearch
      /\ Ladder!FromHarbor' = Ladder!FromHarbor
  BY DEF Ladder!FromFramework, Ladder!FromSearch, Ladder!FromHarbor, Ladder!Has
<1>5. Ladder!Fallbacks' = Ladder!Fallbacks
  BY DEF Ladder!Fallbacks, Ladder!PyFiles, Ladder!MypyConfig, Ladder!Has
<1>6. Ladder!SearchDue' = Ladder!SearchDue
  BY <1>2, <1>3, <1>4 DEF Ladder!SearchDue
<1>7. Promised' = Promised
  BY <1>2, <1>3, <1>4, <1>5, <1>6 DEF Promised, Ladder!Runs
<1> QED BY <1>1, <1>2, <1>3, <1>4, <1>6, <1>7

\* What a rung that was climbed had to run is among the candidates; as long as
\* the rungs had nothing at all there are none, and the search is made.
Rungs == {"instruction", "scripts", "manifest", "framework", "search", "harbor", "fallback",
          "run"}
Collected ==
  /\ rung \in Rungs
  /\ Lists(candidates, Els(candidates)) /\ NoPlaceholder(candidates)
  /\ rung = "instruction" => candidates = <<>>
  /\ rung \notin {"instruction", "run"} => ~Ladder!Says("quoted pytest")
  /\ rung = "scripts" => \A c \in Els(candidates) : c.confidence # "high"
  /\ rung \notin {"instruction", "scripts", "run"} => Ladder!Scripts = <<>>
Answered ==
  /\ (rung \notin {"instruction", "run"} /\ Ladder!Runs(Ladder!Proposed)) => Shapely(candidates)
  /\ (rung \in {"framework", "search", "harbor", "fallback"} /\ Ladder!Runs(Ladder!FromManifest)) =>
       Shapely(candidates)
  /\ (rung \in {"search", "harbor", "fallback"} /\ Ladder!Runs(Ladder!FromFramework)) =>
       Shapely(candidates)
  /\ (rung \in {"harbor", "fallback"} /\ Ladder!SearchDue /\ Ladder!Runs(Ladder!FromSearch)) =>
       Shapely(candidates)
  /\ (rung = "fallback" /\ Ladder!Runs(Ladder!FromHarbor)) => Shapely(candidates)
Silence ==
  /\ (rung \in {"scripts", "manifest"} /\ Ladder!Proposed = <<>>) => candidates = <<>>
  /\ (rung = "framework" /\ Ladder!Proposed = <<>> /\ Ladder!FromManifest = <<>>) =>
       candidates = <<>>
  /\ (rung = "search" /\ Ladder!SearchDue) => candidates = <<>>
ListSettled ==
  rung = "run" =>
    /\ Promised => found # <<>>
    /\ (Ladder!Says("quoted pytest") \/ Ladder!Scripts # <<>>) =>
         (found # <<>> /\ found[1].confidence = "high")
    /\ (~Ladder!Says("quoted pytest") /\ Ladder!Scripts # <<>>) =>
         \A c \in Els(found) : c.confidence = "high"
Executed == Fits(found) /\ Fits(outcomes) /\ next \in Nat \ {0}
RungInv == Collected /\ Answered /\ Silence /\ ListSettled /\ Executed

LEMMA RungInit == Ladder!ValidationInit => RungInv
<1> SUFFICES ASSUME Ladder!ValidationInit PROVE RungInv
  OBVIOUS
<1>1. /\ rung = "instruction" /\ candidates = <<>> /\ found = <<>> /\ next = 1 /\ outcomes = <<>>
  BY DEF Ladder!ValidationInit
<1>2. Collected
  BY <1>1, Nothing DEF Collected, Rungs, Fits, NoPlaceholder
<1> QED BY <1>1, <1>2, Nothing DEF RungInv, Answered, Silence, ListSettled, Executed

\* A rung that settles: what is finalized answers everything there was.
LEMMA SettleKeeps ==
  ASSUME NEW s, Bounded, RungInv, Ladder!Settle(s), Lists(s, Els(s)),
         NoPlaceholder(s), UNCHANGED <<task, site, Ladder!running>>,
         Promised => Shapely(s),
         (Ladder!Says("quoted pytest") \/ Ladder!Scripts # <<>>) =>
           (s # <<>> /\ Ladder!Shaped(s[1].cmd) /\ s[1].confidence = "high"),
         (~Ladder!Says("quoted pytest") /\ Ladder!Scripts # <<>>) =>
           \A c \in Els(s) : c.confidence = "high"
  PROVE  RungInv'
<1> DEFINE f == Ladder!Finalized(s)
<1>1. /\ found' = f /\ rung' = "run" /\ candidates' = <<>> /\ task' = task /\ site' = site
      /\ next' = next /\ outcomes' = outcomes
  BY DEF Ladder!Settle, Ladder!running
<1>2. /\ Fits(f) /\ Els(f) \subseteq Els(s)
      /\ Shapely(s) => f # <<>>
      /\ (s # <<>> /\ Ladder!Shaped(s[1].cmd)) => (f # <<>> /\ f[1] = s[1])
  BY FinalizedIs
<1> HIDE DEF f
<1>3. Collected'
  <2>1. Lists(candidates', Els(candidates')) /\ NoPlaceholder(candidates')
    BY <1>1, Nothing DEF Fits, NoPlaceholder
  <2> QED BY <1>1, <2>1 DEF Collected, Rungs, Lists, Els, NoPlaceholder
<1>4. Answered' /\ Silence'
  BY <1>1 DEF Answered, Silence
<1>5. ListSettled'
  <2>1. /\ Ladder!Says("quoted pytest")' = Ladder!Says("quoted pytest")
        /\ Ladder!Scripts' = Ladder!Scripts /\ Promised' = Promised
    BY <1>1, Unmoved
  <2>2. Promised => f # <<>>
    BY <1>2
  <2>3. (Ladder!Says("quoted pytest") \/ Ladder!Scripts # <<>>) => (f # <<>> /\ f[1].confidence = "high")
    BY <1>2
  <2>4. (~Ladder!Says("quoted pytest") /\ Ladder!Scripts # <<>>) =>
          \A c \in Els(f) : c.confidence = "high"
    BY <1>2
  <2> QED BY <1>1, <2>1, <2>2, <2>3, <2>4 DEF ListSettled, Els
<1>6. Executed'
  BY <1>1, <1>2 DEF RungInv, Executed, Fits, Lists, Els
<1> QED BY <1>3, <1>4, <1>5, <1>6 DEF RungInv

\* A rung that adds what it found to what was collected.
LEMMA ClimbAdds ==
  ASSUME NEW s, NEW to, RungInv, Ladder!Climb(s, to), Lists(s, Els(s)), NoPlaceholder(s),
         UNCHANGED <<task, site, Ladder!running>>
  PROVE  /\ task' = task /\ site' = site /\ rung' = to /\ candidates' = candidates \o s
         /\ Lists(candidates', Els(candidates')) /\ NoPlaceholder(candidates')
         /\ (Shapely(candidates) \/ Shapely(s)) => Shapely(candidates')
         /\ (candidates = <<>> /\ s = <<>>) => candidates' = <<>>
         /\ Executed'
<1>1. /\ task' = task /\ site' = site /\ rung' = to /\ candidates' = candidates \o s
      /\ found' = found /\ next' = next /\ outcomes' = outcomes
  BY DEF Ladder!Climb, Ladder!running
<1>3. Lists(candidates \o s, Els(candidates) \cup Els(s))
  BY Joined DEF RungInv, Collected
<1>4. Els(candidates \o s) = Els(candidates) \cup Els(s)
  BY <1>3 DEF Lists
<1>5. Lists(candidates \o s, Els(candidates \o s)) /\ NoPlaceholder(candidates \o s)
  BY <1>3, <1>4 DEF RungInv, Collected, NoPlaceholder
<1>6. (Shapely(candidates) \/ Shapely(s)) => Shapely(candidates \o s)
  BY <1>4 DEF Shapely
<1>7. Executed'
  BY <1>1 DEF RungInv, Executed, Fits, Lists, Els
<1>8. (candidates = <<>> /\ s = <<>>) => candidates' = <<>>
  BY <1>1, Members
<1> QED BY <1>1, <1>5, <1>6, <1>7, <1>8

LEMMA FitList == \A s : Fits(s) =>
  Lists(s, Els(s)) /\ NoPlaceholder(s) /\ (Ladder!Runs(s) <=> Shapely(s))
BY RunsIs DEF Fits, Fit, NoPlaceholder

LEMMA InstructionKeeps == ASSUME Bounded, RungInv, Ladder!Instruction PROVE RungInv'
<1> DEFINE o == Ladder!Proposed
<1>1. /\ rung = "instruction" /\ candidates = <<>>
      /\ UNCHANGED <<task, site, Ladder!running>>
      /\ IF \E i \in DOMAIN o : o[i].confidence = "high"
         THEN Ladder!Settle(o) ELSE Ladder!Climb(o, "scripts")
  BY DEF Ladder!Instruction, RungInv, Collected
<1>2. /\ Fits(o) /\ o \in Seq(Els(o))
      /\ Lists(o, Els(o)) /\ NoPlaceholder(o) /\ (Ladder!Runs(o) <=> Shapely(o))
      /\ \A c \in Els(o) : c.confidence = "high" => Ladder!Says("quoted pytest")
      /\ Ladder!Says("quoted pytest") => (o # <<>> /\ o[1].confidence = "high")
  BY ProposedOffered, FitList DEF Offered, Fits, Lists
<1> HIDE DEF o
<1>0. /\ DOMAIN o = 1..Len(o) /\ \A i \in DOMAIN o : o[i] \in Els(o)
      /\ \A c \in Els(o) : \E i \in DOMAIN o : o[i] = c
      /\ o # <<>> => (1 \in DOMAIN o /\ o[1] \in Els(o))
      /\ <<>> \o o = o
  BY <1>2, Members
<1>3. CASE \E i \in DOMAIN o : o[i].confidence = "high"
  <2>1. PICK i \in DOMAIN o : o[i].confidence = "high"
    BY <1>3
  <2>2. o[i] \in Els(o) /\ o # <<>>
    BY <1>0, <2>1
  <2>3. Ladder!Says("quoted pytest")
    BY <1>2, <2>1, <2>2
  <2>4. o[1] \in Els(o) /\ Ladder!Shaped(o[1].cmd) /\ Shapely(o)
    BY <1>0, <1>2, <2>2 DEF Fits, Fit, Shapely
  <2> QED BY <1>1, <1>2, <1>3, <2>3, <2>4, SettleKeeps
<1>4. CASE ~(\E i \in DOMAIN o : o[i].confidence = "high")
  <2>0. Ladder!Climb(o, "scripts")
    BY <1>1, <1>4
  <2>1. /\ task' = task /\ site' = site /\ rung' = "scripts" /\ candidates' = candidates \o o
        /\ Lists(candidates', Els(candidates')) /\ NoPlaceholder(candidates')
        /\ Shapely(o) => Shapely(candidates')
        /\ Executed'
    BY <1>1, <1>2, <2>0, ClimbAdds
  <2>2. candidates' = o /\ o = Ladder!Proposed
    BY <1>0, <1>1, <2>1 DEF o
  <2>3. \A c \in Els(o) : c.confidence # "high"
    BY <1>0, <1>4
  <2>4. ~Ladder!Says("quoted pytest")
    BY <1>0, <1>2, <1>4
  <2>5. /\ Ladder!Says("quoted pytest")' = Ladder!Says("quoted pytest")
        /\ Ladder!Proposed' = Ladder!Proposed
    BY <2>1, Unmoved
  <2>6. Collected'
    BY <2>1, <2>2, <2>3, <2>4, <2>5 DEF Collected, Rungs, Lists, Els, NoPlaceholder
  <2>7. Answered'
    BY <1>2, <2>1, <2>2, <2>5 DEF Answered, Shapely, Els, Ladder!Runs
  <2>8. Silence'
    BY <2>1, <2>2, <2>5 DEF Silence
  <2>9. ListSettled'
    BY <2>1 DEF ListSettled
  <2> QED BY <2>1, <2>6, <2>7, <2>8, <2>9 DEF RungInv
<1> QED BY <1>3, <1>4

LEMMA ScriptsKeep == ASSUME Bounded, RungInv, Ladder!WorkspaceScripts PROVE RungInv'
<1> DEFINE s == Ladder!Strong(candidates) \o Ladder!Scripts
<1>1. /\ rung = "scripts"
      /\ UNCHANGED <<task, site, Ladder!running>>
      /\ IF Ladder!Scripts # <<>> THEN Ladder!Settle(s) ELSE Ladder!Climb(<<>>, "manifest")
  BY DEF Ladder!WorkspaceScripts
<1>2. /\ ~Ladder!Says("quoted pytest") /\ \A c \in Els(candidates) : c.confidence # "high"
      /\ Lists(candidates, Els(candidates))
  BY <1>1 DEF RungInv, Collected
<1>3. CASE Ladder!Scripts # <<>>
  <2>1. \A i \in DOMAIN candidates : candidates[i] \in Els(candidates)
    BY <1>2, Members
  <2>2. {i \in DOMAIN candidates : candidates[i].confidence = "high"} = {}
    BY <1>2, <2>1
  <2>3. Ladder!Strong(candidates) = Picked(candidates, {})
    BY <2>2 DEF Ladder!Strong, Picked
  <2>4. Lists(Ladder!Strong(candidates), {})
    BY <1>2, <2>3, PickedIs
  <2>5. Ladder!Strong(candidates) = <<>>
    BY <2>4, Members
  <2>6. /\ Lists(Ladder!Scripts, Els(Ladder!Scripts))
        /\ \A c \in Els(Ladder!Scripts) : c.confidence = "high" /\ Ladder!Shaped(c.cmd)
    BY ScriptsListed
  <2>7. s = Ladder!Scripts
    BY <2>5, <2>6, Members
  <2> HIDE DEF s
  <2>8. s # <<>> /\ s[1] \in Els(s) /\ s[1].confidence = "high" /\ Ladder!Shaped(s[1].cmd)
        /\ Shapely(s)
    <3>1. Lists(s, Els(s)) /\ s # <<>>
      BY <1>3, <2>6, <2>7
    <3>2. s[1] \in Els(s)
      BY <3>1, Members
    <3> QED BY <2>6, <2>7, <3>1, <3>2 DEF Shapely
  <2>9. NoPlaceholder(s)
    BY <2>7, ScriptsListed DEF NoPlaceholder
  <2> QED BY <1>1, <1>2, <1>3, <2>6, <2>7, <2>8, <2>9, SettleKeeps
<1>4. CASE Ladder!Scripts = <<>>
  <2>1. Lists(<<>>, Els(<<>>)) /\ NoPlaceholder(<<>>)
    BY Nothing, FitList
  <2>2. Ladder!Climb(<<>>, "manifest")
    BY <1>1, <1>4
  <2>3. /\ task' = task /\ site' = site /\ rung' = "manifest"
        /\ Lists(candidates', Els(candidates')) /\ NoPlaceholder(candidates')
        /\ Shapely(candidates) => Shapely(candidates')
        /\ candidates = <<>> => candidates' = <<>>
        /\ Executed'
    BY <1>1, <2>1, <2>2, ClimbAdds
  <2>4. /\ Ladder!Says("quoted pytest")' = Ladder!Says("quoted pytest")
        /\ Ladder!Scripts' = Ladder!Scripts /\ Ladder!Proposed' = Ladder!Proposed
    BY <2>3, Unmoved
  <2>5. Collected'
    BY <1>2, <1>4, <2>3, <2>4 DEF Collected, Rungs, Lists, Els, NoPlaceholder
  <2>6. Answered'
    BY <1>1, <2>3, <2>4 DEF RungInv, Answered, Shapely, Els, Ladder!Runs
  <2>7. Silence'
    BY <1>1, <2>3, <2>4 DEF RungInv, Silence
  <2>8. ListSettled'
    BY <2>3 DEF ListSettled
  <2> QED BY <2>3, <2>5, <2>6, <2>7, <2>8 DEF RungInv
<1> QED BY <1>3, <1>4

LEMMA ManifestKeeps == ASSUME Bounded, RungInv, Ladder!RepoManifest PROVE RungInv'
<1> DEFINE s == Ladder!FromManifest
<1>1. rung = "manifest" /\ UNCHANGED <<task, site, Ladder!running>> /\ Ladder!Climb(s, "framework")
  BY DEF Ladder!RepoManifest
<1>2. /\ ~Ladder!Says("quoted pytest") /\ Ladder!Scripts = <<>>
      /\ Lists(candidates, Els(candidates)) /\ candidates \in Seq(Els(candidates))
  BY <1>1 DEF RungInv, Collected, Lists
<1>3. /\ Lists(s, Els(s)) /\ NoPlaceholder(s)
      /\ Ladder!Runs(Ladder!FromManifest) => Shapely(s)
      /\ Ladder!FromManifest = <<>> => s = <<>>
  BY ManifestListed, RunsIs DEF NoPlaceholder
<1> HIDE DEF s
<1>4. /\ task' = task /\ site' = site /\ rung' = "framework"
      /\ Lists(candidates', Els(candidates')) /\ NoPlaceholder(candidates')
      /\ (Shapely(candidates) \/ Shapely(s)) => Shapely(candidates')
      /\ (candidates = <<>> /\ s = <<>>) => candidates' = <<>>
      /\ Executed'
  BY <1>1, <1>3, ClimbAdds
<1>5. /\ Ladder!Says("quoted pytest")' = Ladder!Says("quoted pytest")
      /\ Ladder!Scripts' = Ladder!Scripts /\ Ladder!Proposed' = Ladder!Proposed
      /\ Ladder!FromManifest' = Ladder!FromManifest /\ Ladder!FromFramework' = Ladder!FromFramework
      /\ Ladder!FromSearch' = Ladder!FromSearch /\ Ladder!FromHarbor' = Ladder!FromHarbor
      /\ Ladder!SearchDue' = Ladder!SearchDue
  BY <1>4, Unmoved
<1>6. Collected'
  BY <1>2, <1>4, <1>5 DEF Collected, Rungs, Lists, Els, NoPlaceholder
<1>7. Answered'
  <2>1. /\ Ladder!Runs(Ladder!Proposed) => Shapely(candidates')
        /\ Ladder!Runs(Ladder!FromManifest) => Shapely(candidates')
    BY <1>1, <1>3, <1>4 DEF RungInv, Answered
  <2> QED BY <1>4, <1>5, <2>1 DEF Answered, Shapely, Els, Ladder!Runs
<1>8. Silence'
  BY <1>1, <1>3, <1>4, <1>5 DEF RungInv, Silence
<1>9. ListSettled'
  BY <1>4 DEF ListSettled
<1> QED BY <1>4, <1>6, <1>7, <1>8, <1>9 DEF RungInv

LEMMA FrameworkKeeps == ASSUME Bounded, RungInv, Ladder!FrameworkConvention PROVE RungInv'
<1> DEFINE s == Ladder!New(Ladder!FromFramework)
<1>1. rung = "framework" /\ UNCHANGED <<task, site, Ladder!running>> /\ Ladder!Climb(s, "search")
  BY DEF Ladder!FrameworkConvention
<1>2. /\ ~Ladder!Says("quoted pytest") /\ Ladder!Scripts = <<>>
      /\ Lists(candidates, Els(candidates)) /\ candidates \in Seq(Els(candidates))
  BY <1>1 DEF RungInv, Collected, Lists
<1>3. /\ Lists(s, Els(s)) /\ NoPlaceholder(s)
      /\ Ladder!Runs(Ladder!FromFramework) => (Shapely(candidates) \/ Shapely(s))
      /\ Ladder!FromFramework = <<>> => s = <<>>
  BY <1>2, FrameworkFits, NewIs, FitList
<1> HIDE DEF s
<1>4. /\ task' = task /\ site' = site /\ rung' = "search"
      /\ Lists(candidates', Els(candidates')) /\ NoPlaceholder(candidates')
      /\ (Shapely(candidates) \/ Shapely(s)) => Shapely(candidates')
      /\ (candidates = <<>> /\ s = <<>>) => candidates' = <<>>
      /\ Executed'
  BY <1>1, <1>3, ClimbAdds
<1>5. /\ Ladder!Says("quoted pytest")' = Ladder!Says("quoted pytest")
      /\ Ladder!Scripts' = Ladder!Scripts /\ Ladder!Proposed' = Ladder!Proposed
      /\ Ladder!FromManifest' = Ladder!FromManifest /\ Ladder!FromFramework' = Ladder!FromFramework
      /\ Ladder!FromSearch' = Ladder!FromSearch /\ Ladder!FromHarbor' = Ladder!FromHarbor
      /\ Ladder!SearchDue' = Ladder!SearchDue
  BY <1>4, Unmoved
<1>6. Collected'
  BY <1>2, <1>4, <1>5 DEF Collected, Rungs, Lists, Els, NoPlaceholder
<1>7. Answered'
  <2>1. /\ Ladder!Runs(Ladder!Proposed) => Shapely(candidates')
        /\ Ladder!Runs(Ladder!FromManifest) => Shapely(candidates')
        /\ Ladder!Runs(Ladder!FromFramework) => Shapely(candidates')
    BY <1>1, <1>3, <1>4 DEF RungInv, Answered
  <2> QED BY <1>4, <1>5, <2>1 DEF Answered, Shapely, Els, Ladder!Runs
<1>8. Silence'
  BY <1>1, <1>3, <1>4, <1>5 DEF RungInv, Silence, Ladder!SearchDue
<1>9. ListSettled'
  BY <1>4 DEF ListSettled
<1> QED BY <1>4, <1>6, <1>7, <1>8, <1>9 DEF RungInv

LEMMA SearchKeeps == ASSUME Bounded, RungInv, Ladder!RepoSearch PROVE RungInv'
<1> DEFINE s == IF candidates = <<>> THEN Ladder!FromSearch ELSE <<>>
<1>1. rung = "search" /\ UNCHANGED <<task, site, Ladder!running>> /\ Ladder!Climb(s, "harbor")
  BY DEF Ladder!RepoSearch
<1>2. /\ ~Ladder!Says("quoted pytest") /\ Ladder!Scripts = <<>>
      /\ Lists(candidates, Els(candidates)) /\ candidates \in Seq(Els(candidates))
  BY <1>1 DEF RungInv, Collected, Lists
<1>3. /\ Lists(s, Els(s)) /\ NoPlaceholder(s)
      /\ (Ladder!SearchDue /\ Ladder!Runs(Ladder!FromSearch)) => Shapely(s)
  BY <1>1, SearchFits, Nothing, FitList DEF RungInv, Silence
<1> HIDE DEF s
<1>4. /\ task' = task /\ site' = site /\ rung' = "harbor"
      /\ Lists(candidates', Els(candidates')) /\ NoPlaceholder(candidates')
      /\ (Shapely(candidates) \/ Shapely(s)) => Shapely(candidates')
      /\ (candidates = <<>> /\ s = <<>>) => candidates' = <<>>
      /\ Executed'
  BY <1>1, <1>3, ClimbAdds
<1>5. /\ Ladder!Says("quoted pytest")' = Ladder!Says("quoted pytest")
      /\ Ladder!Scripts' = Ladder!Scripts /\ Ladder!Proposed' = Ladder!Proposed
      /\ Ladder!FromManifest' = Ladder!FromManifest /\ Ladder!FromFramework' = Ladder!FromFramework
      /\ Ladder!FromSearch' = Ladder!FromSearch /\ Ladder!FromHarbor' = Ladder!FromHarbor
      /\ Ladder!SearchDue' = Ladder!SearchDue
  BY <1>4, Unmoved
<1>6. Collected'
  BY <1>2, <1>4, <1>5 DEF Collected, Rungs, Lists, Els, NoPlaceholder
<1>7. Answered'
  <2>1. /\ Ladder!Runs(Ladder!Proposed) => Shapely(candidates')
        /\ Ladder!Runs(Ladder!FromManifest) => Shapely(candidates')
        /\ Ladder!Runs(Ladder!FromFramework) => Shapely(candidates')
        /\ (Ladder!SearchDue /\ Ladder!Runs(Ladder!FromSearch)) => Shapely(candidates')
    BY <1>1, <1>3, <1>4 DEF RungInv, Answered
  <2> QED BY <1>4, <1>5, <2>1 DEF Answered, Shapely, Els, Ladder!Runs
<1>8. Silence'
  BY <1>1, <1>3, <1>4, <1>5 DEF RungInv, Silence
<1>9. ListSettled'
  BY <1>4 DEF ListSettled
<1> QED BY <1>4, <1>6, <1>7, <1>8, <1>9 DEF RungInv

LEMMA HarborKeeps == ASSUME Bounded, RungInv, Ladder!HarborTests PROVE RungInv'
<1> DEFINE s == Ladder!New(Ladder!FromHarbor)
<1>1. rung = "harbor" /\ UNCHANGED <<task, site, Ladder!running>> /\ Ladder!Climb(s, "fallback")
  BY DEF Ladder!HarborTests
<1>2. /\ ~Ladder!Says("quoted pytest") /\ Ladder!Scripts = <<>>
      /\ Lists(candidates, Els(candidates)) /\ candidates \in Seq(Els(candidates))
  BY <1>1 DEF RungInv, Collected, Lists
<1>3. /\ Lists(s, Els(s)) /\ NoPlaceholder(s)
      /\ Ladder!Runs(Ladder!FromHarbor) => (Shapely(candidates) \/ Shapely(s))
  BY <1>2, HarborFits, NewIs, FitList
<1> HIDE DEF s
<1>4. /\ task' = task /\ site' = site /\ rung' = "fallback"
      /\ Lists(candidates', Els(candidates')) /\ NoPlaceholder(candidates')
      /\ (Shapely(candidates) \/ Shapely(s)) => Shapely(candidates')
      /\ (candidates = <<>> /\ s = <<>>) => candidates' = <<>>
      /\ Executed'
  BY <1>1, <1>3, ClimbAdds
<1>5. /\ Ladder!Says("quoted pytest")' = Ladder!Says("quoted pytest")
      /\ Ladder!Scripts' = Ladder!Scripts /\ Ladder!Proposed' = Ladder!Proposed
      /\ Ladder!FromManifest' = Ladder!FromManifest /\ Ladder!FromFramework' = Ladder!FromFramework
      /\ Ladder!FromSearch' = Ladder!FromSearch /\ Ladder!FromHarbor' = Ladder!FromHarbor
      /\ Ladder!SearchDue' = Ladder!SearchDue
  BY <1>4, Unmoved
<1>6. Collected'
  BY <1>2, <1>4, <1>5 DEF Collected, Rungs, Lists, Els, NoPlaceholder
<1>7. Answered'
  <2>1. /\ Ladder!Runs(Ladder!Proposed) => Shapely(candidates')
        /\ Ladder!Runs(Ladder!FromManifest) => Shapely(candidates')
        /\ Ladder!Runs(Ladder!FromFramework) => Shapely(candidates')
        /\ (Ladder!SearchDue /\ Ladder!Runs(Ladder!FromSearch)) => Shapely(candidates')
        /\ Ladder!Runs(Ladder!FromHarbor) => Shapely(candidates')
    BY <1>1, <1>3, <1>4 DEF RungInv, Answered
  <2> QED BY <1>4, <1>5, <2>1 DEF Answered, Shapely, Els, Ladder!Runs
<1>8. Silence'
  BY <1>1, <1>3, <1>4, <1>5 DEF RungInv, Silence
<1>9. ListSettled'
  BY <1>4 DEF ListSettled
<1> QED BY <1>4, <1>6, <1>7, <1>8, <1>9 DEF RungInv

\* Each rung has answered for what it had to run; the fallbacks, at the end, do.
LEMMA FallbackKeeps == ASSUME Bounded, RungInv, Ladder!MinimalSafe PROVE RungInv'
<1> DEFINE b == Ladder!New(Ladder!Fallbacks)
           s == candidates \o b
<1>1. rung = "fallback" /\ UNCHANGED <<task, site, Ladder!running>> /\ Ladder!Settle(s)
  BY DEF Ladder!MinimalSafe, Ladder!FallbackNew
<1>2. /\ ~Ladder!Says("quoted pytest") /\ Ladder!Scripts = <<>>
      /\ Lists(candidates, Els(candidates)) /\ candidates \in Seq(Els(candidates))
      /\ NoPlaceholder(candidates)
  BY <1>1 DEF RungInv, Collected, Lists
<1>3. /\ Lists(b, Els(b)) /\ NoPlaceholder(b)
      /\ Ladder!Runs(Ladder!Fallbacks) => (Shapely(candidates) \/ Shapely(b))
  BY <1>2, FallbacksFit, NewIs, FitList
<1> HIDE DEF b
<1>4. Lists(s, Els(candidates) \cup Els(b))
  BY <1>2, <1>3, Joined
<1>5. Lists(s, Els(s)) /\ Els(s) = Els(candidates) \cup Els(b)
  BY <1>4 DEF Lists
<1> HIDE DEF s
<1>6. NoPlaceholder(s) /\ ((Shapely(candidates) \/ Shapely(b)) => Shapely(s))
  BY <1>2, <1>3, <1>5 DEF NoPlaceholder, Shapely
<1>7. ~Ladder!Runs(Ladder!Scripts)
  <2>1. ~Shapely(<<>>)
    BY Nothing DEF Shapely
  <2>2. Ladder!Runs(<<>>) <=> Shapely(<<>>)
    BY Nothing, FitList
  <2> QED BY <1>2, <2>1, <2>2
<1>8. /\ Ladder!Runs(Ladder!Proposed) => Shapely(candidates)
      /\ Ladder!Runs(Ladder!FromManifest) => Shapely(candidates)
      /\ Ladder!Runs(Ladder!FromFramework) => Shapely(candidates)
      /\ (Ladder!SearchDue /\ Ladder!Runs(Ladder!FromSearch)) => Shapely(candidates)
      /\ Ladder!Runs(Ladder!FromHarbor) => Shapely(candidates)
  BY <1>1 DEF RungInv, Answered
<1>9. Promised => Shapely(s)
  BY <1>3, <1>6, <1>7, <1>8 DEF Promised
<1> QED BY <1>1, <1>2, <1>5, <1>6, <1>9, SettleKeeps

LEMMA Onward ==
  \A n \in Nat \ {0}, m \in Nat : n + 1 \in Nat \ {0} /\ (n <= m => n \in 1..m)
OBVIOUS

LEMMA ElsGrow ==
  \A S, s, x : (s \in Seq(S) /\ x \in S) =>
    Append(s, x) \in Seq(S) /\ Els(Append(s, x)) = Els(s) \cup {x}
BY ElsAppend

\* What the ladder has and what it was given stays, and so does what is said of it.
LEMMA LadderStays ==
  ASSUME RungInv, UNCHANGED <<task, site, rung, candidates, found>>
  PROVE  Collected' /\ Answered' /\ Silence' /\ ListSettled'
<1>1. task' = task /\ site' = site /\ rung' = rung /\ candidates' = candidates /\ found' = found
  OBVIOUS
<1>2. /\ Ladder!Says("quoted pytest")' = Ladder!Says("quoted pytest")
      /\ Ladder!Scripts' = Ladder!Scripts /\ Promised' = Promised
      /\ Ladder!Proposed' = Ladder!Proposed /\ Ladder!FromManifest' = Ladder!FromManifest
      /\ Ladder!FromFramework' = Ladder!FromFramework
      /\ Ladder!FromSearch' = Ladder!FromSearch /\ Ladder!FromHarbor' = Ladder!FromHarbor
      /\ Ladder!SearchDue' = Ladder!SearchDue
  BY <1>1, Unmoved
<1>3. Collected'
  BY <1>1, <1>2 DEF RungInv, Collected, Lists, Els, NoPlaceholder
<1>4. Answered'
  BY <1>1, <1>2 DEF RungInv, Answered, Shapely, Els, Ladder!Runs
<1>5. Silence' /\ ListSettled'
  BY <1>1, <1>2 DEF RungInv, Silence, ListSettled, Els
<1> QED BY <1>3, <1>4, <1>5

\* A validator that is over is recorded under the command that was chosen.
LEMMA RecordKeeps ==
  ASSUME Bounded, RungInv, NEW status, Ladder!CanRun, Ladder!Record(status)
  PROVE  Fits(outcomes)' /\ (next \in Nat \ {0})'
<1> DEFINE x == [cmd |-> Ladder!Chosen[next].cmd, status |-> status]
<1>1. outcomes' = Append(outcomes, x) /\ next' = next + 1
  BY DEF Ladder!Record
<1>2. Lists(Ladder!Chosen, Els(Ladder!Chosen)) /\ \A c \in Els(Ladder!Chosen) : Fit(c)
  BY ChosenIs DEF RungInv, Executed, Fits
<1>3. next \in Nat \ {0} /\ next <= Len(Ladder!Chosen)
  BY DEF RungInv, Executed, Ladder!CanRun
<1>4. Ladder!Chosen[next] \in Els(Ladder!Chosen)
  <2> DEFINE c == Ladder!Chosen
  <2>1. /\ DOMAIN c = 1..Len(c) /\ Len(c) \in Nat
        /\ \A i \in DOMAIN c : c[i] \in Els(c)
    BY <1>2, Members
  <2> HIDE DEF c
  <2>2. next \in 1..Len(c)
    BY <1>3, <2>1, Onward DEF c
  <2> QED BY <2>1, <2>2 DEF c
<1>5. x.cmd = Ladder!Chosen[next].cmd
  OBVIOUS
<1>6. Fit(x)
  BY <1>2, <1>4, <1>5 DEF Fit
<1> HIDE DEF x
<1> DEFINE S == Els(outcomes) \cup {x}
<1>7. outcomes \in Seq(S) /\ x \in S
  BY Wider DEF RungInv, Executed, Fits, Lists
<1> HIDE DEF S
<1>8. outcomes' \in Seq(S) /\ Els(outcomes') = Els(outcomes) \cup {x}
  <2>1. Append(outcomes, x) \in Seq(S) /\ Els(Append(outcomes, x)) = Els(outcomes) \cup {x}
    BY <1>7, ElsGrow
  <2> QED BY <1>1, <2>1
<1>9. Fits(outcomes')
  BY <1>6, <1>8 DEF RungInv, Executed, Fits, Lists, S
<1>10. (next \in Nat \ {0})'
  <2>1. next + 1 \in Nat \ {0}
    BY <1>3, Onward
  <2> QED BY <1>1, <2>1
<1> QED BY <1>9, <1>10 DEF Fits, Lists, Els

\* The runner moves on through what was chosen; the ladder is left alone.
LEMMA RunnerKeeps ==
  ASSUME Bounded, RungInv,
         \/ Ladder!RunnerStep
         \/ \E code \in {0, 1, 137, -1}, says \in {"plain", "nothing tested", "no interpreter"} :
              Ladder!ProcessEnds(code, says)
  PROVE  RungInv'
<1>1. /\ UNCHANGED <<task, site, rung, candidates, found>>
      /\ \/ UNCHANGED <<next, outcomes>>
         \/ \E status : Ladder!CanRun /\ Ladder!Record(status)
  BY DEF Ladder!RunnerStep, Ladder!SpawnFails, Ladder!Spawn, Ladder!TimesOut, Ladder!PipesClose,
         Ladder!Classify, Ladder!ProcessEnds, Ladder!ladder
<1>2. Collected' /\ Answered' /\ Silence' /\ ListSettled'
  BY <1>1, LadderStays
<1>3. Fits(found)'
  BY <1>1 DEF RungInv, Executed, Fits, Lists, Els
<1>4. Fits(outcomes)' /\ (next \in Nat \ {0})'
  <2>1. CASE UNCHANGED <<next, outcomes>>
    BY <2>1 DEF RungInv, Executed, Fits, Lists, Els
  <2>2. ASSUME NEW status, Ladder!CanRun, Ladder!Record(status)
        PROVE  Fits(outcomes)' /\ (next \in Nat \ {0})'
    BY <2>2, RecordKeeps
  <2> QED BY <1>1, <2>1, <2>2
<1> QED BY <1>2, <1>3, <1>4 DEF RungInv, Executed

LEMMA RungNext ==
  ASSUME Bounded, RungInv, [Ladder!ValidationNext]_Ladder!validationVars
  PROVE  RungInv'
<1>1. CASE UNCHANGED Ladder!validationVars
  <2>1. /\ task' = task /\ site' = site /\ rung' = rung /\ candidates' = candidates
        /\ found' = found /\ next' = next /\ outcomes' = outcomes
    BY <1>1 DEF Ladder!validationVars
  <2>2. Collected' /\ Answered' /\ Silence' /\ ListSettled'
    BY <2>1, LadderStays
  <2>3. Executed'
    BY <2>1 DEF RungInv, Executed, Fits, Lists, Els
  <2> QED BY <2>2, <2>3 DEF RungInv
<1>2. CASE Ladder!Instruction
  BY <1>2, InstructionKeeps
<1>3. CASE Ladder!WorkspaceScripts
  BY <1>3, ScriptsKeep
<1>4. CASE Ladder!RepoManifest
  BY <1>4, ManifestKeeps
<1>5. CASE Ladder!FrameworkConvention
  BY <1>5, FrameworkKeeps
<1>6. CASE Ladder!RepoSearch
  BY <1>6, SearchKeeps
<1>7. CASE Ladder!HarborTests
  BY <1>7, HarborKeeps
<1>8. CASE Ladder!MinimalSafe
  BY <1>8, FallbackKeeps
<1>9. CASE \/ Ladder!RunnerStep
           \/ \E code \in {0, 1, 137, -1},
                 says \in {"plain", "nothing tested", "no interpreter"} :
                Ladder!ProcessEnds(code, says)
  BY <1>9, RunnerKeeps
<1> QED
  BY <1>1, <1>2, <1>3, <1>4, <1>5, <1>6, <1>7, <1>8, <1>9 DEF Ladder!ValidationNext

LEMMA RungSafe == (Bounded /\ Ladder!ValidationSpec) => [](Bounded /\ RungInv)
<1>1. (Bounded /\ Ladder!ValidationInit) => (Bounded /\ RungInv)
  BY RungInit
<1>2. ((Bounded /\ RungInv) /\ [Ladder!ValidationNext]_(Ladder!validationVars)) =>
        (Bounded /\ RungInv)'
  <2> SUFFICES ASSUME Bounded, RungInv, [Ladder!ValidationNext]_(Ladder!validationVars)
               PROVE  Bounded' /\ RungInv'
    OBVIOUS
  <2>1. RungInv'
    BY RungNext
  <2>2. Bounded'
    BY DEF Bounded
  <2> QED BY <2>1, <2>2
<1> QED BY <1>1, <1>2, PTL DEF Ladder!ValidationSpec

\* A task gets a validator if any rung of the ladder has one that can run, whatever the
\* other rungs yield and the shape check then refuses, but for the search of the
\* repository, which is made only if the rungs before it had nothing at all
\* (discoverValidators): for any task text and workspace, and any limits on how many are
\* listed and run.
THEOREM ValidatorsFound == (Bounded /\ Ladder!ValidationSpec) => []NothingMissed
<1>1. (Bounded /\ RungInv) => NothingMissed
  BY DEF RungInv, ListSettled, Promised, NothingMissed, Ladder!NothingMissed, Ladder!Listed
<1> QED BY <1>1, RungSafe, PTL

\* A quoted command or a script of the workspace leads, and what runs can check something:
\* no path, no setup step, no placeholder (finalizeDiscoveredCandidates, validate).
THEOREM BestCommandLeads == (Bounded /\ Ladder!ValidationSpec) => []BestLead
<1>1. (Bounded /\ RungInv) => BestLead
  <2> SUFFICES ASSUME Bounded, RungInv PROVE Ladder!StrongLeads /\ Ladder!NeverUnfit
    BY DEF BestLead
  <2>1. Lists(found, Els(found)) /\ Lists(outcomes, Els(outcomes))
    BY DEF RungInv, Executed, Fits
  <2>2. /\ \A i \in DOMAIN found : found[i] \in Els(found)
        /\ \A i \in DOMAIN outcomes : outcomes[i] \in Els(outcomes)
    BY <2>1, Members
  <2>3. found # <<>> => (Ladder!Chosen # <<>> /\ Ladder!Chosen[1] = found[1])
    BY ChosenIs DEF RungInv, Executed
  <2>4. Ladder!StrongLeads
    BY <2>2, <2>3 DEF RungInv, ListSettled, Ladder!StrongLeads, Ladder!Listed
  <2>5. Ladder!NeverUnfit
    BY <2>2 DEF RungInv, Executed, Fits, Fit, Ladder!NeverUnfit, Ladder!Shaped
  <2> QED BY <2>4, <2>5
<1> QED BY <1>1, RungSafe, PTL
=============================================================================
