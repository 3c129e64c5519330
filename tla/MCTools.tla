------------------------------ MODULE MCTools ------------------------------
(***************************************************************************)
(* What a run of the agent waits for, for TLC: the autonomous command, the *)
(* turn loop, the scheduler of a batch of tool calls, a shell call and the *)
(* network tools.  They meet through what they return, so a behaviour is   *)
(* one of a single part, chosen at the start; the others stay as they are. *)
(***************************************************************************)
EXTENDS ToolParts, TurnRunner

VARIABLE part

\* All answers of one or two calls, and enough assets to go over each limit.
AnswerBatches ==
  UNION {[1..n -> BatchTools] : n \in 1..2} \cup {<<Asset, Asset, Asset>>}

callVars == <<shell, child, code, killed, stopped, armed, held, pipe, timedOut,
              reapDeadlineHit, result>>
netVars == <<mode, cache, webCalls>>
partVars == <<part, batchVars, autoVars, vars, callVars, netVars>>

\* Any fault of the turn loop but a crash; it sees a denial as any other error.
RunFaults == {"error", "throw", "cut", "abort"}
AllFeedbacks == {"none", "message", "stop"}
RunReturns == {"ok", "error", "empty", "schema", "patch"}

PartsInit ==
  /\ part \in {"scheduler", "turns", "command", "shell", "web"}
  /\ BatchInit /\ AutoInit
  /\ Init /\ (part # "turns" => provider = "openai" /\ conv = None)
  /\ Exec!ShellInit /\ (part # "shell" => ~stopped)
  /\ Web!WebInit /\ (part # "web" => mode = [provider |-> "serper", benchmark |-> FALSE])

Only(own) ==
  /\ part' = part /\ part = own
  /\ own # "scheduler" => UNCHANGED batchVars
  /\ own # "command" => UNCHANGED autoVars
  /\ own # "turns" => UNCHANGED vars
  /\ own # "shell" => UNCHANGED callVars
  /\ own # "web" => UNCHANGED netVars

PartsNext ==
  \/ Only("scheduler") /\ BatchNext
  \/ Only("command") /\ AutoNext
  \/ Only("turns") /\ Next
  \/ Only("shell") /\ Exec!ShellNext
  \/ Only("web") /\ Web!WebNext

\* The fairness of each part, for the part that runs.  The two workers are alike:
\* what is promised and asked of web is promised and asked of the first.
PartsFairness ==
  /\ WF_partVars(\/ Only("scheduler") /\ SchedulerStep
                 \/ Only("turns") /\ RunnerStep
                 \/ Only("command") /\ MainStep
                 \/ Only("shell") /\ Exec!CallStep
                 \/ Only("web") /\ Web!Timeout("k"))
  /\ WF_partVars(Only("shell") /\ Exec!Abort)
  /\ WF_partVars(\/ Only("shell") /\ Exec!PipeStep
                 \/ Only("command") /\ \E w \in Writers : WriterStep(w))

PartsSpec == PartsInit /\ [][PartsNext]_partVars /\ PartsFairness

Finished ==
  CASE part = "scheduler" -> stage = "idle"
    [] part = "turns" -> pc = "done"
    [] part = "command" -> exitCode # Unset
    [] part = "shell" -> shell = "done"
    [] part = "web" -> ~(Web!Waiting("k") /\ webCalls["k"].op # "HEAD")

\* Whatever is going on comes to its end, again and again where it may start
\* again: BatchEnds, Terminates, CommandEnds, ShellEnds and NetworkEnds at once.
PartEnds == []<>Finished
=============================================================================
