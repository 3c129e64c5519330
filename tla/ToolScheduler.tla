--------------------------- MODULE ToolScheduler ---------------------------
(***************************************************************************)
(* executeToolBatch (packages/runtime/src/tool-loop.ts) and the patch      *)
(* recovery the turn runner applies to each batch (patch-recovery.ts).     *)
(*                                                                         *)
(* The scheduler walks the calls of one answer in order.  A call of a      *)
(* "function" tool is started and left running; any other call waits for   *)
(* the running ones and then runs alone.  Refusals need no await.  The     *)
(* tools finish whenever they like.                                        *)
(*                                                                         *)
(* Across batches one path is followed: a file that exists, that           *)
(* apply_patch fails on and write_file may overwrite only while the path   *)
(* is in recoveryWriteFileOpenFor.                                         *)
(***************************************************************************)
EXTENDS Integers, Sequences, FiniteSets

CONSTANTS
  Read, Asset, Shell, Write, Patch,  \* a read-only tool, read_asset, run_shell,
                                     \* write_file, apply_patch
  CanAsk,     \* canUseTool is given
  MaxAssets,  \* MAX_READ_ASSET_PER_TURN
  MaxBytes,   \* MAX_READ_ASSET_BYTES_PER_TURN, in some unit
  AssetSizes, \* what an asset may measure, in that unit
  Batches,    \* bound: the answers there may be
  MaxAnswers  \* bound: how many of them

BatchTools == {Read, Asset, Shell, Write, Patch}

ASSUME KindsAssumption == Cardinality(BatchTools) = 5
ASSUME BoundsAssumption ==
  /\ CanAsk \in BOOLEAN /\ MaxAssets \in Nat /\ MaxBytes \in Nat /\ MaxAnswers \in Nat
  /\ AssetSizes \subseteq Nat /\ Batches \subseteq Seq(BatchTools)

VARIABLES
  batch,    \* calls
  next,     \* i, the call the loop is at
  stage,    \* what the loop is doing
  results,  \* results; None until the call is answered
  running,  \* calls being executed
  assets,   \* assetBudget.count
  bytes,    \* assetBudget.bytes
  sizes,    \* what statSync said of the asset of a call that was let through
  flagged,  \* recoveryWriteRel of the call at next
  open,     \* the path is in recoveryWriteFileOpenFor
  fails,    \* failureCount of the path
  turn,     \* answers so far
  trace     \* what happened to the file: patches and overwrites, with their turn

budgetVars == <<assets, bytes, sizes>>
batchVars == <<batch, next, stage, results, running, budgetVars, flagged, open, fails, turn, trace>>

(***************************************************************************)
(* Values.  What the checks before the gate, the gate and the user make of *)
(* a call depends on its arguments: the model takes every outcome.         *)
(***************************************************************************)
SerialTools == {Shell, Write, Patch}
CallStatuses == {"none", "bad_args", "over_budget", "denied", "ok", "error", "mismatch"}
LoopStages == {"idle", "next", "gate", "asking", "drain", "serial", "recover"}
Unmeasured == -1
Traced == [what : {"patched", "mismatch", "overwritten"}, turn : 1..MaxAnswers]

Current == batch[next]
NoBudgetYet(calls) == assets' = 0 /\ bytes' = 0 /\ sizes' = [i \in DOMAIN calls |-> Unmeasured]
Settle(i, status) == results' = [results EXCEPT ![i] = status]
\* The call is answered without being run, and the loop goes on to the next.
Skip(status) ==
  /\ Settle(next, status)
  /\ next' = next + 1 /\ stage' = "next" /\ flagged' = FALSE

BatchInit ==
  /\ batch = <<>> /\ next = 1 /\ stage = "idle" /\ results = <<>> /\ running = {}
  /\ assets = 0 /\ bytes = 0 /\ sizes = <<>> /\ flagged = FALSE
  /\ open = FALSE /\ fails = 0 /\ turn = 0 /\ trace = <<>>

NewBatch(calls) ==
  /\ stage = "idle" /\ turn < MaxAnswers
  /\ batch' = calls /\ next' = 1 /\ stage' = "next"
  /\ results' = [i \in DOMAIN calls |-> "none"]
  /\ NoBudgetYet(calls) /\ turn' = turn + 1
  /\ UNCHANGED <<running, flagged, open, fails, trace>>

(***************************************************************************)
(* One call: availability, arguments, the recovery flag, the asset budget, *)
(* then the gate.                                                          *)
(***************************************************************************)
\* Not offered this turn, not registered at all, or with invalid arguments.
Refuse ==
  /\ stage = "next" /\ next <= Len(batch)
  /\ Skip("bad_args")
  /\ UNCHANGED <<batch, running, budgetVars, open, fails, turn, trace>>

\* Mutated OverBudget: the size of the asset itself is forgotten.
OverBudgetLate(size) == assets >= MaxAssets \/ bytes >= MaxBytes

\* maybeReserveReadAssetBudget: the limits on the assets read in one batch.
OverBudget(size) == assets >= MaxAssets \/ bytes + size > MaxBytes

Pass ==
  /\ flagged' = (Current = Write /\ open)
  /\ stage' = "gate"
  /\ UNCHANGED <<next, results>>

\* Only what can be measured is counted: a read_asset of no path, of a path
\* outside the workspace or of a file that is not there passes, and then fails.
CheckBudget ==
  /\ stage = "next" /\ next <= Len(batch)
  /\ \/ Pass /\ UNCHANGED budgetVars
     \/ \E size \in AssetSizes :
          /\ Current = Asset
          /\ IF OverBudget(size)
             THEN Skip("over_budget") /\ UNCHANGED budgetVars
             ELSE /\ Pass
                  /\ assets' = assets + 1 /\ bytes' = bytes + size
                  /\ sizes' = [sizes EXCEPT ![next] = size]
  /\ UNCHANGED <<batch, running, open, fails, turn, trace>>

Deny == Skip("denied")

\* A function tool starts and the loop moves on; another tool waits its turn.
Dispatch ==
  IF Current \in SerialTools
  THEN /\ stage' = "drain"
       /\ UNCHANGED <<next, running, flagged>>
  ELSE /\ running' = running \cup {next}
       /\ next' = next + 1 /\ stage' = "next" /\ flagged' = FALSE

\* Rejected, to be asked for, or allowed; nobody to ask means no.  Every level
\* of autonomy allows read_asset, so that its file is read as it was measured.
Gate ==
  /\ stage = "gate"
  /\ \/ Current # Asset /\ Deny /\ UNCHANGED running
     \/ /\ Current # Asset /\ CanAsk
        /\ stage' = "asking" /\ UNCHANGED <<next, results, running, flagged>>
     \/ Dispatch /\ UNCHANGED results
  /\ UNCHANGED <<batch, budgetVars, open, fails, turn, trace>>

\* canUseTool returns.
Decide ==
  /\ stage = "asking"
  /\ \/ Deny /\ UNCHANGED running
     \/ Dispatch /\ UNCHANGED results
  /\ UNCHANGED <<batch, budgetVars, open, fails, turn, trace>>

\* Mutated Drained: nothing is waited for.
Undrained == TRUE

\* Promise.all(pending) resolves.
Drained == running = {}

StartSerial ==
  /\ stage = "drain" /\ Drained
  /\ running' = running \cup {next}
  /\ stage' = "serial"
  /\ UNCHANGED <<batch, next, results, budgetVars, flagged, open, fails, turn, trace>>

(***************************************************************************)
(* A tool returns or throws.  write_file refuses an existing file unless   *)
(* flagged, and a flagged call closes the window however it ends.          *)
(* read_asset makes the checks of the budget again, with no await between, *)
(* and what could not be measured cannot be read.                          *)
(***************************************************************************)
CallOutcomes(i) ==
  CASE batch[i] = Patch                         -> {"ok", "error", "mismatch"}
    [] batch[i] = Write /\ ~flagged             -> {"error"}
    [] batch[i] = Asset /\ sizes[i] = Unmeasured -> {"error"}
    [] OTHER                                    -> {"ok", "error"}

Effect(tool, status) ==
  CASE tool = Patch /\ status = "ok"       -> <<[what |-> "patched", turn |-> turn]>>
    [] tool = Patch /\ status = "mismatch" -> <<[what |-> "mismatch", turn |-> turn]>>
    [] tool = Write /\ status = "ok"       -> <<[what |-> "overwritten", turn |-> turn]>>
    [] OTHER                               -> <<>>

\* Mutated WindowAfterRun: the window stays open after the overwrite it was for.
WindowLeftOpen == open

\* The window that was open is used up by a call that was let through it.
WindowAfterRun == open /\ ~flagged

Finish(i, status) ==
  /\ status \in CallOutcomes(i)
  /\ Settle(i, status)
  /\ running' = running \ {i}
  /\ trace' = trace \o Effect(batch[i], status)
  /\ IF batch[i] \in SerialTools
     THEN next' = next + 1 /\ stage' = "next" /\ flagged' = FALSE /\ open' = WindowAfterRun
     ELSE UNCHANGED <<next, stage, flagged, open>>
  /\ UNCHANGED <<batch, budgetVars, fails, turn>>

\* Mutated Settled: what still runs is left behind.
AllStarted == TRUE
Settled == running = {}

\* The loop has ended: wait for what still runs.
Close ==
  /\ stage = "next" /\ next > Len(batch) /\ Settled
  /\ stage' = "recover"
  /\ UNCHANGED <<batch, next, results, running, budgetVars, flagged, open, fails, turn, trace>>

(***************************************************************************)
(* maybeInjectPatchRecovery, over the batch: a success closes the window   *)
(* and clears the count, the first two failures open it, a third gives up. *)
(***************************************************************************)
Judged == {i \in DOMAIN batch : batch[i] = Patch /\ results[i] \in {"ok", "mismatch"}}
\* The failures at the end: those no success comes after.
Failed == {i \in Judged : \A k \in Judged : k >= i => results[k] = "mismatch"}

Recover ==
  /\ stage = "recover"
  /\ fails' = Cardinality(Failed) + (IF Failed = Judged THEN fails ELSE 0)
  /\ open' = IF Judged = {} THEN open ELSE Failed # {} /\ fails' <= 2
  /\ batch' = <<>> /\ results' = <<>> /\ next' = 1
  /\ NoBudgetYet(<<>>)
  /\ stage' = "idle"
  /\ UNCHANGED <<running, flagged, turn, trace>>

SchedulerStep ==
  \/ Refuse \/ CheckBudget \/ Gate \/ Decide \/ StartSerial \/ Close \/ Recover
  \/ \E i \in running, status \in CallStatuses : Finish(i, status)

BatchNext == SchedulerStep \/ \E calls \in Batches : NewBatch(calls)

\* The loop and the tools it waits for always get on: every tool bounds its own
\* run time, and canUseTool answers.
BatchSpec == BatchInit /\ [][BatchNext]_batchVars /\ WF_batchVars(SchedulerStep)

-----------------------------------------------------------------------------
BatchTypeOK ==
  /\ batch \in Seq(BatchTools) /\ next \in 1..Len(batch) + 1 /\ stage \in LoopStages
  /\ results \in Seq(CallStatuses) /\ Len(results) = Len(batch)
  /\ running \subseteq DOMAIN batch
  /\ assets \in 0..MaxAssets /\ bytes \in 0..MaxBytes
  /\ sizes \in [DOMAIN batch -> AssetSizes \cup {Unmeasured}] /\ flagged \in BOOLEAN /\ open \in BOOLEAN
  /\ fails \in Nat /\ turn \in 0..MaxAnswers /\ trace \in Seq(Traced)

\* A tool that may change the workspace has it to itself: no other call of the
\* batch, earlier or later, runs beside it.
SerialAlone == \A i \in running : batch[i] \in SerialTools => running = {i}

\* The batch returns with a result for every call and nothing left running.
AllAnswered ==
  stage = "recover" => running = {} /\ \A i \in DOMAIN results : results[i] # "none"

\* The bytes of the assets of some calls, each byte named by its call and its
\* place: their number is the sum of the sizes.
BytesOf(S) == {b \in S \X (1..MaxBytes) : b[2] <= sizes[b[1]]}

\* However the calls of a batch are answered, the assets it attaches are at most
\* MaxAssets, and together they are no larger than MaxBytes.
AssetsBounded ==
  LET attached == {i \in DOMAIN batch : batch[i] = Asset /\ results[i] = "ok"}
  IN  /\ Cardinality(attached) <= MaxAssets
      /\ Cardinality(BytesOf(attached)) <= MaxBytes

\* An overwrite needs a patch that failed in an earlier batch.  Later batches
\* have not overwritten the file since, and the path was not patched since,
\* unless by the very batch that overwrites.
OverwriteEarned ==
  \A i \in DOMAIN trace : trace[i].what = "overwritten" =>
    \E j \in 1..i - 1 :
      /\ trace[j].what = "mismatch" /\ trace[j].turn < trace[i].turn
      /\ \A k \in j + 1..i - 1 :
           /\ trace[k].what = "overwritten" => trace[k].turn = trace[j].turn
           /\ trace[k].what = "patched" => trace[k].turn = trace[i].turn

\* Every batch comes to its end.
BatchEnds == (stage = "next") ~> (stage = "idle")
=============================================================================
