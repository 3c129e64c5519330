----------------------------- MODULE ToolProofs -----------------------------
(***************************************************************************)
(* What holds of ToolScheduler for any number of calls in an answer: a     *)
(* tool that may mutate runs alone, and no call is left without a result.  *)
(*                                                                         *)
(* Both follow from where the loop is: before the loop passes a call it is *)
(* answered or running, only function tools run while the loop goes on,    *)
(* and the loop stands still while another tool runs.                      *)
(*                                                                         *)
(* The budget for reading assets needs the calls that have a place in it:  *)
(* none of them is ahead of the loop, and no other call attaches an asset. *)
(*                                                                         *)
(* Proofs about what surrounds a batch follow: the command (Autonomous),   *)
(* a shell call (ShellCall) and the network tools (WebSearch).             *)
(***************************************************************************)
EXTENDS ToolParts, FiniteSetTheorems, SequenceTheorems, TLAPS

-----------------------------------------------------------------------------
\* The parts of the state the argument is about have their types.
Shape ==
  /\ batch \in Seq(BatchTools) /\ next \in Nat \ {0} /\ stage \in LoopStages
  /\ results \in Seq(CallStatuses) /\ Len(results) = Len(batch)
  /\ running \subseteq 1..Len(batch)

\* Where the loop is, and what runs meanwhile.
Walking == stage \in {"next", "gate", "asking", "drain"}
OnlyFunctionsRun == Walking => \A i \in running : i < next /\ batch[i] \notin SerialTools
SerialRunsAlone == stage = "serial" => running = {next}
CallAtHand ==
  /\ stage \in {"gate", "asking", "drain", "serial"} => next <= Len(batch)
  /\ stage \in {"drain", "serial"} => batch[next] \in SerialTools
Quiet == stage \in {"idle", "recover"} => running = {}
PassedAreAnswered == \A i \in 1..Len(batch) : i < next => i \in running \/ results[i] # "none"
LoopLeft == stage = "recover" => next > Len(batch)

LoopInv ==
  /\ Shape /\ OnlyFunctionsRun /\ SerialRunsAlone /\ CallAtHand /\ Quiet
  /\ PassedAreAnswered /\ LoopLeft

-----------------------------------------------------------------------------
LEMMA LoopInit == BatchInit => LoopInv
<1> SUFFICES ASSUME BatchInit PROVE LoopInv
  OBVIOUS
<1>1. Shape
  BY DEF BatchInit, Shape, LoopStages
<1> QED
  BY <1>1 DEF BatchInit, LoopInv, OnlyFunctionsRun, Walking, SerialRunsAlone, CallAtHand, Quiet,
              PassedAreAnswered, LoopLeft

\* A new answer: nothing runs and no call has been passed (executeToolBatch).
LEMMA NewBatchLoop ==
  ASSUME LoopInv, NEW calls \in Batches, NewBatch(calls)
  PROVE  LoopInv'
<1>1. calls \in Seq(BatchTools)
  BY BoundsAssumption
<1>2. results' \in Seq(CallStatuses) /\ Len(results') = Len(calls)
  <2>1. DOMAIN calls = 1..Len(calls) /\ Len(calls) \in Nat
    BY <1>1
  <2> QED
    BY <2>1 DEF NewBatch, CallStatuses
<1>3. running = {}
  BY DEF NewBatch, LoopInv, Quiet
<1>4. Shape'
  BY <1>1, <1>2, <1>3 DEF NewBatch, Shape, LoopStages
<1> QED
  BY <1>3, <1>4 DEF NewBatch, LoopInv, OnlyFunctionsRun, Walking, SerialRunsAlone, CallAtHand,
                    Quiet, PassedAreAnswered, LoopLeft

\* The loop answers the call at hand without running it, and goes on.
LEMMA SkipLoop ==
  ASSUME LoopInv, NEW status \in CallStatuses \ {"none"}, Skip(status),
         next <= Len(batch), stage \in {"next", "gate", "asking"},
         UNCHANGED <<batch, running>>
  PROVE  LoopInv'
<1> USE DEF LoopInv
<1>1. results' = [results EXCEPT ![next] = status] /\ next' = next + 1 /\ stage' = "next"
  BY DEF Skip, Settle
<1>2. next \in 1..Len(batch) /\ results' \in Seq(CallStatuses) /\ Len(results') = Len(batch)
  BY <1>1 DEF Shape
<1>3. Shape'
  BY <1>1, <1>2 DEF Shape, LoopStages
<1>4. OnlyFunctionsRun'
  BY <1>1 DEF OnlyFunctionsRun, Walking, Shape
<1>5. PassedAreAnswered'
  <2> SUFFICES ASSUME NEW i \in 1..Len(batch), i < next + 1, i \notin running
               PROVE  results'[i] # "none"
    BY <1>1 DEF PassedAreAnswered
  <2>1. CASE i = next
    BY <1>1, <1>2, <2>1 DEF Shape
  <2>2. CASE i # next
    <3>1. i < next /\ results'[i] = results[i]
      BY <1>1, <2>2 DEF Shape
    <3> QED
      BY <3>1 DEF PassedAreAnswered
  <2> QED
    BY <2>1, <2>2
<1> QED
  BY <1>1, <1>3, <1>4, <1>5 DEF SerialRunsAlone, CallAtHand, Quiet, LoopLeft

\* A call that is allowed: a function tool starts, another waits.
LEMMA DispatchLoop ==
  ASSUME LoopInv, stage \in {"gate", "asking"}, Dispatch, UNCHANGED <<batch, results>>
  PROVE  LoopInv'
<1> USE DEF LoopInv
<1>1. next \in 1..Len(batch)
  BY DEF Shape, CallAtHand
<1>2. CASE batch[next] \in SerialTools
  <2>1. stage' = "drain" /\ UNCHANGED <<next, running>>
    BY <1>2 DEF Dispatch, Current
  <2>2. Shape'
    BY <2>1 DEF Shape, LoopStages
  <2> QED
    BY <1>1, <1>2, <2>1, <2>2 DEF OnlyFunctionsRun, Walking, SerialRunsAlone, CallAtHand, Quiet,
                                  PassedAreAnswered, LoopLeft
<1>3. CASE batch[next] \notin SerialTools
  <2>1. stage' = "next" /\ next' = next + 1 /\ running' = running \cup {next}
    BY <1>3 DEF Dispatch, Current
  <2>2. Shape'
    BY <1>1, <2>1 DEF Shape, LoopStages
  <2>3. OnlyFunctionsRun'
    BY <1>1, <1>3, <2>1 DEF OnlyFunctionsRun, Walking, Shape
  <2>4. PassedAreAnswered'
    BY <1>1, <2>1 DEF PassedAreAnswered, Shape
  <2> QED
    BY <2>1, <2>2, <2>3, <2>4 DEF SerialRunsAlone, CallAtHand, Quiet, LoopLeft
<1> QED
  BY <1>2, <1>3

\* A tool returns: it is one of the function tools, or the one the loop is at.
LEMMA FinishLoop ==
  ASSUME LoopInv, NEW i \in running, NEW status \in CallStatuses, Finish(i, status)
  PROVE  LoopInv'
<1> USE DEF LoopInv
<1>1. i \in running /\ i \in 1..Len(batch) /\ status # "none"
  BY DEF Finish, Shape, CallOutcomes
<1>2. /\ results' = [results EXCEPT ![i] = status]
      /\ running' = running \ {i} /\ batch' = batch
  BY DEF Finish, Settle
<1>3. results' \in Seq(CallStatuses) /\ Len(results') = Len(batch)
  BY <1>1, <1>2 DEF Shape
<1>4. \A k \in 1..Len(batch) : results'[k] # "none" \/ (k # i /\ results'[k] = results[k])
  BY <1>1, <1>2 DEF Shape
<1>5. CASE batch[i] \in SerialTools
  <2>1. next' = next + 1 /\ stage' = "next"
    BY <1>5 DEF Finish
  <2>2. stage = "serial" /\ running = {next} /\ i = next
    BY <1>1, <1>5 DEF OnlyFunctionsRun, Walking, Quiet, SerialRunsAlone, Shape, LoopStages
  <2>3. Shape'
    BY <1>2, <1>3, <2>1 DEF Shape, LoopStages
  <2>4. PassedAreAnswered'
    BY <1>2, <1>4, <2>1, <2>2 DEF PassedAreAnswered, Shape
  <2> QED
    BY <1>2, <2>1, <2>2, <2>3, <2>4
       DEF OnlyFunctionsRun, Walking, SerialRunsAlone, CallAtHand, Quiet, LoopLeft
<1>6. CASE batch[i] \notin SerialTools
  <2>1. UNCHANGED <<next, stage>>
    BY <1>6 DEF Finish
  <2>2. Walking
    BY <1>1, <1>6 DEF Walking, Quiet, SerialRunsAlone, CallAtHand, Shape, LoopStages
  <2>3. Shape'
    BY <1>2, <1>3, <2>1 DEF Shape
  <2>4. PassedAreAnswered'
    BY <1>2, <1>4, <2>1 DEF PassedAreAnswered
  <2> QED
    BY <1>2, <2>1, <2>2, <2>3, <2>4
       DEF OnlyFunctionsRun, Walking, SerialRunsAlone, CallAtHand, Quiet, LoopLeft
<1> QED
  BY <1>5, <1>6

-----------------------------------------------------------------------------
LEMMA LoopStep == LoopInv /\ [BatchNext]_batchVars => LoopInv'
<1> SUFFICES ASSUME LoopInv, [BatchNext]_batchVars PROVE LoopInv'
  OBVIOUS
<1> USE DEF LoopInv
<1>1. CASE UNCHANGED batchVars
  BY <1>1 DEF batchVars, Shape, OnlyFunctionsRun, Walking, SerialRunsAlone, CallAtHand, Quiet,
              PassedAreAnswered, LoopLeft
<1>2. ASSUME NEW calls \in Batches, NewBatch(calls) PROVE LoopInv'
  BY <1>2, NewBatchLoop
<1>3. CASE Refuse
  BY <1>3, SkipLoop DEF Refuse, CallStatuses
<1>4. CASE CheckBudget
  <2>1. CASE Skip("over_budget")
    BY <1>4, <2>1, SkipLoop DEF CheckBudget, CallStatuses
  <2>2. CASE Pass
    <3>1. stage' = "gate" /\ next <= Len(batch) /\ stage = "next"
          /\ UNCHANGED <<batch, next, results, running>>
      BY <1>4, <2>2 DEF CheckBudget, Pass
    <3> QED
      BY <3>1 DEF Shape, LoopStages, OnlyFunctionsRun, Walking, SerialRunsAlone, CallAtHand, Quiet,
                  PassedAreAnswered, LoopLeft
  <2> QED
    BY <1>4, <2>1, <2>2 DEF CheckBudget
<1>5. CASE Gate
  <2>1. stage = "gate" /\ batch' = batch /\ next <= Len(batch)
    BY <1>5 DEF Gate, CallAtHand
  <2>2. CASE Deny /\ UNCHANGED running
    BY <2>1, <2>2, SkipLoop DEF Deny, CallStatuses
  <2>3. CASE stage' = "asking" /\ UNCHANGED <<next, results, running>>
    BY <2>1, <2>3 DEF Shape, LoopStages, OnlyFunctionsRun, Walking, SerialRunsAlone, CallAtHand, Quiet,
                      PassedAreAnswered, LoopLeft
  <2>4. CASE Dispatch /\ UNCHANGED results
    BY <2>1, <2>4, DispatchLoop
  <2> QED
    BY <1>5, <2>2, <2>3, <2>4 DEF Gate
<1>6. CASE Decide
  <2>1. stage = "asking" /\ batch' = batch /\ next <= Len(batch)
    BY <1>6 DEF Decide, CallAtHand
  <2>2. CASE Deny /\ UNCHANGED running
    BY <2>1, <2>2, SkipLoop DEF Deny, CallStatuses
  <2>3. CASE Dispatch /\ UNCHANGED results
    BY <2>1, <2>3, DispatchLoop
  <2> QED
    BY <1>6, <2>2, <2>3 DEF Decide
<1>7. CASE StartSerial
  <2>1. /\ stage = "drain" /\ stage' = "serial" /\ running = {} /\ running' = {next}
        /\ UNCHANGED <<batch, next, results>>
    BY <1>7 DEF StartSerial, Drained
  <2>2. Shape'
    BY <2>1 DEF Shape, LoopStages, CallAtHand
  <2> QED
    BY <2>1, <2>2 DEF OnlyFunctionsRun, Walking, SerialRunsAlone, CallAtHand, Quiet,
                      PassedAreAnswered, LoopLeft
<1>8. CASE Close
  BY <1>8 DEF Close, Settled, Shape, LoopStages, OnlyFunctionsRun, Walking, SerialRunsAlone, CallAtHand, Quiet,
              PassedAreAnswered, LoopLeft
<1>9. CASE Recover
  <2>1. /\ batch' = <<>> /\ results' = <<>> /\ next' = 1 /\ stage' = "idle"
        /\ running' = running /\ stage = "recover"
    BY <1>9 DEF Recover
  <2> QED
    BY <2>1 DEF Shape, LoopStages, OnlyFunctionsRun, Walking, SerialRunsAlone, CallAtHand, Quiet,
                PassedAreAnswered, LoopLeft
<1>10. ASSUME NEW i \in running, NEW status \in CallStatuses, Finish(i, status) PROVE LoopInv'
  BY <1>10, FinishLoop
<1> QED
  BY <1>1, <1>2, <1>3, <1>4, <1>5, <1>6, <1>7, <1>8, <1>9, <1>10 DEF BatchNext, SchedulerStep

LEMMA LoopInvariant == BatchSpec => []LoopInv
BY LoopInit, LoopStep, PTL DEF BatchSpec

\* However long the answer is, a shell command, a write or a patch never runs
\* beside another call of it (the drain before a serial call in executeToolBatch).
THEOREM Alone == BatchSpec => []SerialAlone
<1>1. LoopInv => SerialAlone
  BY DEF LoopInv, Shape, LoopStages, OnlyFunctionsRun, Walking, SerialRunsAlone, Quiet, SerialAlone
<1> QED
  BY <1>1, LoopInvariant, PTL

\* executeToolBatch returns one result for each call, with nothing running.
THEOREM Complete == BatchSpec => []AllAnswered
<1>1. LoopInv => AllAnswered
  BY DEF LoopInv, Shape, PassedAreAnswered, LoopLeft, Quiet, AllAnswered
<1> QED
  BY <1>1, LoopInvariant, PTL
-----------------------------------------------------------------------------
\* No two kinds of tool are the same.
LEMMA FourAreNotFive ==
  ASSUME NEW a, NEW b, NEW c, NEW d
  PROVE  BatchTools # {a, b, c, d}
<1> DEFINE A == {a}
           B == A \cup {b}
           C == B \cup {c}
           D == C \cup {d}
<1>1. IsFiniteSet(A) /\ Cardinality(A) = 1
  BY FS_Singleton
<1>2. IsFiniteSet(B) /\ Cardinality(B) \in {1, 2}
  <2> HIDE DEF A
  <2> QED BY <1>1, FS_AddElement
<1>3. IsFiniteSet(C) /\ Cardinality(C) \in {1, 2, 3}
  <2> HIDE DEF B
  <2> QED BY <1>2, FS_AddElement
<1>4. Cardinality(D) \in {1, 2, 3, 4}
  <2> HIDE DEF C
  <2> QED BY <1>3, FS_AddElement
<1>5. D = {a, b, c, d}
  OBVIOUS
<1> QED BY <1>4, <1>5, KindsAssumption

LEMMA PatchIsNoOther == Patch # Write /\ Patch # Asset
<1>1. ASSUME Patch = Write PROVE FALSE
  <2>1. BatchTools = {Read, Asset, Shell, Write}
    BY <1>1 DEF BatchTools
  <2> QED BY <2>1, FourAreNotFive
<1>2. ASSUME Patch = Asset PROVE FALSE
  <2>1. BatchTools = {Read, Asset, Shell, Write}
    BY <1>2 DEF BatchTools
  <2> QED BY <2>1, FourAreNotFive
<1> QED BY <1>1, <1>2

-----------------------------------------------------------------------------
\* The calls that have a place in the budget.  None of them is ahead of the loop,
\* and only they can have read an asset.
Measured == {i \in 1..Len(batch) : sizes[i] # Unmeasured}
NotAhead == \A i \in Measured : i < next \/ (i = next /\ stage # "next")
OnlyMeasuredRead ==
  \A i \in 1..Len(batch) : batch[i] = Asset /\ results[i] = "ok" => i \in Measured

BudgetInv ==
  /\ assets \in 0..MaxAssets /\ bytes \in 0..MaxBytes
  /\ sizes \in [1..Len(batch) -> Nat \cup {Unmeasured}]
  /\ Cardinality(Measured) <= assets /\ Cardinality(BytesOf(Measured)) <= bytes
  /\ NotAhead /\ OnlyMeasuredRead

\* Calls and their bytes are finitely many.
LEMMA MeasuredFinite ==
  ASSUME Shape, NEW S \in SUBSET (1..Len(batch))
  PROVE  IsFiniteSet(S) /\ IsFiniteSet(BytesOf(S))
<1>1. IsFiniteSet(S)
  <2>1. IsFiniteSet(1..Len(batch))
    BY FS_Interval DEF Shape
  <2> QED BY <2>1, FS_Subset
<1>2. IsFiniteSet(S \X (1..MaxBytes))
  <2>1. IsFiniteSet(1..MaxBytes)
    BY FS_Interval, BoundsAssumption
  <2> QED BY <1>1, <2>1, FS_Product
<1>3. BytesOf(S) \subseteq S \X (1..MaxBytes)
  BY DEF BytesOf
<1> QED BY <1>1, <1>2, <1>3, FS_Subset

\* What leaves the budget alone keeps the invariant, if nobody unmeasured has read.
LEMMA BudgetKept ==
  ASSUME BudgetInv, UNCHANGED <<batch, budgetVars>>, NotAhead', OnlyMeasuredRead'
  PROVE  BudgetInv'
<1>1. Measured' = Measured /\ BytesOf(Measured)' = BytesOf(Measured)
  BY DEF budgetVars, Measured, BytesOf
<1> QED BY <1>1 DEF BudgetInv, budgetVars

\* A batch none of whose calls is measured yet.
LEMMA BudgetEmpty ==
  ASSUME NEW calls, calls \in Seq(BatchTools), batch' = calls, NoBudgetYet(calls),
         \A i \in DOMAIN calls : results'[i] = "none"
  PROVE  BudgetInv'
<1>1. DOMAIN calls = 1..Len(calls)
  OBVIOUS
<1>2. sizes' \in [1..Len(batch') -> Nat \cup {Unmeasured}] /\ Measured' = {}
  BY <1>1 DEF NoBudgetYet, Measured
<1>3. BytesOf(Measured)' = {}
  BY <1>2 DEF BytesOf
<1>4. Cardinality(Measured') = 0 /\ Cardinality(BytesOf(Measured)') = 0
  BY <1>2, <1>3, FS_EmptySet
<1>5. NotAhead' /\ OnlyMeasuredRead'
  BY <1>1, <1>2 DEF NotAhead, OnlyMeasuredRead
<1> QED BY <1>2, <1>4, <1>5, BoundsAssumption DEF BudgetInv, NoBudgetYet

LEMMA BudgetInit == BatchInit => BudgetInv
<1> SUFFICES ASSUME BatchInit PROVE BudgetInv
  OBVIOUS
<1>1. Measured = {} /\ Len(batch) = 0
  BY DEF BatchInit, Measured
<1>2. BytesOf(Measured) = {}
  BY <1>1 DEF BytesOf
<1>3. Cardinality(Measured) = 0 /\ Cardinality(BytesOf(Measured)) = 0
  BY <1>1, <1>2, FS_EmptySet
<1>4. sizes \in [1..Len(batch) -> Nat \cup {Unmeasured}]
  BY <1>1 DEF BatchInit
<1> QED
  BY <1>1, <1>3, <1>4, BoundsAssumption DEF BatchInit, BudgetInv, NotAhead, OnlyMeasuredRead

\* A call that does not run takes nothing from the budget.
LEMMA SkipBudget ==
  ASSUME LoopInv, BudgetInv, NEW status \in CallStatuses \ {"ok"},
         Skip(status), next <= Len(batch), UNCHANGED <<batch, budgetVars>>
  PROVE  BudgetInv'
<1>1. results' = [results EXCEPT ![next] = status] /\ stage' = "next" /\ next' = next + 1
  BY DEF Skip, Settle
<1>2. UNCHANGED Measured
  BY DEF Measured, budgetVars
<1>3. NotAhead'
  BY <1>1, <1>2 DEF NotAhead, BudgetInv, LoopInv, Shape, Measured
<1>4. OnlyMeasuredRead'
  BY <1>1, <1>2 DEF OnlyMeasuredRead, BudgetInv, LoopInv, Shape
<1> QED BY <1>3, <1>4, BudgetKept

\* The loop stays at its call or goes on, and no result comes.
LEMMA GoesOnBudget ==
  ASSUME LoopInv, BudgetInv, UNCHANGED <<batch, results, budgetVars>>,
         next' = next + 1 \/ (next' = next /\ (stage' = "next" => stage = "next"))
  PROVE  BudgetInv'
<1>1. UNCHANGED Measured
  BY DEF Measured, budgetVars
<1>2. NotAhead'
  BY <1>1 DEF NotAhead, BudgetInv, LoopInv, Shape, Measured
<1>3. OnlyMeasuredRead'
  BY <1>1 DEF OnlyMeasuredRead, BudgetInv
<1> QED BY <1>2, <1>3, BudgetKept

\* The call at hand gets its place: one more asset, and as many bytes as it has.
LEMMA ReserveBudget ==
  ASSUME LoopInv, BudgetInv, NEW size \in Nat, stage = "next", next <= Len(batch),
         ~OverBudget(size), Pass, batch' = batch,
         assets' = assets + 1, bytes' = bytes + size, sizes' = [sizes EXCEPT ![next] = size]
  PROVE  BudgetInv'
<1>1. next \in 1..Len(batch) /\ Len(batch) \in Nat
  BY DEF LoopInv, Shape
<1>2. assets + 1 \in 0..MaxAssets /\ bytes + size \in 0..MaxBytes
  BY BoundsAssumption DEF OverBudget, BudgetInv
<1>3. sizes' \in [1..Len(batch) -> Nat \cup {Unmeasured}]
  BY DEF BudgetInv
<1>4. next \notin Measured
  BY DEF BudgetInv, NotAhead, LoopInv, Shape
<1>5. Measured' = Measured \cup {next}
  BY <1>1 DEF Measured, BudgetInv, Unmeasured
<1>6. Cardinality(Measured') = Cardinality(Measured) + 1 /\ Cardinality(Measured) \in Nat
  <2>1. IsFiniteSet(Measured)
    BY MeasuredFinite DEF LoopInv, Measured
  <2> QED BY <1>4, <1>5, <2>1, FS_AddElement, FS_CardinalityType
<1> DEFINE old == BytesOf(Measured)
           new == {next} \X (1..size)
<1>7. BytesOf(Measured)' = old \cup new
  <2>1. \A i \in Measured : sizes'[i] = sizes[i]
    BY <1>4 DEF BudgetInv, Measured
  <2>2. sizes'[next] = size
    BY <1>1 DEF BudgetInv
  <2>3. 1..size \subseteq 1..MaxBytes
    BY <1>2, BoundsAssumption DEF BudgetInv
  <2> QED BY <1>5, <2>1, <2>2, <2>3, BoundsAssumption DEF BytesOf
<1>8. Cardinality(BytesOf(Measured)') <= Cardinality(old) + size
  <2>1. IsFiniteSet(old)
    BY MeasuredFinite DEF LoopInv, Measured
  <2>2. IsFiniteSet(new) /\ Cardinality(new) = size
    <3>1. IsFiniteSet(1..size) /\ Cardinality(1..size) = size
      BY FS_Interval
    <3>2. IsFiniteSet({next}) /\ Cardinality({next}) = 1
      BY FS_Singleton
    <3> QED BY <3>1, <3>2, FS_Product
  <2>3. IsFiniteSet(old \cap new)
    BY <2>1, FS_Subset
  <2> HIDE DEF old, new
  <2>4. Cardinality(old) \in Nat /\ Cardinality(old \cap new) \in Nat
    BY <2>1, <2>3, FS_CardinalityType
  <2>5. Cardinality(old \cup new) = Cardinality(old) + Cardinality(new) - Cardinality(old \cap new)
    BY <2>1, <2>2, FS_Union
  <2> QED BY <1>7, <2>2, <2>4, <2>5
<1>9. Cardinality(old) \in Nat
  BY MeasuredFinite, FS_CardinalityType DEF LoopInv, Measured
<1>10. NotAhead' /\ OnlyMeasuredRead'
  BY <1>5 DEF NotAhead, OnlyMeasuredRead, BudgetInv, Pass
<1>11. Cardinality(Measured') <= assets + 1 /\ Cardinality(BytesOf(Measured)') <= bytes + size
  <2>1. /\ Cardinality(Measured) <= assets /\ Cardinality(old) <= bytes
        /\ assets \in Nat /\ bytes \in Nat
    BY DEF BudgetInv
  <2>2. Cardinality(BytesOf(Measured)') \in Nat
    <3>1. IsFiniteSet(old \cup new)
      <4>1. IsFiniteSet(new)
        <5>1. IsFiniteSet(1..size)
          BY FS_Interval
        <5>2. IsFiniteSet({next})
          BY FS_Singleton
        <5> QED BY <5>1, <5>2, FS_Product
      <4>2. IsFiniteSet(old)
        BY MeasuredFinite DEF LoopInv, Measured
      <4> QED BY <4>1, <4>2, FS_Union
    <3> QED BY <1>7, <3>1, FS_CardinalityType
  <2> HIDE DEF old, new
  <2> QED BY <1>6, <1>8, <1>9, <2>1, <2>2
<1> HIDE DEF old, new
<1> QED BY <1>2, <1>3, <1>10, <1>11 DEF BudgetInv

\* A tool returns: read_asset has an asset only when it was measured.
LEMMA FinishBudget ==
  ASSUME LoopInv, BudgetInv, NEW i \in running, NEW status \in CallStatuses, Finish(i, status)
  PROVE  BudgetInv'
<1>1. /\ results' = [results EXCEPT ![i] = status] /\ UNCHANGED <<batch, budgetVars>>
      /\ next' = next + 1 \/ UNCHANGED <<next, stage>>
  BY DEF Finish, Settle
<1>2. UNCHANGED Measured
  BY <1>1 DEF Measured, budgetVars
<1>3. NotAhead'
  BY <1>1, <1>2 DEF NotAhead, BudgetInv, LoopInv, Shape, Measured
<1>4. batch[i] = Asset /\ status = "ok" => sizes[i] # Unmeasured
  BY PatchIsNoOther DEF Finish, CallOutcomes
<1>5. OnlyMeasuredRead'
  BY <1>1, <1>2, <1>4 DEF OnlyMeasuredRead, BudgetInv, LoopInv, Shape, Measured
<1> QED BY <1>1, <1>3, <1>5, BudgetKept

LEMMA BudgetStep == LoopInv /\ BudgetInv /\ [BatchNext]_batchVars => BudgetInv'
<1> SUFFICES ASSUME LoopInv, BudgetInv, [BatchNext]_batchVars PROVE BudgetInv'
  OBVIOUS
<1>1. CASE UNCHANGED batchVars
  BY <1>1, GoesOnBudget DEF batchVars
<1>2. ASSUME NEW calls \in Batches, NewBatch(calls) PROVE BudgetInv'
  BY <1>2, BudgetEmpty, BoundsAssumption DEF NewBatch
<1>3. CASE Refuse
  BY <1>3, SkipBudget DEF Refuse, CallStatuses
<1>4. CASE CheckBudget
  <2>1. stage = "next" /\ next <= Len(batch) /\ batch' = batch
    BY <1>4 DEF CheckBudget
  <2>2. CASE Pass /\ UNCHANGED budgetVars
    BY <2>1, <2>2, GoesOnBudget DEF Pass
  <2>3. ASSUME NEW size \in AssetSizes, OverBudget(size), Skip("over_budget"), UNCHANGED budgetVars
        PROVE  BudgetInv'
    BY <2>1, <2>3, SkipBudget DEF CallStatuses
  <2>4. ASSUME NEW size \in AssetSizes, ~OverBudget(size), Pass, assets' = assets + 1,
               bytes' = bytes + size, sizes' = [sizes EXCEPT ![next] = size]
        PROVE  BudgetInv'
    BY <2>1, <2>4, ReserveBudget, BoundsAssumption
  <2> QED
    BY <1>4, <2>2, <2>3, <2>4 DEF CheckBudget
<1>5. CASE Gate
  <2>1. stage = "gate" /\ next <= Len(batch) /\ UNCHANGED <<batch, budgetVars>>
    BY <1>5 DEF Gate, LoopInv, CallAtHand
  <2>2. CASE Deny
    BY <2>1, <2>2, SkipBudget DEF Deny, CallStatuses
  <2>3. CASE stage' = "asking" /\ UNCHANGED <<next, results>>
    BY <2>1, <2>3, GoesOnBudget
  <2>4. CASE Dispatch /\ UNCHANGED results
    BY <2>1, <2>4, GoesOnBudget DEF Dispatch
  <2> QED
    BY <1>5, <2>2, <2>3, <2>4 DEF Gate
<1>6. CASE Decide
  <2>1. stage = "asking" /\ next <= Len(batch) /\ UNCHANGED <<batch, budgetVars>>
    BY <1>6 DEF Decide, LoopInv, CallAtHand
  <2>2. CASE Deny
    BY <2>1, <2>2, SkipBudget DEF Deny, CallStatuses
  <2>3. CASE Dispatch /\ UNCHANGED results
    BY <2>1, <2>3, GoesOnBudget DEF Dispatch
  <2> QED
    BY <1>6, <2>2, <2>3 DEF Decide
<1>7. CASE StartSerial
  BY <1>7, GoesOnBudget DEF StartSerial
<1>8. CASE Close
  BY <1>8, GoesOnBudget DEF Close
<1>9. CASE Recover
  <2>1. <<>> \in Seq(BatchTools) /\ DOMAIN <<>> = {}
    OBVIOUS
  <2>2. batch' = <<>> /\ NoBudgetYet(<<>>)
    BY <1>9 DEF Recover
  <2> QED BY <2>1, <2>2, BudgetEmpty
<1>10. ASSUME NEW i \in running, NEW status \in CallStatuses, Finish(i, status) PROVE BudgetInv'
  BY <1>10, FinishBudget
<1> QED
  BY <1>1, <1>2, <1>3, <1>4, <1>5, <1>6, <1>7, <1>8, <1>9, <1>10 DEF BatchNext, SchedulerStep

\* However many calls of a batch ask for assets, and whichever of them could not be
\* measured, what the batch attaches is at most MaxAssets assets of MaxBytes in all
\* (maybeReserveReadAssetBudget, run before the gate).
THEOREM Budgeted == BatchSpec => []AssetsBounded
<1>1. LoopInv /\ BudgetInv => AssetsBounded
  <2> SUFFICES ASSUME LoopInv, BudgetInv PROVE AssetsBounded
    OBVIOUS
  <2> DEFINE attached == {i \in DOMAIN batch : batch[i] = Asset /\ results[i] = "ok"}
  <2>1. attached \subseteq Measured /\ Measured \in SUBSET (1..Len(batch))
    BY DEF BudgetInv, OnlyMeasuredRead, Measured, LoopInv, Shape
  <2>2. BytesOf(attached) \subseteq BytesOf(Measured)
    BY <2>1 DEF BytesOf
  <2>3. IsFiniteSet(Measured) /\ IsFiniteSet(BytesOf(Measured))
    BY <2>1, MeasuredFinite DEF LoopInv
  <2> HIDE DEF attached
  <2>4. /\ Cardinality(attached) <= Cardinality(Measured)
        /\ Cardinality(attached) \in Nat /\ Cardinality(Measured) \in Nat
    BY <2>1, <2>3, FS_Subset, FS_CardinalityType
  <2>5. /\ Cardinality(BytesOf(attached)) <= Cardinality(BytesOf(Measured))
        /\ Cardinality(BytesOf(attached)) \in Nat /\ Cardinality(BytesOf(Measured)) \in Nat
    BY <2>2, <2>3, FS_Subset, FS_CardinalityType
  <2>6. Cardinality(attached) <= MaxAssets /\ Cardinality(BytesOf(attached)) <= MaxBytes
    BY <2>4, <2>5, BoundsAssumption DEF BudgetInv
  <2> QED
    BY <2>6 DEF AssetsBounded, attached
<1> QED
  BY <1>1, BudgetInit, BudgetStep, LoopInvariant, PTL DEF BatchSpec

-----------------------------------------------------------------------------
(***************************************************************************)
(* Autonomous, whether or not it is a benchmark: of the calls of           *)
(* writePartialTimeoutArtifacts at most one gets past its first test.      *)
(* Cardinality says little to a prover; the invariant says it with         *)
(* elements, and adds what makes it last: while somebody writes the files  *)
(* the claim is taken, and it is never given back.                         *)
(***************************************************************************)
Writing(w) == writer[w] \notin {"idle", "done"}

WritersInv ==
  /\ writer \in [Writers -> {"idle", "atif", "summary", "outcome", "result", "done"}]
  /\ \A w \in Writers : Writing(w) => claimed
  /\ \A v, w \in Writers : Writing(v) /\ Writing(w) => v = w

LEMMA WritersInit == AutoInit => WritersInv
  BY DEF AutoInit, WritersInv, Writing

\* A call that finds the claim taken, or an outcome, is over at once; one that
\* finds neither finds nobody who writes.
LEMMA CallKeeps ==
  ASSUME WritersInv, NEW w \in Writers, CallPartial(w)
  PROVE  WritersInv'
<1>1. CASE Claims
  BY <1>1 DEF WritersInv, Writing, CallPartial, Claims
<1>2. CASE ~Claims
  BY <1>2 DEF WritersInv, Writing, CallPartial
<1> QED BY <1>1, <1>2

\* A writer that goes on was writing before.
LEMMA WriterGoesOn ==
  ASSUME WritersInv, NEW w \in Writers, WriterStep(w)
  PROVE  WritersInv'
<1> USE DEF WritersInv, Writing
<1>1. CASE PartialAtif(w)
  BY <1>1 DEF PartialAtif
<1>2. CASE PartialSummary(w)
  BY <1>2 DEF PartialSummary
<1>3. CASE PartialResult(w)
  BY <1>3 DEF PartialResult
<1>4. CASE PartialOutcome(w)
  BY <1>4 DEF PartialOutcome
<1> QED BY <1>1, <1>2, <1>3, <1>4 DEF WriterStep

\* Of the main thread only the catch block touches the writers.
LEMMA MainKeeps ==
  ASSUME WritersInv, MainStep
  PROVE  WritersInv'
<1>1. CASE CatchAborted
  BY <1>1, CallKeeps DEF CatchAborted, Writers
<1>2. CASE ~CatchAborted
  <2>1. UNCHANGED <<writer, claimed>>
    BY <1>2 DEF MainStep, EarlyStep, BadArgs, ConfigError, EarlyThrow, SetUp, EngineReturns,
                FinalAtif, FinalSummary, SetOutcome, WriteResult, ReturnOutcome, MainThrows,
                CatchThrows, CatchWaits, CatchError, ErrorWrite, Finally, PrintResult, Exit,
                Rejected
  <2> QED BY <2>1 DEF WritersInv, Writing
<1> QED BY <1>1, <1>2

\* Signals, the watchdog and the catch block of an cancelled run may call
\* writePartialTimeoutArtifacts one inside the other: one of them writes.
THEOREM OneWriter == AutoSpec => []OnePartialWriter
<1>1. WritersInv /\ [AutoNext]_autoVars => WritersInv'
  <2> SUFFICES ASSUME WritersInv, [AutoNext]_autoVars PROVE WritersInv'
    OBVIOUS
  <2>1. CASE UNCHANGED autoVars
    BY <2>1 DEF autoVars, WritersInv, Writing
  <2>2. CASE MainStep
    BY <2>2, MainKeeps
  <2>3. CASE TurnStarts
    BY <2>3 DEF TurnStarts, WritersInv, Writing
  <2>4. CASE Watchdog
    BY <2>4, CallKeeps DEF Watchdog, Writers
  <2>5. ASSUME NEW s \in {"SIGTERM", "SIGINT"}, Signal(s) \/ KilledBy(s)
        PROVE  WritersInv'
    <3>1. CASE Signal(s)
      BY <3>1, CallKeeps DEF Signal, Writers
    <3>2. CASE KilledBy(s)
      BY <3>2 DEF KilledBy, WritersInv, Writing
    <3> QED BY <2>5, <3>1, <3>2
  <2>6. CASE \E w \in Writers : WriterStep(w)
    BY <2>6, WriterGoesOn
  <2> QED BY <2>1, <2>2, <2>3, <2>4, <2>5, <2>6 DEF AutoNext
<1>2. WritersInv => OnePartialWriter
  <2> SUFFICES ASSUME WritersInv PROVE OnePartialWriter
    OBVIOUS
  <2> DEFINE Active == {w \in Writers : writer[w] \notin {"idle", "done"}}
  <2>1. CASE Active = {}
    BY <2>1, FS_EmptySet DEF OnePartialWriter
  <2>2. CASE Active # {}
    <3>1. PICK w \in Writers : Active = {w}
      BY <2>2 DEF WritersInv, Writing
    <3> QED BY <3>1, FS_Singleton DEF OnePartialWriter
  <2> QED BY <2>1, <2>2
<1> QED BY WritersInit, <1>1, <1>2, PTL DEF AutoSpec

-----------------------------------------------------------------------------
(***************************************************************************)
(* The network tools: what the blocklist denies is gone before a bundle is *)
(* kept or answered, and from then on a bundle only moves.                 *)
(***************************************************************************)
WebInv ==
  /\ mode.benchmark \in BOOLEAN
  /\ cache \in [Queries -> (SUBSET Web!Items) \cup {Unset}]
  /\ webCalls \in [WebCalls -> [op : {"none", "web_search", "GET", "HEAD"},
                                at : {"idle", "searching", "redeeming", "fetching", "answered"},
                                query : Queries \cup {Unset}, overview : BOOLEAN,
                                bundle : SUBSET Web!Items, ok : BOOLEAN]]
  /\ \A c \in WebCalls : webCalls[c].at \in {"searching", "redeeming"} => webCalls[c].query \in Queries
  /\ Web!NothingDenied

\* A search ends (runSearch): what it keeps and answers has passed the filter.
LEMMA SearchEnds ==
  ASSUME WebInv, NEW c \in WebCalls, webCalls[c].query \in Queries, NEW bundle \in SUBSET Web!Items,
         Web!Finish(c, bundle), UNCHANGED mode
  PROVE  WebInv'
<1> DEFINE kept == Web!Kept(bundle)
<1>1. kept \in SUBSET Web!Items /\ (mode.benchmark => \A i \in kept : ~i.denied)
  BY DEF Web!Kept, Web!Clean
<1>2. /\ webCalls' = [webCalls EXCEPT ![c] = [webCalls[c] EXCEPT !.at = "answered", !.ok = TRUE,
                                                                !.bundle = kept]]
      /\ cache' = [cache EXCEPT ![webCalls[c].query] = kept]
  BY DEF Web!Finish, Web!Update, Web!Answered
<1> HIDE DEF kept
<1>3. /\ \A d \in WebCalls \ {c} : webCalls'[d] = webCalls[d]
      /\ webCalls'[c].bundle = kept /\ webCalls'[c].at = "answered"
  BY <1>2 DEF WebInv
<1>4. (mode'.benchmark => \A d \in WebCalls :
         webCalls'[d].at = "answered" => \A i \in webCalls'[d].bundle : ~i.denied)
  BY <1>1, <1>3 DEF WebInv, Web!NothingDenied
<1>5. (mode'.benchmark => \A q \in Queries : cache'[q] # Unset => \A i \in cache'[q] : ~i.denied)
  BY <1>1, <1>2 DEF WebInv, Web!NothingDenied
<1>6. Web!NothingDenied'
  BY <1>4, <1>5 DEF Web!NothingDenied
<1> DEFINE Call == [op : {"none", "web_search", "GET", "HEAD"},
                    at : {"idle", "searching", "redeeming", "fetching", "answered"},
                    query : Queries \cup {Unset}, overview : BOOLEAN,
                    bundle : SUBSET Web!Items, ok : BOOLEAN]
<1>7. webCalls' \in [WebCalls -> Call]
  <2>1. webCalls \in [WebCalls -> Call]
    BY DEF WebInv
  <2>2. [webCalls[c] EXCEPT !.at = "answered", !.ok = TRUE, !.bundle = kept] \in Call
    BY <1>1, <2>1
  <2> HIDE DEF Call
  <2> QED BY <1>2, <2>1, <2>2
<1>8. cache' \in [Queries -> (SUBSET Web!Items) \cup {Unset}]
  BY <1>1, <1>2 DEF WebInv
<1>9. \A d \in WebCalls : webCalls'[d].at \in {"searching", "redeeming"} => webCalls'[d].query \in Queries
  BY <1>3 DEF WebInv
<1> QED BY <1>6, <1>7, <1>8, <1>9 DEF WebInv

LEMMA WebStep ==
  ASSUME WebInv, [Web!WebNext]_(Web!webVars)
  PROVE  WebInv'
<1> USE DEF Web!Update
<1> DEFINE Call == [op : {"none", "web_search", "GET", "HEAD"},
                    at : {"idle", "searching", "redeeming", "fetching", "answered"},
                    query : Queries \cup {Unset}, overview : BOOLEAN,
                    bundle : SUBSET Web!Items, ok : BOOLEAN]
\* A call gets a record of no harm, and the cache is left alone.
<1>1. ASSUME NEW c \in WebCalls, NEW r \in Call, webCalls' = [webCalls EXCEPT ![c] = r],
             UNCHANGED <<mode, cache>>,
             r.at \in {"searching", "redeeming"} => r.query \in Queries,
             mode.benchmark /\ r.at = "answered" => \A i \in r.bundle : ~i.denied
      PROVE  WebInv'
  <2> HIDE DEF Call
  <2>1. webCalls \in [WebCalls -> Call]
    BY DEF WebInv, Call
  <2>2. webCalls' \in [WebCalls -> Call]
    BY <1>1, <2>1
  <2>3. \A d \in WebCalls : webCalls'[d] = IF d = c THEN r ELSE webCalls[d]
    BY <1>1, <2>1
  <2>4. \A d \in WebCalls : webCalls'[d].at \in {"searching", "redeeming"} => webCalls'[d].query \in Queries
    BY <1>1, <2>3 DEF WebInv
  <2>5. Web!NothingDenied'
    BY <1>1, <2>3 DEF WebInv, Web!NothingDenied
  <2> QED BY <1>1, <2>2, <2>4, <2>5 DEF WebInv, Call
<1>2. \A c \in WebCalls : webCalls[c] \in Call
  BY DEF WebInv
<1>3. ASSUME NEW c \in WebCalls, NEW q \in Queries, Web!Search(c, q) PROVE WebInv'
  <2>1. PICK overview \in BOOLEAN :
          LET r == [Web!Idle EXCEPT !.op = "web_search", !.query = q, !.overview = overview] IN
          webCalls' = [webCalls EXCEPT ![c] = IF cache[q] # Unset THEN Web!Answered(r, TRUE, cache[q])
                                              ELSE [r EXCEPT !.at = "searching"]]
    BY <1>3 DEF Web!Search
  <2> DEFINE r == [Web!Idle EXCEPT !.op = "web_search", !.query = q, !.overview = overview]
             s == IF cache[q] # Unset THEN Web!Answered(r, TRUE, cache[q]) ELSE [r EXCEPT !.at = "searching"]
  <2>2. r \in Call /\ r.query = q
    <3> DEFINE a == [Web!Idle EXCEPT !.op = "web_search"]
               b == [a EXCEPT !.query = q]
    <3>1. Web!Idle \in Call
      BY DEF Web!Idle
    <3>2. a \in Call
      BY <3>1
    <3>3. r = [b EXCEPT !.overview = overview]
      OBVIOUS
    <3> HIDE DEF a, r
    <3>4. b \in Call /\ b.query = q
      BY <3>2
    <3> HIDE DEF b
    <3> QED BY <3>3, <3>4
  <2>3. cache[q] # Unset => cache[q] \in SUBSET Web!Items
    BY DEF WebInv
  <2>4. webCalls' = [webCalls EXCEPT ![c] = s] /\ UNCHANGED <<mode, cache>>
    BY <1>3, <2>1 DEF Web!Search
  <2> HIDE DEF r
  <2>5. CASE cache[q] # Unset
    <3>1. s = [r EXCEPT !.at = "answered", !.ok = TRUE, !.bundle = cache[q]]
      BY <2>5 DEF Web!Answered
    <3> HIDE DEF s
    <3>2. s \in Call /\ s.at = "answered" /\ s.bundle = cache[q]
      BY <2>2, <2>3, <2>5, <3>1
    <3>3. mode.benchmark => \A i \in cache[q] : ~i.denied
      BY <2>5 DEF WebInv, Web!NothingDenied
    <3> HIDE DEF Call
    <3> QED BY <1>1, <2>4, <3>2, <3>3
  <2>6. CASE cache[q] = Unset
    <3>1. s = [r EXCEPT !.at = "searching"]
      BY <2>6
    <3> HIDE DEF s
    <3>2. s \in Call /\ s.at = "searching" /\ s.query = q
      BY <2>2, <3>1
    <3> HIDE DEF Call
    <3> QED BY <1>1, <2>4, <3>2
  <2> QED BY <2>5, <2>6
<1>4. ASSUME NEW c \in WebCalls, Web!Found(c) PROVE WebInv'
  <2>1. webCalls[c].query \in Queries
    BY <1>4 DEF WebInv, Web!Found
  <2>2. PICK raw \in SUBSET Web!Items :
          \/ /\ webCalls' = [webCalls EXCEPT ![c] = [webCalls[c] EXCEPT !.at = "redeeming",
                                                                        !.bundle = Web!Normalized(raw)]]
             /\ UNCHANGED cache
          \/ Web!Finish(c, Web!Normalized(raw))
    BY <1>4 DEF Web!Found
  <2>3. Web!Normalized(raw) \in SUBSET Web!Items
    BY DEF Web!Normalized
  <2>4. mode' = mode
    BY <1>4 DEF Web!Found
  <2>5. CASE Web!Finish(c, Web!Normalized(raw))
    BY <2>1, <2>3, <2>4, <2>5, SearchEnds
  <2>6. CASE ~Web!Finish(c, Web!Normalized(raw))
    <3> DEFINE b == Web!Normalized(raw)
               r == [webCalls[c] EXCEPT !.at = "redeeming", !.bundle = b]
    <3>1. webCalls' = [webCalls EXCEPT ![c] = r] /\ UNCHANGED cache
      BY <2>2, <2>6
    <3> HIDE DEF b
    <3>2. r \in Call /\ r.at = "redeeming" /\ r.query = webCalls[c].query
      BY <1>2, <2>3 DEF b
    <3> HIDE DEF r, Call
    <3> QED BY <1>1, <2>1, <2>4, <3>1, <3>2
  <2> QED BY <2>5, <2>6
<1>5. ASSUME NEW c \in WebCalls, Web!Redeemed(c) PROVE WebInv'
  <2>1. webCalls[c].query \in Queries /\ mode' = mode
    BY <1>5 DEF WebInv, Web!Redeemed
  <2>2. PICK text \in SUBSET Web!Items : Web!Finish(c, webCalls[c].bundle \cup text)
    BY <1>5 DEF Web!Redeemed, Web!Overview
  <2>3. webCalls[c].bundle \cup text \in SUBSET Web!Items
    BY DEF WebInv
  <2> QED BY <2>1, <2>2, <2>3, SearchEnds
<1>6. ASSUME NEW c \in WebCalls, NEW ok \in BOOLEAN, UNCHANGED <<mode, cache>>,
             webCalls' = [webCalls EXCEPT ![c] = Web!Answered(webCalls[c], ok, {})]
      PROVE  WebInv'
  <2> DEFINE r == Web!Answered(webCalls[c], ok, {})
  <2>1. r \in Call /\ r.at = "answered" /\ r.bundle = {}
    BY <1>2 DEF Web!Answered
  <2> HIDE DEF r, Call
  <2> QED BY <1>1, <1>6, <2>1 DEF r
<1>7. ASSUME NEW c \in WebCalls, Web!FetchUrl(c) PROVE WebInv'
  <2>1. PICK method \in {"GET", "HEAD"}, fits \in BOOLEAN :
          LET r == [Web!Idle EXCEPT !.op = method] IN
          webCalls' = [webCalls EXCEPT ![c] = IF fits THEN [r EXCEPT !.at = "fetching"]
                                              ELSE Web!Answered(r, FALSE, {})]
    BY <1>7 DEF Web!FetchUrl
  <2> DEFINE r == [Web!Idle EXCEPT !.op = method]
             s == IF fits THEN [r EXCEPT !.at = "fetching"] ELSE Web!Answered(r, FALSE, {})
  <2>2. s = [op |-> method, at |-> IF fits THEN "fetching" ELSE "answered", query |-> Unset,
             overview |-> FALSE, bundle |-> {}, ok |-> FALSE]
    BY DEF Web!Idle, Web!Answered
  <2>3. webCalls' = [webCalls EXCEPT ![c] = s] /\ UNCHANGED <<mode, cache>>
    BY <1>7, <2>1 DEF Web!FetchUrl
  <2> HIDE DEF s
  <2>4. s \in Call /\ s.at \notin {"searching", "redeeming"} /\ s.bundle = {}
    BY <2>2
  <2> HIDE DEF Call
  <2> QED BY <1>1, <2>3, <2>4
<1>8. ASSUME NEW c \in WebCalls, Web!Fetched(c) PROVE WebInv'
  BY <1>6, <1>8 DEF Web!Fetched
<1>9. ASSUME NEW c \in WebCalls, Web!RequestFails(c) PROVE WebInv'
  <2>1. mode' = mode
    BY <1>9 DEF Web!RequestFails
  <2>2. CASE webCalls[c].at = "redeeming"
    <3>1. webCalls[c].query \in Queries /\ webCalls[c].bundle \in SUBSET Web!Items
      BY <2>2 DEF WebInv
    <3> QED BY <1>9, <2>1, <2>2, <3>1, SearchEnds DEF Web!RequestFails
  <2>3. CASE webCalls[c].at # "redeeming"
    BY <1>6, <1>9, <2>1, <2>3 DEF Web!RequestFails
  <2> QED BY <2>2, <2>3
<1>10. ASSUME NEW c \in WebCalls, Web!Taken(c) PROVE WebInv'
  <2>1. Web!Idle \in Call /\ Web!Idle.at = "idle"
    BY DEF Web!Idle
  <2> HIDE DEF Call
  <2> QED BY <1>1, <1>10, <2>1 DEF Web!Taken
<1>11. CASE UNCHANGED Web!webVars
  BY <1>11 DEF Web!webVars, WebInv, Web!NothingDenied
<1> QED BY <1>3, <1>4, <1>5, <1>7, <1>8, <1>9, <1>10, <1>11 DEF Web!WebNext, Web!Timeout

\* In a benchmark nothing the blocklist denies reaches the model or the cache,
\* whatever the servers answer, however many calls overlap and however late an
\* overview comes (runSearch, applyContaminationBlocklist).
THEOREM BlocklistHolds == Web!WebSpec => []NothingDenied
<1>1. Web!WebInit => WebInv
  BY DEF Web!WebInit, WebInv, Web!NothingDenied, Web!Idle
<1>2. WebInv => NothingDenied
  BY DEF WebInv, NothingDenied
<1>3. WebInv /\ [Web!WebNext]_(Web!webVars) => WebInv'
  BY WebStep
<1> QED BY <1>1, <1>2, <1>3, PTL DEF Web!WebSpec

-----------------------------------------------------------------------------
(***************************************************************************)
(* A shell call.  A child is left running only when both waits for it ran  *)
(* out, after a kill; its code is there as soon as it ended by itself.     *)
(***************************************************************************)
ShellInv ==
  /\ shell \in {"start", "race", "reap", "drain", "done"}
  /\ child \in {"none", "running", "over"} /\ code \in Exec!Codes \cup {Unset}
  /\ child # "over" => code = Unset
  /\ shell = "start" => child = "none"
  /\ shell \in {"race", "reap", "drain"} => child # "none"
  /\ shell # "done" => result = Unset
  /\ reapDeadlineHit => timedOut
  /\ shell \in {"start", "race"} => ~reapDeadlineHit
  /\ shell = "reap" => timedOut
  /\ shell \in {"reap", "drain"} =>
       IF timedOut THEN killed ELSE child = "over"
  /\ shell = "drain" /\ child = "running" => reapDeadlineHit
  /\ Exec!ShellTold

LEMMA ShellStep ==
  ASSUME Unset \notin Exec!Codes, ShellInv, [Exec!ShellNext]_(Exec!shellVars)
  PROVE  ShellInv'
<1> USE DEF ShellInv, Exec!ShellTold, Exec!Started, Exec!Codes, Exec!Lost, Exec!Report
<1>1. CASE Exec!Refuse
  BY <1>1 DEF Exec!Refuse
<1>2. CASE Exec!Spawn
  BY <1>2 DEF Exec!Spawn
<1>3. CASE Exec!Wake
  BY <1>3 DEF Exec!Wake
<1>4. CASE Exec!Reaped
  BY <1>4 DEF Exec!Reaped
<1>5. CASE Exec!ReapDeadline
  BY <1>5 DEF Exec!ReapDeadline
<1>6. CASE Exec!Finish
  <2>1. /\ shell = "drain" /\ shell' = "done"
        /\ UNCHANGED <<child, code, killed, timedOut, reapDeadlineHit>>
        /\ result' = [kind |-> IF timedOut THEN "shell_timeout"
                               ELSE IF Exec!ExitCode # 0 THEN "shell_non_zero_exit" ELSE "ok",
                      exit |-> Exec!ExitCode]
    BY <1>6 DEF Exec!Finish
  <2>2. Exec!ExitCode = IF reapDeadlineHit \/ code = Unset THEN 255 ELSE code
    BY DEF Exec!ExitCode
  <2>3. CASE timedOut
    <3>1. result'.kind = "shell_timeout"
      BY <2>1, <2>3
    <3>2. child = "running" => killed /\ result' = [kind |-> "shell_timeout", exit |-> 255]
      BY <2>1, <2>2, <2>3
    <3> QED BY <2>1, <3>1, <3>2
  <2>4. CASE ~timedOut
    <3>1. child = "over" /\ ~reapDeadlineHit
      BY <2>1, <2>4
    <3>2. result'.kind = IF Exec!ExitCode # 0 THEN "shell_non_zero_exit" ELSE "ok"
      BY <2>1, <2>4
    <3>3. Exec!ExitCode = 0 <=> code = 0
      BY <2>2, <3>1
    <3> QED BY <2>1, <3>1, <3>2, <3>3
  <2> QED BY <2>3, <2>4
<1>7. CASE Exec!Abort
  BY <1>7 DEF Exec!Abort
<1>8. ASSUME NEW p \in Exec!Pipes,
             Exec!PipeEnds(p) \/ Exec!StreamDeadline(p) \/ Exec!ChildForks(p) \/ Exec!GrandchildGoes(p)
      PROVE  ShellInv'
  BY <1>8 DEF Exec!PipeEnds, Exec!StreamDeadline, Exec!ChildForks, Exec!GrandchildGoes
<1>9. ASSUME NEW c \in Exec!Codes \cup {Unset}, Exec!ChildEnds(c) PROVE ShellInv'
  BY <1>9 DEF Exec!ChildEnds
<1>10. CASE UNCHANGED Exec!shellVars
  BY <1>10 DEF Exec!shellVars
<1> QED BY <1>1, <1>2, <1>3, <1>4, <1>5, <1>6, <1>7, <1>8, <1>9, <1>10
  DEF Exec!ShellNext, Exec!CallStep, Exec!PipeStep

(***************************************************************************)
(* A run of the command that nothing interrupts: no call of                *)
(* writePartialTimeoutArtifacts is made, so at each stage of the main      *)
(* thread the files are as far as that thread has got.                     *)
(***************************************************************************)
Agrees(said) ==
  /\ said = onDisk.result
  /\ said \in {"success", "task_failure"} => onDisk.summary = said /\ onDisk.trajectory = "final"

AlongTheWay ==
  /\ main \in Early \cup {"setup", "checkpoints", "engine", "atif", "summary", "outcome"} =>
       onDisk.result = Unset
  /\ main \in {"atif", "summary", "outcome", "write", "filestate"} => answer \in Routed
  /\ main \in {"summary", "outcome", "write", "filestate"} => onDisk.trajectory = "final"
  /\ main \in {"outcome", "write", "filestate"} => onDisk.summary = answer
  /\ main \in {"write", "filestate"} => outcome = answer
  /\ main = "filestate" => onDisk.result = answer
  /\ main = "errorWrite" => answer = "error"
  /\ main \in {"finally", "print", "exit"} /\ onDisk.result # Unset => Agrees(answer)
  /\ main = "finally" => answer \in Routed \cup {"error"}
  /\ main # "waits"

MainStages ==
  Early \cup Guarded
    \cup {"print", "exit", "rejected", "caught", "waits", "errorWrite", "finally", "over"}

CommandInv ==
  /\ main \in MainStages /\ DOMAIN onDisk = Files
  /\ main \notin {"exit", "over"} => printed = Unset
  /\ main = "exit" => printed \in {Unset, answer}
  /\ ~cancelled => (\A w \in Writers : writer[w] = "idle") /\ AlongTheWay /\ UndisturbedAgrees

LEMMA CommandStep ==
  ASSUME CommandInv, [AutoNext]_autoVars
  PROVE  CommandInv'
<1> USE UnsetIsNoResult
    DEF CommandInv, AlongTheWay, Agrees, UndisturbedAgrees, Exited, MainStages, Early, Guarded,
        Files, Routed, Results, At, Go, Running
<1>1. CASE UNCHANGED autoVars
  BY <1>1 DEF autoVars
<1>2. CASE EarlyStep
  <2>1. main \in Early /\ main' = EarlySteps[main] /\ UNCHANGED <<writer, cancelled, answer, onDisk, printed>>
    BY <1>2 DEF EarlyStep
  <2>2. main' \in {"preset", "config", "task", "bundle", "preflight", "setup"}
    BY <2>1 DEF EarlySteps
  <2> QED BY <2>1, <2>2
<1>3. CASE BadArgs
  BY <1>3 DEF BadArgs
<1>4. CASE ConfigError
  BY <1>4 DEF ConfigError
<1>5. CASE EarlyThrow
  BY <1>5 DEF EarlyThrow
<1>6. CASE SetUp
  <2>1. main' \in {"checkpoints", "engine"}
    BY <1>6 DEF SetUp, NextStage
  <2> QED BY <1>6, <2>1 DEF SetUp
<1>7. CASE EngineReturns
  BY <1>7 DEF EngineReturns
<1>8. CASE FinalAtif
  BY <1>8 DEF FinalAtif
<1>9. CASE FinalSummary
  BY <1>9 DEF FinalSummary
<1>10. CASE SetOutcome
  BY <1>10 DEF SetOutcome
<1>11. CASE WriteResult
  BY <1>11 DEF WriteResult
<1>12. CASE ReturnOutcome
  BY <1>12 DEF ReturnOutcome
<1>13. CASE MainThrows
  BY <1>13 DEF MainThrows
<1>14. CASE CatchThrows
  BY <1>14 DEF CatchThrows
<1>15. CASE CatchAborted
  BY <1>15 DEF CatchAborted
<1>16. CASE CatchWaits
  BY <1>16 DEF CatchWaits
<1>17. CASE CatchError
  BY <1>17 DEF CatchError
<1>18. CASE ErrorWrite
  BY <1>18 DEF ErrorWrite
<1>19. CASE Finally
  BY <1>19 DEF Finally
<1>20. CASE PrintResult
  BY <1>20 DEF PrintResult
<1>21. CASE Exit
  BY <1>21 DEF Exit
<1>22. CASE Rejected
  BY <1>22 DEF Rejected
<1>23. CASE TurnStarts
  BY <1>23 DEF TurnStarts
<1>24. CASE Watchdog
  BY <1>24 DEF Watchdog
<1>25. ASSUME NEW s \in {"SIGTERM", "SIGINT"}, Signal(s) \/ KilledBy(s) PROVE CommandInv'
  BY <1>25 DEF Signal, KilledBy
<1>26. ASSUME NEW w \in Writers, WriterStep(w) PROVE CommandInv'
  <2>1. cancelled /\ cancelled' /\ UNCHANGED <<main, answer, printed>> /\ DOMAIN onDisk' = DOMAIN onDisk
    BY <1>26 DEF WriterStep, PartialAtif, PartialSummary, PartialOutcome, PartialResult
  <2> QED BY <2>1
<1> QED
  BY <1>1, <1>2, <1>3, <1>4, <1>5, <1>6, <1>7, <1>8, <1>9, <1>10, <1>11, <1>12, <1>13, <1>14, <1>15,
     <1>16, <1>17, <1>18, <1>19, <1>20, <1>21, <1>22, <1>23, <1>24, <1>25, <1>26
  DEF AutoNext, MainStep

\* A shell call reports "ok" only for a child that ended by itself with 0, and
\* a child still there as a timeout (executeShell); a command that nothing
\* interrupted prints what its files say (runAutonomous).
THEOREM ReportsAreTrue == Exec!ShellSpec /\ AutoSpec => []ToldTruly
<1>1. Exec!ShellInit => ShellInv
  BY DEF Exec!ShellInit, ShellInv, Exec!ShellTold, Exec!Started
<1>2. ShellInv /\ [Exec!ShellNext]_(Exec!shellVars) => ShellInv'
  BY ShellStep, UnsetAssumption
<1>3. AutoInit => CommandInv
  BY DEF AutoInit, CommandInv, AlongTheWay, UndisturbedAgrees, Exited, MainStages, Early, Guarded, Files
<1>4. CommandInv /\ [AutoNext]_autoVars => CommandInv'
  BY CommandStep
<1>5. ShellInv /\ CommandInv => ToldTruly
  <2> SUFFICES ASSUME ShellInv, CommandInv PROVE ToldTruly
    OBVIOUS
  <2>1. cancelled => UndisturbedAgrees
    BY DEF UndisturbedAgrees
  <2> QED BY <2>1 DEF ShellInv, CommandInv, ToldTruly
<1> QED BY <1>1, <1>2, <1>3, <1>4, <1>5, PTL DEF Exec!ShellSpec, AutoSpec

-----------------------------------------------------------------------------
(***************************************************************************)
(* Overwrites.  The scheduler remembers of the path only whether it is     *)
(* open; the invariant says which mismatch of the trace that stands for.   *)
(* maybeInjectPatchRecovery reads the results of the batch, not the trace: *)
(* the batch's patches and those of the trace's last turn are the same.    *)
(***************************************************************************)
Event == [what : {"patched", "mismatch", "overwritten"}, turn : Nat]

Ok == {i \in 1..Len(batch) : batch[i] = Patch /\ results[i] = "ok"}
Bad == {i \in 1..Len(batch) : batch[i] = Patch /\ results[i] = "mismatch"}

TraceTypes ==
  /\ trace \in Seq(Event) /\ turn \in Nat /\ open \in BOOLEAN /\ flagged \in BOOLEAN
  /\ \A i \in DOMAIN trace : trace[i].turn <= turn
  /\ \A i, j \in DOMAIN trace : i <= j => trace[i].turn <= trace[j].turn

Ahead ==
  stage \in {"next", "gate", "asking", "drain", "serial"} =>
    \A i \in 1..Len(batch) : i >= next => results[i] = "none"

\* No success since the mismatch at j of the trace, and no overwrite by a later batch.
Unpatched(j) == \A k \in j + 1..Len(trace) : trace[k].what # "patched"
Unspent(j) ==
  \A k \in j + 1..Len(trace) : trace[k].what = "overwritten" => trace[k].turn = trace[j].turn
PatchedOnlyNow(j) ==
  \A k \in j + 1..Len(trace) : trace[k].what = "patched" => trace[k].turn = turn

OpenSince ==
  open => \E j \in DOMAIN trace :
    /\ trace[j].what = "mismatch" /\ Unspent(j)
    /\ IF stage = "idle" THEN Unpatched(j) ELSE trace[j].turn < turn /\ PatchedOnlyNow(j)

PatchesTold ==
  stage # "idle" =>
    /\ (\E k \in DOMAIN trace : trace[k].what = "patched" /\ trace[k].turn = turn) => Ok # {}
    /\ \A i \in Bad : (\A o \in Ok : o < i) =>
         \E j \in DOMAIN trace : trace[j].what = "mismatch" /\ trace[j].turn = turn /\ Unpatched(j)

OverwriteInv ==
  /\ TraceTypes /\ Ahead /\ OpenSince /\ PatchesTold /\ OverwriteEarned
  /\ flagged => open /\ stage \in {"gate", "asking", "drain", "serial"}

LEMMA TurnsAreNumbers == TraceTypes => \A k \in DOMAIN trace : trace[k].turn \in Nat
<1> SUFFICES ASSUME TraceTypes, NEW k \in DOMAIN trace PROVE trace[k].turn \in Nat
  OBVIOUS
<1>1. trace[k] \in Event
  BY ElementOfSeq, LenProperties DEF TraceTypes
<1> QED BY <1>1 DEF Event

\* Steps that leave the trace and the verdicts of the batch alone.
LEMMA VerdictsSame ==
  ASSUME OverwriteInv, stage # "idle", stage' # "idle", Ok' = Ok, Bad' = Bad,
         UNCHANGED <<trace, turn, open>>, flagged' \in BOOLEAN, Ahead',
         flagged' => open /\ stage' \in {"gate", "asking", "drain", "serial"}
  PROVE  OverwriteInv'
<1> USE DEF OverwriteInv
<1>1. TraceTypes'
  BY DEF TraceTypes
<1>2. OpenSince'
  BY DEF OpenSince, Unspent, PatchedOnlyNow
<1>3. PatchesTold'
  BY DEF PatchesTold, Unpatched
<1>4. OverwriteEarned'
  BY DEF OverwriteEarned
<1> QED BY <1>1, <1>2, <1>3, <1>4

LEMMA SkipOverwrite ==
  ASSUME LoopInv, OverwriteInv, NEW status \in CallStatuses \ {"none", "ok", "mismatch"}, Skip(status),
         next <= Len(batch), stage \in {"next", "gate", "asking"},
         UNCHANGED <<batch, trace, turn, open>>
  PROVE  OverwriteInv'
<1>1. /\ results' = [results EXCEPT ![next] = status] /\ next' = next + 1 /\ stage' = "next"
      /\ flagged' = FALSE /\ next \in 1..Len(batch) /\ DOMAIN results = 1..Len(batch)
      /\ \A i \in 1..Len(batch) : results'[i] = IF i = next THEN status ELSE results[i]
  BY DEF Skip, Settle, LoopInv, Shape
<1>2. results[next] = "none" /\ Ahead'
  BY <1>1 DEF OverwriteInv, Ahead
<1>3. Ok' = Ok /\ Bad' = Bad
  BY <1>1, <1>2 DEF Ok, Bad
<1> QED BY <1>1, <1>2, <1>3, VerdictsSame

LEMMA DispatchOverwrite ==
  ASSUME LoopInv, OverwriteInv, stage \in {"gate", "asking"}, Dispatch,
         UNCHANGED <<batch, results, trace, turn, open>>
  PROVE  OverwriteInv'
<1>1. Ok' = Ok /\ Bad' = Bad
  BY DEF Ok, Bad
<1>2. /\ next \in Nat /\ next' \in {next, next + 1}
      /\ (stage' = "drain" /\ flagged' = flagged) \/ (stage' = "next" /\ flagged' = FALSE)
  BY DEF Dispatch, LoopInv, Shape
<1>3. Ahead'
  BY <1>2 DEF OverwriteInv, Ahead
<1>4. flagged \in BOOLEAN /\ (flagged => open)
  BY DEF OverwriteInv, TraceTypes
<1>5. /\ flagged' \in BOOLEAN
      /\ flagged' => open /\ stage' \in {"gate", "asking", "drain", "serial"}
  <2>1. CASE stage' = "drain" /\ flagged' = flagged
    BY <1>4, <2>1, Zenon
  <2>2. CASE flagged' = FALSE
    BY <2>2
  <2> QED BY <1>2, <2>1, <2>2
<1> QED BY <1>1, <1>2, <1>3, <1>5, VerdictsSame

\* The trace when one more thing has happened to the file.
LEMMA Traced1 ==
  ASSUME TraceTypes, NEW what \in {"patched", "mismatch", "overwritten"},
         trace' = trace \o <<[what |-> what, turn |-> turn]>>,
         turn' = turn, open' \in BOOLEAN, flagged' \in BOOLEAN
  PROVE  /\ TraceTypes' /\ Len(trace) \in Nat /\ Len(trace') = Len(trace) + 1
         /\ DOMAIN trace = 1..Len(trace) /\ DOMAIN trace' = 1..Len(trace) + 1
         /\ \A i \in 1..Len(trace) : trace'[i] = trace[i]
         /\ trace'[Len(trace) + 1] = [what |-> what, turn |-> turn]
<1> DEFINE e == [what |-> what, turn |-> turn]
<1> USE DEF TraceTypes
<1>1. e \in Event /\ trace \in Seq(Event)
  BY DEF Event
<1>2. e.turn = turn
  OBVIOUS
<1> HIDE DEF e
<1>3. trace' = Append(trace, e)
  BY <1>1, AppendIsConcat DEF e
<1>4. /\ trace' \in Seq(Event) /\ Len(trace') = Len(trace) + 1 /\ Len(trace) \in Nat
      /\ \A i \in 1..Len(trace) : trace'[i] = trace[i]
      /\ trace'[Len(trace) + 1] = e
  BY <1>1, <1>3, AppendProperties
<1>5. DOMAIN trace = 1..Len(trace) /\ DOMAIN trace' = 1..Len(trace) + 1
  BY <1>1, <1>4, LenProperties
<1>6. \A i \in DOMAIN trace' : trace'[i].turn <= turn
  BY <1>2, <1>4, <1>5
<1>7. \A i, j \in DOMAIN trace' : i <= j => trace'[i].turn <= trace'[j].turn
  BY <1>2, <1>4, <1>5
<1> QED BY <1>4, <1>5, <1>6, <1>7 DEF e

\* A serial tool returns: it is the one the loop is at.
LEMMA SerialReturns ==
  ASSUME LoopInv, NEW i \in running, NEW status \in CallStatuses, Finish(i, status),
         batch[i] \in SerialTools
  PROVE  i = next /\ stage = "serial"
BY DEF Finish, LoopInv, OnlyFunctionsRun, Walking, Quiet, SerialRunsAlone, Shape, LoopStages

LEMMA FinishOverwrite ==
  ASSUME LoopInv, OverwriteInv, NEW i \in running, NEW status \in CallStatuses, Finish(i, status)
  PROVE  OverwriteInv'
<1> DEFINE n == Len(trace)
<1>1. /\ i \in 1..Len(batch) /\ batch' = batch /\ turn' = turn /\ status \in CallOutcomes(i)
      /\ trace' = trace \o Effect(batch[i], status)
      /\ \A k \in 1..Len(batch) : results'[k] = IF k = i THEN status ELSE results[k]
  BY DEF Finish, Settle, LoopInv, Shape
<1>2. stage # "idle" /\ next \in Nat
  BY <1>1 DEF Finish, LoopInv, Quiet, Shape
<1>3. TraceTypes /\ n \in Nat /\ DOMAIN trace = 1..n
  BY LenProperties DEF OverwriteInv, TraceTypes
<1> HIDE DEF n
<1>4. CASE batch[i] \notin SerialTools
  <2>1. Effect(batch[i], status) = <<>> /\ batch[i] # Patch
    BY <1>4 DEF Effect, SerialTools
  <2>2. trace' = trace
    BY <1>1, <1>3, <2>1 DEF TraceTypes
  <2>3. UNCHANGED <<next, stage, flagged, open>>
    BY <1>4 DEF Finish
  <2>4. Ok' = Ok /\ Bad' = Bad
    BY <1>1, <2>1 DEF Ok, Bad
  <2>5. Ahead'
    <3>1. Walking => i < next
      BY DEF Finish, LoopInv, OnlyFunctionsRun
    <3>2. stage # "serial"
      BY <1>4 DEF Finish, LoopInv, SerialRunsAlone, CallAtHand
    <3>3. ASSUME NEW k \in 1..Len(batch), Walking, k >= next PROVE results'[k] = "none"
      <4>1. k # i /\ results[k] = "none"
        BY <1>2, <3>1, <3>3 DEF OverwriteInv, Ahead, Walking
      <4> QED BY <1>1, <4>1
    <3> QED BY <1>1, <2>3, <3>2, <3>3 DEF Ahead, Walking
  <2> QED BY <1>2, <1>3, <2>2, <2>3, <2>4, <2>5, <1>1, VerdictsSame DEF OverwriteInv, TraceTypes
<1>5. CASE batch[i] \in SerialTools
  <2>1. /\ i = next /\ stage = "serial" /\ next' = next + 1 /\ stage' = "next" /\ flagged' = FALSE
        /\ open' = (open /\ ~flagged)
    BY <1>5, SerialReturns DEF Finish, WindowAfterRun
  <2>2. Ahead' /\ results[i] = "none" /\ \A k \in 1..Len(batch) : k > i => results[k] = "none"
    BY <1>1, <1>2, <2>1 DEF OverwriteInv, Ahead
  <2>3. open' \in BOOLEAN
    BY <2>1
  <2>4. CASE Effect(batch[i], status) = <<>>
    <3>1. trace' = trace
      BY <1>1, <1>3, <2>4 DEF TraceTypes
    <3>2. ~(batch[i] = Patch /\ status \in {"ok", "mismatch"})
      BY <2>4 DEF Effect
    <3>3. Ok' = Ok /\ Bad' = Bad
      BY <1>1, <2>2, <3>2 DEF Ok, Bad
    <3>4. TraceTypes'
      BY <1>1, <1>3, <2>1, <2>3, <3>1 DEF TraceTypes
    <3>7. OverwriteEarned'
      BY <3>1 DEF OverwriteEarned, OverwriteInv
    <3>5. PatchesTold'
      BY <1>1, <2>1, <3>1, <3>3 DEF PatchesTold, Unpatched, OverwriteInv
    <3>6. OpenSince'
      <4> SUFFICES ASSUME open, ~flagged PROVE
            \E j \in DOMAIN trace : (trace[j].what = "mismatch" /\ Unspent(j) /\ trace[j].turn < turn /\ PatchedOnlyNow(j))'
        BY <2>1, <3>1 DEF OpenSince
      <4>1. PICK j \in DOMAIN trace : trace[j].what = "mismatch" /\ Unspent(j) /\ trace[j].turn < turn /\ PatchedOnlyNow(j)
        BY <1>2 DEF OverwriteInv, OpenSince
      <4> QED BY <1>1, <3>1, <4>1 DEF Unspent, PatchedOnlyNow
    <3> QED BY <2>1, <2>2, <3>4, <3>5, <3>6, <3>7 DEF OverwriteInv
  <2>5. CASE batch[i] = Patch /\ status = "ok"
    <3>1. Effect(batch[i], status) = <<[what |-> "patched", turn |-> turn]>>
      BY <2>5, PatchIsNoOther DEF Effect
    <3>2. /\ TraceTypes' /\ Len(trace') = n + 1 /\ DOMAIN trace' = 1..n + 1
          /\ \A k \in 1..n : trace'[k] = trace[k]
          /\ trace'[n + 1] = [what |-> "patched", turn |-> turn]
      BY <1>1, <1>3, <2>1, <2>3, <3>1, Traced1 DEF n
    <3>3. i \in Ok' /\ \A k \in Bad' : k < i
      BY <1>1, <2>2, <2>5 DEF Ok, Bad
    <3>4. PatchesTold'
      <4>1. ASSUME NEW b \in Bad', \A o \in Ok' : o < b PROVE FALSE
        <5>1. b < i /\ i < b /\ b \in Int /\ i \in Int
          BY <1>1, <3>3, <4>1 DEF Bad, Ok
        <5> QED BY <5>1
      <4>2. Ok' # {}
        BY <3>3
      <4> QED BY <4>1, <4>2 DEF PatchesTold
    <3>5. OpenSince'
      <4> SUFFICES ASSUME open PROVE
            \E j \in 1..n + 1 : (trace[j].what = "mismatch" /\ Unspent(j) /\ trace[j].turn < turn /\ PatchedOnlyNow(j))'
        BY <2>1, <3>2 DEF OpenSince
      <4>1. PICK j \in 1..n : trace[j].what = "mismatch" /\ Unspent(j) /\ trace[j].turn < turn /\ PatchedOnlyNow(j)
        BY <1>2, <1>3 DEF OverwriteInv, OpenSince
      <4>2. \A k \in j + 1..n + 1 : (k \in j + 1..n /\ trace'[k] = trace[k]) \/ k = n + 1
        BY <1>3, <3>2, <4>1
      <4>3. trace'[j] = trace[j] /\ Len(trace') = n + 1 /\ trace'[n + 1].turn = turn
            /\ trace'[n + 1].what # "overwritten"
        BY <3>2, <4>1
      <4>4. Unspent(j)'
        BY <4>1, <4>2, <4>3 DEF Unspent, n
      <4>5. PatchedOnlyNow(j)'
        BY <1>1, <4>1, <4>2, <4>3 DEF PatchedOnlyNow, n
      <4>6. j \in 1..n + 1 /\ trace'[j].what = "mismatch" /\ trace'[j].turn < turn'
        BY <1>1, <1>3, <4>1, <4>3
      <4> QED BY <4>4, <4>5, <4>6
    <3>6. OverwriteEarned'
      BY <1>3, <3>2 DEF OverwriteEarned, OverwriteInv
    <3> QED BY <2>1, <2>2, <3>2, <3>4, <3>5, <3>6 DEF OverwriteInv
  <2>6. CASE batch[i] = Patch /\ status = "mismatch"
    <3>1. Effect(batch[i], status) = <<[what |-> "mismatch", turn |-> turn]>>
      BY <2>6, PatchIsNoOther DEF Effect
    <3>2. /\ TraceTypes' /\ Len(trace') = n + 1 /\ DOMAIN trace' = 1..n + 1
          /\ \A k \in 1..n : trace'[k] = trace[k]
          /\ trace'[n + 1] = [what |-> "mismatch", turn |-> turn]
      BY <1>1, <1>3, <2>1, <2>3, <3>1, Traced1 DEF n
    <3>3. Ok' = Ok
      BY <1>1, <2>2, <2>6 DEF Ok
    <3>4. \E j \in DOMAIN trace' : (trace[j].what = "mismatch" /\ trace[j].turn = turn /\ Unpatched(j))'
      <4>1. PICK m \in 1..n + 1 : m = n + 1
        BY <1>3
      <4>2. Unpatched(m)'
        BY <1>3, <3>2, <4>1 DEF Unpatched
      <4> QED BY <1>1, <3>2, <4>1, <4>2
    <3>5. PatchesTold'
      <4>1. (\E k \in DOMAIN trace' : trace'[k].what = "patched" /\ trace'[k].turn = turn) => Ok # {}
        BY <1>2, <1>3, <3>2 DEF OverwriteInv, PatchesTold
      <4> QED BY <1>1, <3>2, <3>3, <3>4, <4>1 DEF PatchesTold
    <3>6. OpenSince'
      <4> SUFFICES ASSUME open PROVE
            \E j \in 1..n + 1 : (trace[j].what = "mismatch" /\ Unspent(j) /\ trace[j].turn < turn /\ PatchedOnlyNow(j))'
        BY <2>1, <3>2 DEF OpenSince
      <4>1. PICK j \in 1..n : trace[j].what = "mismatch" /\ Unspent(j) /\ trace[j].turn < turn /\ PatchedOnlyNow(j)
        BY <1>2, <1>3 DEF OverwriteInv, OpenSince
      <4>2. \A k \in j + 1..n + 1 : (k \in j + 1..n /\ trace'[k] = trace[k]) \/ k = n + 1
        BY <1>3, <3>2, <4>1
      <4>3. trace'[j] = trace[j] /\ Len(trace') = n + 1 /\ trace'[n + 1].turn = turn
            /\ trace'[n + 1].what # "overwritten"
        BY <3>2, <4>1
      <4>4. Unspent(j)'
        BY <4>1, <4>2, <4>3 DEF Unspent, n
      <4>5. PatchedOnlyNow(j)'
        BY <1>1, <4>1, <4>2, <4>3 DEF PatchedOnlyNow, n
      <4> QED BY <1>1, <1>3, <3>2, <4>1, <4>3, <4>4, <4>5
    <3>7. OverwriteEarned'
      BY <1>3, <3>2 DEF OverwriteEarned, OverwriteInv
    <3> QED BY <2>1, <2>2, <3>2, <3>5, <3>6, <3>7 DEF OverwriteInv
  <2>7. CASE batch[i] = Write /\ status = "ok"
    <3>1. Effect(batch[i], status) = <<[what |-> "overwritten", turn |-> turn]>>
      BY <2>7, PatchIsNoOther DEF Effect
    <3>2. /\ TraceTypes' /\ Len(trace') = n + 1 /\ DOMAIN trace' = 1..n + 1
          /\ \A k \in 1..n : trace'[k] = trace[k]
          /\ trace'[n + 1] = [what |-> "overwritten", turn |-> turn]
      BY <1>1, <1>3, <2>1, <2>3, <3>1, Traced1 DEF n
    <3>3. flagged /\ open /\ ~open'
      BY <1>1, <2>1, <2>7, PatchIsNoOther DEF CallOutcomes, OverwriteInv
    <3>4. Ok' = Ok /\ Bad' = Bad
      BY <1>1, <2>2, <2>7, PatchIsNoOther DEF Ok, Bad
    <3>5. PatchesTold'
      <4>1. (\E k \in DOMAIN trace' : trace'[k].what = "patched" /\ trace'[k].turn = turn) => Ok # {}
        BY <1>2, <1>3, <3>2 DEF OverwriteInv, PatchesTold
      <4>2. ASSUME NEW b \in Bad, \A o \in Ok : o < b
            PROVE \E j \in DOMAIN trace' : (trace[j].what = "mismatch" /\ trace[j].turn = turn /\ Unpatched(j))'
        <5>1. PICK j \in DOMAIN trace : trace[j].what = "mismatch" /\ trace[j].turn = turn /\ Unpatched(j)
          BY <1>2, <4>2 DEF OverwriteInv, PatchesTold
        <5>2. Unpatched(j)'
          BY <1>3, <3>2, <5>1 DEF Unpatched, n
        <5> QED BY <1>1, <1>3, <3>2, <5>1, <5>2
      <4> QED BY <1>1, <3>4, <4>1, <4>2 DEF PatchesTold
    <3>6. OpenSince'
      BY <3>3 DEF OpenSince
    <3>7. OverwriteEarned'
      <4> DEFINE By(a, j) ==
            /\ trace'[j].what = "mismatch" /\ trace'[j].turn < trace'[a].turn
            /\ \A k \in j + 1..a - 1 :
                 /\ trace'[k].what = "overwritten" => trace'[k].turn = trace'[j].turn
                 /\ trace'[k].what = "patched" => trace'[k].turn = trace'[a].turn
      <4>1. ASSUME NEW a \in 1..n, trace'[a].what = "overwritten" PROVE \E j \in 1..a - 1 : By(a, j)
        BY <1>3, <3>2, <4>1 DEF OverwriteEarned, OverwriteInv
      <4>2. \E j \in 1..n : By(n + 1, j)
        <5>1. PICK j \in 1..n : trace[j].what = "mismatch" /\ Unspent(j) /\ trace[j].turn < turn /\ PatchedOnlyNow(j)
          BY <1>2, <1>3, <3>3 DEF OverwriteInv, OpenSince
        <5>2. By(n + 1, j)
          BY <1>3, <3>2, <5>1 DEF Unspent, PatchedOnlyNow, n
        <5> QED BY <5>2
      <4>3. n = n + 1 - 1
        BY <1>3
      <4>4. \A a \in 1..n + 1 : trace'[a].what = "overwritten" => \E j \in 1..a - 1 : By(a, j)
        <5> HIDE DEF By
        <5> QED BY <1>3, <4>1, <4>2, <4>3
      <4> QED BY <3>2, <4>4 DEF OverwriteEarned
    <3> QED BY <2>1, <2>2, <3>2, <3>5, <3>6, <3>7 DEF OverwriteInv
  <2> QED BY <1>1, <2>4, <2>5, <2>6, <2>7 DEF Effect
<1> QED BY <1>4, <1>5

\* A new answer: no patch of it has been tried yet.
LEMMA NewBatchOverwrite ==
  ASSUME LoopInv, OverwriteInv, NEW calls \in Batches, NewBatch(calls)
  PROVE  OverwriteInv'
<1>1. /\ stage = "idle" /\ stage' = "next" /\ turn' = turn + 1 /\ batch' = calls /\ next' = 1
      /\ UNCHANGED <<flagged, open, trace>> /\ results' = [i \in DOMAIN calls |-> "none"]
  BY DEF NewBatch
<1>2. DOMAIN calls = 1..Len(calls)
  BY BoundsAssumption
<1>3. Ahead' /\ Ok' = {} /\ Bad' = {}
  BY <1>1, <1>2 DEF Ahead, Ok, Bad
<1>4. TraceTypes /\ turn \in Nat /\ \A k \in DOMAIN trace : trace[k].turn < turn'
  BY <1>1, TurnsAreNumbers DEF OverwriteInv, TraceTypes
<1>5. TraceTypes'
  BY <1>1, <1>4, TurnsAreNumbers DEF TraceTypes
<1>6. OpenSince'
  <2> SUFFICES ASSUME open PROVE
        \E j \in DOMAIN trace : trace[j].what = "mismatch" /\ Unspent(j)' /\ trace[j].turn < turn' /\ PatchedOnlyNow(j)'
    BY <1>1 DEF OpenSince
  <2>1. PICK j \in DOMAIN trace : trace[j].what = "mismatch" /\ Unspent(j) /\ Unpatched(j)
    BY <1>1 DEF OverwriteInv, OpenSince
  <2> QED BY <1>1, <1>4, <2>1 DEF Unspent, PatchedOnlyNow, Unpatched
<1>7. PatchesTold'
  <2>1. ~\E k \in DOMAIN trace' : trace'[k].what = "patched" /\ trace'[k].turn = turn'
    <3> SUFFICES ASSUME NEW k \in DOMAIN trace, trace[k].turn = turn' PROVE FALSE
      BY <1>1
    <3> QED BY <1>1, <1>4 DEF TraceTypes, Event
  <2> QED BY <1>3, <2>1 DEF PatchesTold
<1>8. OverwriteEarned' /\ ~flagged'
  BY <1>1 DEF OverwriteEarned, OverwriteInv
<1> QED BY <1>3, <1>5, <1>6, <1>7, <1>8 DEF OverwriteInv

\* maybeInjectPatchRecovery opens the path for the batch's last mismatch only, or
\* keeps it open when the batch judged no patch.
LEMMA RecoverOverwrite ==
  ASSUME LoopInv, OverwriteInv, Recover
  PROVE  OverwriteInv'
<1>1. /\ stage = "recover" /\ stage' = "idle" /\ UNCHANGED <<turn, trace, flagged>> /\ ~flagged
      /\ open' = IF Judged = {} THEN open ELSE Failed # {} /\ fails' <= 2
  BY DEF Recover, OverwriteInv
<1>2. TraceTypes /\ DOMAIN batch = 1..Len(batch) /\ open' \in BOOLEAN
  <2>1. TraceTypes /\ open \in BOOLEAN
    BY DEF OverwriteInv, TraceTypes
  <2>2. DOMAIN batch = 1..Len(batch)
    BY LenProperties DEF LoopInv, Shape
  <2> QED BY <1>1, <2>1, <2>2
<1>3. TraceTypes'
  BY <1>1, <1>2 DEF TraceTypes
<1>4. OverwriteEarned' /\ Ahead' /\ PatchesTold'
  BY <1>1 DEF OverwriteEarned, OverwriteInv, Ahead, PatchesTold
<1>5. OpenSince'
  <2> SUFFICES ASSUME open' PROVE
        \E j \in DOMAIN trace : trace[j].what = "mismatch" /\ Unspent(j) /\ Unpatched(j)
    BY <1>1 DEF OpenSince, Unspent, Unpatched
  <2>1. CASE Judged = {}
    <3>1. Ok = {}
      BY <1>2, <2>1 DEF Ok, Judged
    <3>2. \A k \in DOMAIN trace : ~(trace[k].what = "patched" /\ trace[k].turn = turn)
      BY <1>1, <3>1 DEF OverwriteInv, PatchesTold
    <3>3. PICK j \in DOMAIN trace : trace[j].what = "mismatch" /\ Unspent(j) /\ PatchedOnlyNow(j)
      BY <1>1, <2>1 DEF OverwriteInv, OpenSince
    <3>4. DOMAIN trace = 1..Len(trace) /\ Len(trace) \in Nat
      BY <1>2, LenProperties DEF TraceTypes
    <3>5. Unpatched(j)
      BY <3>2, <3>3, <3>4 DEF Unpatched, PatchedOnlyNow
    <3> QED BY <3>3, <3>5
  <2>2. CASE Judged # {}
    <3>1. PICK i \in Failed : TRUE
      BY <1>1, <2>2
    <3>2. i \in 1..Len(batch) /\ i \in Judged
      BY <1>2, <3>1 DEF Failed, Judged
    <3>3. i \in Bad
      BY <3>1, <3>2 DEF Failed, Judged, Bad
    <3>4. \A o \in Ok : o < i
      <4> SUFFICES ASSUME NEW o \in Ok, ~(o < i) PROVE FALSE
        OBVIOUS
      <4>1. o \in Judged /\ o >= i /\ results[o] = "ok"
        BY <1>2, <3>2 DEF Ok, Judged
      <4> QED BY <3>1, <4>1 DEF Failed
    <3>5. PICK j \in DOMAIN trace : trace[j].what = "mismatch" /\ trace[j].turn = turn /\ Unpatched(j)
      BY <1>1, <3>3, <3>4 DEF OverwriteInv, PatchesTold
    <3>6. DOMAIN trace = 1..Len(trace) /\ Len(trace) \in Nat
      BY <1>2, LenProperties DEF TraceTypes
    <3>7. ASSUME NEW k \in j + 1..Len(trace) PROVE trace[k].turn = trace[j].turn
      <4>1. k \in DOMAIN trace /\ j <= k
        BY <3>5, <3>6
      <4>2. trace[k].turn <= turn /\ turn <= trace[k].turn
        BY <1>2, <3>5, <4>1 DEF TraceTypes
      <4>3. trace[k].turn \in Nat /\ turn \in Nat
        BY <1>2, <4>1, TurnsAreNumbers DEF TraceTypes
      <4> QED BY <3>5, <4>2, <4>3
    <3>8. Unspent(j)
      BY <3>7 DEF Unspent
    <3> QED BY <3>5, <3>8
  <2> QED BY <2>1, <2>2
<1> QED BY <1>1, <1>3, <1>4, <1>5 DEF OverwriteInv

LEMMA OverwriteInit == BatchInit => OverwriteInv
<1> SUFFICES ASSUME BatchInit PROVE OverwriteInv
  OBVIOUS
<1>1. /\ trace = <<>> /\ turn = 0 /\ open = FALSE /\ flagged = FALSE /\ stage = "idle" /\ batch = <<>>
      /\ DOMAIN trace = {} /\ trace \in Seq(Event)
  BY DEF BatchInit
<1> QED
  BY <1>1 DEF OverwriteInv, TraceTypes, Ahead, OpenSince, PatchesTold, OverwriteEarned

LEMMA OverwriteStep == LoopInv /\ OverwriteInv /\ [BatchNext]_batchVars => OverwriteInv'
<1> SUFFICES ASSUME LoopInv, OverwriteInv, [BatchNext]_batchVars PROVE OverwriteInv'
  OBVIOUS
<1>1. CASE UNCHANGED batchVars
  <2>1. UNCHANGED <<batch, next, stage, results, flagged, open, turn, trace>>
    BY <1>1 DEF batchVars
  <2>2. TraceTypes' /\ Ahead'
    BY <2>1 DEF OverwriteInv, TraceTypes, Ahead
  <2>3. OpenSince'
    BY <2>1 DEF OverwriteInv, OpenSince, Unspent, Unpatched, PatchedOnlyNow
  <2>4. PatchesTold'
    BY <2>1 DEF OverwriteInv, PatchesTold, Unpatched, Ok, Bad
  <2>5. OverwriteEarned'
    BY <2>1 DEF OverwriteInv, OverwriteEarned
  <2> QED BY <2>1, <2>2, <2>3, <2>4, <2>5 DEF OverwriteInv
<1>2. ASSUME NEW calls \in Batches, NewBatch(calls) PROVE OverwriteInv'
  BY <1>2, NewBatchOverwrite
<1>3. CASE Refuse
  BY <1>3, SkipOverwrite DEF Refuse, CallStatuses
<1>4. CASE CheckBudget
  <2>1. CASE Skip("over_budget")
    BY <1>4, <2>1, SkipOverwrite DEF CheckBudget, CallStatuses
  <2>2. CASE Pass
    <3>1. /\ stage = "next" /\ stage' = "gate" /\ flagged' = (Current = Write /\ open)
          /\ UNCHANGED <<batch, next, results, trace, turn, open>> /\ open \in BOOLEAN
      BY <1>4, <2>2 DEF CheckBudget, Pass, OverwriteInv, TraceTypes
    <3>2. Ok' = Ok /\ Bad' = Bad /\ Ahead'
      BY <3>1 DEF Ok, Bad, Ahead, OverwriteInv
    <3> QED BY <3>1, <3>2, VerdictsSame
  <2> QED BY <1>4, <2>1, <2>2 DEF CheckBudget
<1>5. CASE Gate
  <2>1. stage = "gate" /\ UNCHANGED <<batch, open, turn, trace>> /\ next <= Len(batch)
    BY <1>5 DEF Gate, LoopInv, CallAtHand
  <2>2. CASE Deny
    BY <2>1, <2>2, SkipOverwrite DEF Deny, CallStatuses
  <2>3. CASE stage' = "asking" /\ UNCHANGED <<next, results, running, flagged>>
    <3>1. Ok' = Ok /\ Bad' = Bad /\ Ahead'
      BY <2>1, <2>3 DEF Ok, Bad, Ahead, OverwriteInv
    <3> QED BY <2>1, <2>3, <3>1, VerdictsSame DEF OverwriteInv, TraceTypes
  <2>4. CASE Dispatch /\ UNCHANGED results
    BY <2>1, <2>4, DispatchOverwrite
  <2> QED BY <1>5, <2>2, <2>3, <2>4 DEF Gate
<1>6. CASE Decide
  <2>1. stage = "asking" /\ UNCHANGED <<batch, open, turn, trace>> /\ next <= Len(batch)
    BY <1>6 DEF Decide, LoopInv, CallAtHand
  <2>2. CASE Deny
    BY <2>1, <2>2, SkipOverwrite DEF Deny, CallStatuses
  <2>3. CASE Dispatch /\ UNCHANGED results
    BY <2>1, <2>3, DispatchOverwrite
  <2> QED BY <1>6, <2>2, <2>3 DEF Decide
<1>7. CASE StartSerial
  <2>1. /\ stage = "drain" /\ stage' = "serial"
        /\ UNCHANGED <<batch, next, results, flagged, open, turn, trace>>
    BY <1>7 DEF StartSerial
  <2>2. Ok' = Ok /\ Bad' = Bad /\ Ahead'
    BY <2>1 DEF Ok, Bad, Ahead, OverwriteInv
  <2> QED BY <2>1, <2>2, VerdictsSame DEF OverwriteInv, TraceTypes
<1>8. CASE Close
  <2>1. /\ stage = "next" /\ stage' = "recover"
        /\ UNCHANGED <<batch, next, results, flagged, open, turn, trace>> /\ ~flagged
    BY <1>8 DEF Close, OverwriteInv
  <2>2. Ok' = Ok /\ Bad' = Bad /\ Ahead'
    BY <2>1 DEF Ok, Bad, Ahead
  <2> QED BY <2>1, <2>2, VerdictsSame DEF OverwriteInv, TraceTypes
<1>9. CASE Recover
  BY <1>9, RecoverOverwrite
<1>10. ASSUME NEW i \in running, NEW status \in CallStatuses, Finish(i, status) PROVE OverwriteInv'
  BY <1>10, FinishOverwrite
<1> QED
  BY <1>1, <1>2, <1>3, <1>4, <1>5, <1>6, <1>7, <1>8, <1>9, <1>10 DEF BatchNext, SchedulerStep

\* write_file overwrites an existing file only after a patch of an earlier batch failed on
\* it, once per failure, and not when the path was patched in between (recoveryWriteFileOpenFor
\* in tool-loop.ts and patch-recovery.ts): for every number of calls and of batches.
THEOREM OverwritesEarned == BatchSpec => []OverwriteEarned
<1>1. OverwriteInv => OverwriteEarned
  BY DEF OverwriteInv
<1> QED
  BY <1>1, OverwriteInit, OverwriteStep, LoopInvariant, PTL DEF BatchSpec
=============================================================================
