---------------------------- MODULE StreamProofs ----------------------------
(***************************************************************************)
(* Proofs about ProviderStream and RateLimiter: the retry policy, the      *)
(* circuit breaker and the throttling, for any number of requests and any  *)
(* retries, thresholds, windows and delays.                                *)
(*                                                                         *)
(* The breaker forgets the failures that fall out of its window as it      *)
(* goes; what it promises is said of the whole log.  The invariant says    *)
(* what the breaker's few fields still know of the log: what it dropped is *)
(* too old to count, and an open circuit was opened by its last trip.      *)
(***************************************************************************)
EXTENDS ProviderStream, RateLimiter, SequenceTheorems, FiniteSetTheorems, TLAPS

-----------------------------------------------------------------------------
\* What a step does to the breaker and the log (circuit-breaker.ts): nothing,
\* time, or one of the three calls of the adapters.
Idle == UNCHANGED <<clock, breaker, log>>
Passes == clock < MaxTime /\ clock' = clock + 1 /\ UNCHANGED <<breaker, log>>
Admits ==
  /\ ~Refusing /\ state' = (IF state = "open" THEN "half_open" ELSE state)
  /\ Note("admit") /\ UNCHANGED <<clock, openedAt, failures>>
Succeeds == RecordSuccess /\ Note("success") /\ UNCHANGED clock
Counts == RecordFailure /\ Note("failure") /\ UNCHANGED clock
BreakerStep == Idle \/ Passes \/ Admits \/ Succeeds \/ Counts

LEMMA Steps == [Next]_vars => BreakerStep
<1> SUFFICES ASSUME [Next]_vars PROVE BreakerStep
  OBVIOUS
<1>1. CASE Tick
  BY <1>1 DEF Tick, BreakerStep, Passes
<1>2. CASE UNCHANGED vars
  BY <1>2 DEF vars, BreakerStep, Idle
<1>3. ASSUME NEW r \in Requests, BeforeCall(r) PROVE BreakerStep
  BY <1>3 DEF BeforeCall, BreakerStep, Idle, Admits, breaker
<1>4. ASSUME NEW r \in Requests, DoneEvent(r) PROVE BreakerStep
  BY <1>4 DEF DoneEvent, BreakerStep, Succeeds
<1>5. ASSUME NEW r \in Requests, NEW why, Fail(r, why) PROVE BreakerStep
  BY <1>5 DEF Fail, BreakerStep, Counts
<1>6. ASSUME NEW r \in Requests, RequestFails(r) \/ StreamFails(r) PROVE BreakerStep
  BY <1>5, <1>6 DEF RequestFails, StreamFails
<1>7. ASSUME NEW r \in Requests,
             Send(r) \/ Respond(r) \/ ErrorEvent(r) \/ RelaxStrict(r) \/ Retry(r) \/ Abort(r)
      PROVE BreakerStep
  BY <1>7 DEF Send, Respond, ErrorEvent, RelaxStrict, Retry, Abort, BreakerStep, Idle
<1> QED BY <1>1, <1>2, <1>3, <1>4, <1>6, <1>7 DEF Next, Progress

-----------------------------------------------------------------------------
\* The types of the breaker and of its log.
BreakerTypes ==
  /\ clock \in 0..MaxTime /\ state \in {"closed", "open", "half_open"}
  /\ openedAt \in 0..clock
  /\ failures \subseteq [n : DOMAIN log, at : 0..clock]
  /\ log \in Seq(Entry)

\* The log when one more thing has been noted.
LEMMA Noted ==
  ASSUME BreakerTypes, NEW what \in {"admit", "success", "failure"}, Note(what)
  PROVE  /\ log' \in Seq(Entry) /\ Len(log) \in Nat /\ Len(log') = Len(log) + 1
         /\ DOMAIN log = 1..Len(log) /\ DOMAIN log' = 1..Len(log) + 1
         /\ \A i \in 1..Len(log) : log'[i] = log[i]
         /\ log'[Len(log) + 1] = [what |-> what, at |-> clock]
<1> DEFINE e == [what |-> what, at |-> clock]
<1>1. e \in Entry /\ log \in Seq(Entry) /\ log' = Append(log, e)
  BY DEF BreakerTypes, Note, Entry
<1> HIDE DEF e
<1>2. /\ log' \in Seq(Entry) /\ Len(log') = Len(log) + 1
      /\ \A i \in 1..Len(log) : log'[i] = log[i]
      /\ log'[Len(log) + 1] = e
  BY <1>1, AppendProperties
<1>3. Len(log) \in Nat /\ DOMAIN log = 1..Len(log) /\ DOMAIN log' = 1..Len(log')
  BY <1>1, <1>2, LenProperties
<1> QED BY <1>2, <1>3 DEF e

LEMMA BreakerTyped == BreakerTypes /\ BreakerStep => BreakerTypes'
<1> SUFFICES ASSUME BreakerTypes, BreakerStep PROVE BreakerTypes'
  OBVIOUS
<1> USE DEF BreakerTypes
<1>1. CASE Idle
  BY <1>1 DEF Idle, breaker
<1>2. CASE Passes
  BY <1>2, LimitsAssumption DEF Passes, breaker
<1>3. CASE Admits
  <2>1. log' \in Seq(Entry) /\ DOMAIN log \subseteq DOMAIN log'
    BY <1>3, Noted DEF Admits
  <2> QED BY <1>3, <2>1 DEF Admits
<1>4. CASE Succeeds
  <2>1. log' \in Seq(Entry)
    BY <1>4, Noted DEF Succeeds
  <2> QED BY <1>4, <2>1 DEF Succeeds, RecordSuccess
<1>5. CASE Counts
  <2>1. /\ log' \in Seq(Entry) /\ DOMAIN log \subseteq DOMAIN log'
        /\ Len(log) + 1 \in DOMAIN log'
    BY <1>5, Noted DEF Counts
  <2>2. failures' \subseteq [n : DOMAIN log', at : 0..clock']
    BY <1>5, <2>1 DEF Counts, RecordFailure
  <2>3. state' \in {"closed", "open", "half_open"} /\ openedAt' \in 0..clock'
    BY <1>5 DEF Counts, RecordFailure
  <2> QED BY <1>5, <2>1, <2>2, <2>3 DEF Counts
<1> QED BY <1>1, <1>2, <1>3, <1>4, <1>5 DEF BreakerStep

-----------------------------------------------------------------------------
\* No request has succeeded from entry i of the log to entry j.
NoSuccess(i, j) == \A k \in i..j : log[k].what # "success"

\* The log is in the order of time.
InOrder == \A i \in DOMAIN log : log[i].at <= clock

\* The failures that are kept are in the log and no request succeeded since;
\* one that is not kept any more has fallen out of the window.
Kept ==
  \A f \in failures :
    log[f.n].what = "failure" /\ log[f.n].at = f.at /\ NoSuccess(f.n, Len(log))
Dropped ==
  \A j \in DOMAIN log :
    log[j].what = "failure" /\ NoSuccess(j, Len(log)) =>
      [n |-> j, at |-> log[j].at] \in failures \/ log[j].at < clock - Window

\* A failure that tripped the circuit holds it open, until a request succeeds
\* or OpenFor is over.
Held ==
  \A j \in DOMAIN log :
    Tripping(j) /\ NoSuccess(j, Len(log)) =>
      \/ state = "open" /\ log[j].at <= openedAt
      \/ clock - log[j].at >= OpenFor

BreakerInv ==
  BreakerTypes /\ InOrder /\ Kept /\ Dropped /\ Held /\ OpenEarned /\ NoCallWhileOpen

\* What was said of an entry stays true when the log grows.
LEMMA Settled ==
  ASSUME BreakerTypes, NEW what \in {"admit", "success", "failure"}, Note(what)
  PROVE  /\ \A i \in 1..Len(log) : Tripping(i)' <=> Tripping(i)
         /\ \A i, j \in 1..Len(log) : NoSuccess(i, j)' <=> NoSuccess(i, j)
         /\ \A i \in 1..Len(log) :
              NoSuccess(i, Len(log))' <=> NoSuccess(i, Len(log)) /\ what # "success"
<1>1. /\ Len(log) \in Nat /\ \A i \in 1..Len(log) : log'[i] = log[i]
      /\ log'[Len(log) + 1] = [what |-> what, at |-> clock]
  BY Noted
<1>2. ASSUME NEW i \in 1..Len(log), NEW j \in 1..Len(log)
      PROVE  NoSuccess(i, j)' <=> NoSuccess(i, j)
  BY <1>1 DEF NoSuccess
<1>3. ASSUME NEW i \in 1..Len(log)
      PROVE  NoSuccess(i, Len(log))' <=> NoSuccess(i, Len(log)) /\ what # "success"
  <2>1. Len(log') = Len(log) + 1
    BY Noted
  <2> QED BY <1>1, <2>1 DEF NoSuccess
<1>4. ASSUME NEW i \in 1..Len(log)
      PROVE  Tripping(i)' <=> Tripping(i)
  <2>1. Recent(i)' = Recent(i)
    BY <1>1 DEF Recent
  <2> QED BY <1>1, <2>1 DEF Tripping
<1> QED BY <1>2, <1>3, <1>4

\* The breaker counts the failures that are recent, for the log as it then is.
LEMMA CountsTheRecent ==
  ASSUME BreakerTypes, Kept, Dropped, Counts
  PROVE  Tripping(Len(log))' <=> Trips(failures')
<1>1. /\ Len(log) \in Nat /\ Len(log') = Len(log) + 1
      /\ DOMAIN log = 1..Len(log) /\ DOMAIN log' = 1..Len(log) + 1
      /\ \A i \in 1..Len(log) : log'[i] = log[i]
      /\ log'[Len(log) + 1] = [what |-> "failure", at |-> clock]
  BY Noted DEF Counts
<1> DEFINE m == Len(log) + 1
           S == {j \in 1..m : /\ log'[j].what = "failure" /\ log'[j].at >= clock - Window
                              /\ \A k \in j..m : log'[k].what # "success"}
<1>2. S = Recent(Len(log))'
  BY <1>1 DEF Recent
<1>3. log'[Len(log)'].what = "failure"
  BY <1>1
<1>4. failures' = {f \in failures \cup {[n |-> m, at |-> clock]} : f.at >= clock - Window}
  BY DEF Counts, RecordFailure
<1>5. ASSUME NEW f \in failures' PROVE f.n \in S /\ f = [n |-> f.n, at |-> log'[f.n].at]
  <2>1. CASE f = [n |-> m, at |-> clock]
    BY <1>1, <2>1, LimitsAssumption DEF BreakerTypes
  <2>2. CASE f \in failures
    <3>1. f \in [n : DOMAIN log, at : 0..clock] /\ f.at >= clock - Window
      BY <1>4, <2>2, <1>5 DEF BreakerTypes
    <3>2. log[f.n].what = "failure" /\ log[f.n].at = f.at /\ NoSuccess(f.n, Len(log))
      BY <2>2 DEF Kept
    <3>3. f.n \in 1..Len(log)
      BY <1>1, <3>1
    <3>4. \A k \in f.n..m : log'[k].what # "success"
      BY <1>1, <3>2, <3>3 DEF NoSuccess
    <3> QED BY <1>1, <3>1, <3>2, <3>3, <3>4
  <2> QED BY <1>4, <1>5, <2>1, <2>2
<1>6. ASSUME NEW j \in S PROVE [n |-> j, at |-> log'[j].at] \in failures'
  <2>1. CASE j = m
    BY <1>1, <1>4, <2>1, LimitsAssumption DEF BreakerTypes
  <2>2. CASE j # m
    <3>1. j \in 1..Len(log) /\ log'[j] = log[j]
      BY <1>1, <2>2
    <3>2. NoSuccess(j, Len(log)) /\ log[j].what = "failure" /\ log[j].at >= clock - Window
      BY <1>1, <3>1 DEF NoSuccess
    <3>3. log[j].at \in 0..MaxTime
      <4>1. log[j] \in Entry
        BY <1>1, <3>1 DEF BreakerTypes
      <4> QED BY <4>1 DEF Entry
    <3>4. ~(log[j].at < clock - Window)
      BY <3>2, <3>3, LimitsAssumption DEF BreakerTypes
    <3>5. [n |-> j, at |-> log[j].at] \in failures
      BY <1>1, <3>1, <3>2, <3>4 DEF Dropped
    <3> QED BY <1>4, <3>1, <3>2, <3>5
  <2> QED BY <2>1, <2>2
<1> DEFINE g == [j \in S |-> [n |-> j, at |-> log'[j].at]]
<1> HIDE DEF S
<1>7. g \in Bijection(S, failures')
  <2>1. g \in [S -> failures']
    BY <1>6
  <2>2. \A a, b \in S : g[a] = g[b] => a = b
    OBVIOUS
  <2>3. \A f \in failures' : f.n \in S /\ g[f.n] = f
    BY <1>5
  <2> HIDE DEF g
  <2>4. g \in Injection(S, failures')
    BY <2>1, <2>2 DEF Injection, IsInjective
  <2>5. g \in Surjection(S, failures')
    BY <2>1, <2>3 DEF Surjection
  <2> QED BY <2>4, <2>5 DEF Bijection
<1>8. IsFiniteSet(S)
  <2>1. S \in SUBSET (1..m) /\ 1 \in Int /\ m \in Int
    BY <1>1 DEF S
  <2>2. IsFiniteSet(1..m)
    BY <2>1, FS_Interval
  <2> HIDE DEF m
  <2> QED BY <2>1, <2>2, FS_Subset
<1>9. Cardinality(failures') = Cardinality(S)
  BY <1>7, <1>8, FS_Bijection DEF ExistsBijection
<1> QED BY <1>2, <1>3, <1>9 DEF Tripping, Trips

-----------------------------------------------------------------------------
LEMMA BreakerStart == Init => BreakerInv
<1> SUFFICES ASSUME Init PROVE BreakerInv
  OBVIOUS
<1> USE DEF Init
<1>1. BreakerTypes
  BY LimitsAssumption DEF BreakerTypes
<1>2. DOMAIN log = {} /\ failures = {} /\ state = "closed"
  OBVIOUS
<1> QED BY <1>1, <1>2
  DEF BreakerInv, InOrder, Kept, Dropped, Held, OpenEarned, NoCallWhileOpen

\* While nothing is noted, time makes what was dropped older, and a circuit
\* that was held open is held no longer.
LEMMA BreakerWaits ==
  ASSUME BreakerInv, Idle \/ Passes
  PROVE  InOrder' /\ Kept' /\ Dropped' /\ Held' /\ OpenEarned' /\ NoCallWhileOpen'
<1>1. /\ UNCHANGED <<state, openedAt, failures, log>>
      /\ clock \in Nat /\ clock' \in Nat /\ clock <= clock' /\ openedAt \in Nat
  BY LimitsAssumption DEF BreakerInv, BreakerTypes, Idle, Passes, breaker
<1>2. \A j \in DOMAIN log : log[j].at \in Nat
  <2>1. \A j \in DOMAIN log : log[j] \in Entry
    BY DEF BreakerInv, BreakerTypes
  <2> QED BY <2>1 DEF Entry
<1>3. \A i : (Tripping(i)' <=> Tripping(i)) /\ (NoSuccess(i, Len(log))' <=> NoSuccess(i, Len(log)))
  BY <1>1 DEF Tripping, Recent, NoSuccess
<1>4. InOrder'
  BY <1>1, <1>2 DEF BreakerInv, InOrder
<1>5. Kept'
  BY <1>1, <1>3 DEF BreakerInv, Kept
<1>6. Dropped'
  <2> SUFFICES ASSUME NEW j \in DOMAIN log, log[j].what = "failure", NoSuccess(j, Len(log)),
                      [n |-> j, at |-> log[j].at] \notin failures
               PROVE  log[j].at < clock' - Window
    BY <1>1, <1>3 DEF Dropped
  <2>1. log[j].at < clock - Window
    BY DEF BreakerInv, Dropped
  <2> QED BY <1>1, <1>2, <2>1, LimitsAssumption
<1>7. Held'
  <2> SUFFICES ASSUME NEW j \in DOMAIN log, Tripping(j), NoSuccess(j, Len(log))
               PROVE  (state = "open" /\ log[j].at <= openedAt) \/ clock' - log[j].at >= OpenFor
    BY <1>1, <1>3 DEF Held
  <2>1. (state = "open" /\ log[j].at <= openedAt) \/ clock - log[j].at >= OpenFor
    BY DEF BreakerInv, Held
  <2> QED BY <1>1, <1>2, <2>1, LimitsAssumption
<1>8. OpenEarned'
  BY <1>1, <1>3 DEF BreakerInv, OpenEarned
<1>9. NoCallWhileOpen'
  BY <1>1, <1>3 DEF BreakerInv, NoCallWhileOpen
<1> QED BY <1>4, <1>5, <1>6, <1>7, <1>8, <1>9

\* A request is let through: the circuit is not open, or has been long enough.
LEMMA BreakerAdmits ==
  ASSUME BreakerInv, Admits
  PROVE  InOrder' /\ Kept' /\ Dropped' /\ Held' /\ OpenEarned' /\ NoCallWhileOpen'
<1> DEFINE m == Len(log) + 1
<1>1. BreakerTypes /\ Note("admit") /\ UNCHANGED <<clock, openedAt, failures>>
  BY DEF BreakerInv, Admits
<1>2. /\ Len(log) \in Nat /\ Len(log') = m
      /\ DOMAIN log = 1..Len(log) /\ DOMAIN log' = 1..m
      /\ \A i \in 1..Len(log) : log'[i] = log[i]
      /\ log'[m] = [what |-> "admit", at |-> clock]
  BY <1>1, Noted
<1>3. /\ \A i \in 1..Len(log) : Tripping(i)' <=> Tripping(i)
      /\ \A i \in 1..Len(log) : NoSuccess(i, Len(log))' <=> NoSuccess(i, Len(log))
  BY <1>1, Settled
<1>4. ~Tripping(Len(log))'
  BY <1>2 DEF Tripping
<1>5. \A i \in 1..Len(log) : log[i].at \in Nat
  <2>1. \A j \in DOMAIN log : log[j] \in Entry
    BY <1>1 DEF BreakerTypes
  <2> QED BY <1>2, <2>1 DEF Entry
<1>6. clock \in Nat /\ openedAt \in Nat /\ OpenFor \in Nat
  BY <1>1, LimitsAssumption DEF BreakerTypes
<1> HIDE DEF m
<1>7. InOrder'
  BY <1>1, <1>2, <1>6 DEF BreakerInv, InOrder, m
<1>8. Kept'
  <2> SUFFICES ASSUME NEW f \in failures
               PROVE  (log[f.n].what = "failure" /\ log[f.n].at = f.at /\ NoSuccess(f.n, Len(log)))'
    BY <1>1 DEF Kept
  <2>1. f.n \in 1..Len(log)
    BY <1>1, <1>2 DEF BreakerTypes
  <2> QED BY <1>2, <1>3, <2>1 DEF BreakerInv, Kept
<1>9. Dropped'
  <2> SUFFICES ASSUME NEW j \in 1..m, log'[j].what = "failure", NoSuccess(j, Len(log))'
               PROVE  [n |-> j, at |-> log'[j].at] \in failures \/ log'[j].at < clock - Window
    BY <1>1, <1>2 DEF Dropped
  <2>1. j \in 1..Len(log)
    BY <1>2 DEF m
  <2> QED BY <1>2, <1>3, <2>1 DEF BreakerInv, Dropped
<1>10. ASSUME NEW j \in 1..Len(log), Tripping(j), NoSuccess(j, Len(log))
       PROVE  clock - log[j].at >= OpenFor
  <2>1. (state = "open" /\ log[j].at <= openedAt) \/ clock - log[j].at >= OpenFor
    BY <1>2, <1>10 DEF BreakerInv, Held
  <2>2. ~(state = "open" /\ clock - openedAt < OpenFor)
    BY DEF Admits, Refusing
  <2> QED BY <1>5, <1>6, <2>1, <2>2
<1>11. Held'
  <2> SUFFICES ASSUME NEW j \in 1..m, Tripping(j)', NoSuccess(j, Len(log))'
               PROVE  clock' - log'[j].at >= OpenFor
    BY <1>2 DEF Held
  <2>1. j \in 1..Len(log)
    BY <1>2, <1>4 DEF m
  <2> QED BY <1>1, <1>2, <1>3, <1>10, <2>1
<1>12. OpenEarned'
  <2> SUFFICES ASSUME state' = "open" PROVE OpenEarned'
    BY DEF OpenEarned
  <2>1. state = "open"
    BY DEF Admits
  <2>2. PICK i \in DOMAIN log : Tripping(i) /\ NoSuccess(i, Len(log))
    BY <2>1 DEF BreakerInv, OpenEarned, NoSuccess
  <2>3. i \in DOMAIN log' /\ Tripping(i)' /\ NoSuccess(i, Len(log))'
    BY <1>2, <1>3, <2>2 DEF m
  <2> QED BY <2>3 DEF OpenEarned, NoSuccess
<1>13. NoCallWhileOpen'
  <2> SUFFICES ASSUME NEW i \in 1..m, log'[i].what = "admit", NEW j \in 1..i, Tripping(j)',
                      \A k \in j..i : log'[k].what # "success"
               PROVE  log'[i].at - log'[j].at >= OpenFor
    BY <1>2 DEF NoCallWhileOpen
  <2>1. j # m /\ j \in 1..Len(log) /\ Tripping(j)
    BY <1>2, <1>3, <1>4 DEF m
  <2>2. CASE i = m
    <3>1. NoSuccess(j, Len(log))
      BY <1>2, <2>1, <2>2 DEF NoSuccess, m
    <3> QED BY <1>2, <1>10, <2>1, <2>2, <3>1
  <2>3. CASE i # m
    <3>1. i \in 1..Len(log) /\ \A k \in j..i : log'[k] = log[k]
      BY <1>2, <2>1, <2>3 DEF m
    <3> QED BY <1>2, <2>1, <3>1 DEF BreakerInv, NoCallWhileOpen
  <2> QED BY <2>2, <2>3
<1> QED BY <1>7, <1>8, <1>9, <1>11, <1>12, <1>13

\* A success ends whatever the failures before it did.
LEMMA BreakerSucceeds ==
  ASSUME BreakerInv, Succeeds
  PROVE  InOrder' /\ Kept' /\ Dropped' /\ Held' /\ OpenEarned' /\ NoCallWhileOpen'
<1> DEFINE m == Len(log) + 1
<1>1. BreakerTypes /\ Note("success") /\ clock' = clock /\ failures' = {} /\ state' = "closed"
  BY DEF BreakerInv, Succeeds, RecordSuccess
<1>2. /\ Len(log) \in Nat /\ Len(log') = m
      /\ DOMAIN log = 1..Len(log) /\ DOMAIN log' = 1..m
      /\ \A i \in 1..Len(log) : log'[i] = log[i]
      /\ log'[m] = [what |-> "success", at |-> clock]
  BY <1>1, Noted
<1>3. \A i \in 1..Len(log) : Tripping(i)' <=> Tripping(i)
  BY <1>1, Settled
<1>4. \A j \in DOMAIN log' : ~NoSuccess(j, Len(log))'
  BY <1>2 DEF NoSuccess
<1>5. clock \in Nat
  BY <1>1, LimitsAssumption DEF BreakerTypes
<1> HIDE DEF m
<1>6. InOrder'
  BY <1>1, <1>2, <1>5 DEF BreakerInv, InOrder, m
<1>7. Kept' /\ Dropped' /\ Held' /\ OpenEarned'
  BY <1>1, <1>4 DEF Kept, Dropped, Held, OpenEarned
<1>8. NoCallWhileOpen'
  <2> SUFFICES ASSUME NEW i \in 1..m, log'[i].what = "admit", NEW j \in 1..i, Tripping(j)',
                      \A k \in j..i : log'[k].what # "success"
               PROVE  log'[i].at - log'[j].at >= OpenFor
    BY <1>2 DEF NoCallWhileOpen
  <2>1. i # m
    BY <1>2
  <2>2. i \in 1..Len(log) /\ j \in 1..Len(log) /\ \A k \in j..i : log'[k] = log[k]
    BY <1>2, <2>1 DEF m
  <2> QED BY <1>2, <1>3, <2>2 DEF BreakerInv, NoCallWhileOpen
<1> QED BY <1>6, <1>7, <1>8

\* A failure: those too old are dropped, and the circuit is opened when there
\* are enough of the others.
LEMMA BreakerCounts ==
  ASSUME BreakerInv, Counts
  PROVE  InOrder' /\ Kept' /\ Dropped' /\ Held' /\ OpenEarned' /\ NoCallWhileOpen'
<1> DEFINE m == Len(log) + 1
<1>1. /\ BreakerTypes /\ Kept /\ Dropped /\ Note("failure") /\ clock' = clock
      /\ failures' = {f \in failures \cup {[n |-> m, at |-> clock]} : f.at >= clock - Window}
  BY DEF BreakerInv, Counts, RecordFailure
<1>2. /\ Len(log) \in Nat /\ Len(log') = m
      /\ DOMAIN log = 1..Len(log) /\ DOMAIN log' = 1..m
      /\ \A i \in 1..Len(log) : log'[i] = log[i]
      /\ log'[m] = [what |-> "failure", at |-> clock]
  BY <1>1, Noted
<1>3. /\ \A i \in 1..Len(log) : Tripping(i)' <=> Tripping(i)
      /\ \A i \in 1..Len(log) : NoSuccess(i, Len(log))' <=> NoSuccess(i, Len(log))
  BY <1>1, Settled
<1>4. Tripping(Len(log))' <=> Trips(failures')
  BY <1>1, CountsTheRecent
<1>5. NoSuccess(Len(log), Len(log))'
  BY <1>2 DEF NoSuccess
<1>6. \A i \in 1..Len(log) : log[i].at \in Nat
  <2>1. \A j \in DOMAIN log : log[j] \in Entry
    BY <1>1 DEF BreakerTypes
  <2> QED BY <1>2, <2>1 DEF Entry
<1>7. clock \in Nat /\ openedAt \in Nat /\ OpenFor \in Nat /\ Window \in Nat
  BY <1>1, LimitsAssumption DEF BreakerTypes
<1>8. IF Trips(failures') THEN state' = "open" /\ openedAt' = clock
      ELSE UNCHANGED <<state, openedAt>>
  BY DEF Counts, RecordFailure
<1> HIDE DEF m
<1>9. InOrder'
  BY <1>1, <1>2, <1>7 DEF BreakerInv, InOrder, m
<1>10. Kept'
  <2> SUFFICES ASSUME NEW f \in failures'
               PROVE  (log[f.n].what = "failure" /\ log[f.n].at = f.at /\ NoSuccess(f.n, Len(log)))'
    BY DEF Kept
  <2>1. CASE f \in failures
    <3>1. f.n \in 1..Len(log)
      BY <1>1, <1>2, <2>1 DEF BreakerTypes
    <3> QED BY <1>2, <1>3, <2>1, <3>1 DEF BreakerInv, Kept
  <2>2. CASE f = [n |-> m, at |-> clock]
    <3>1. f.n = m /\ f.at = clock
      BY <2>2
    <3> QED BY <1>2, <1>5, <3>1
  <2> QED BY <1>1, <2>1, <2>2
<1>11. Dropped'
  <2> SUFFICES ASSUME NEW j \in 1..m, log'[j].what = "failure", NoSuccess(j, Len(log))'
               PROVE  [n |-> j, at |-> log'[j].at] \in failures' \/ log'[j].at < clock - Window
    BY <1>1, <1>2 DEF Dropped
  <2>1. CASE j = m
    <3>1. [n |-> j, at |-> log'[j].at] = [n |-> m, at |-> clock]
      BY <1>2, <2>1
    <3> QED BY <1>1, <1>7, <3>1
  <2>2. CASE j # m
    <3>1. j \in 1..Len(log) /\ log'[j] = log[j]
      BY <1>2, <2>2 DEF m
    <3>2. [n |-> j, at |-> log[j].at] \in failures \/ log[j].at < clock - Window
      BY <1>2, <1>3, <3>1 DEF BreakerInv, Dropped
    <3> QED BY <1>1, <1>6, <1>7, <3>1, <3>2
  <2> QED BY <2>1, <2>2
<1>12. Held'
  <2> SUFFICES ASSUME NEW j \in 1..m, Tripping(j)', NoSuccess(j, Len(log))'
               PROVE  \/ state' = "open" /\ log'[j].at <= openedAt'
                      \/ clock - log'[j].at >= OpenFor
    BY <1>1, <1>2 DEF Held
  <2>1. CASE Trips(failures')
    <3>1. log'[j].at <= clock
      BY <1>1, <1>2, <1>9 DEF InOrder
    <3> QED BY <1>8, <2>1, <3>1
  <2>2. CASE ~Trips(failures')
    <3>1. j # m
      BY <1>2, <1>4, <2>2
    <3>2. j \in 1..Len(log) /\ log'[j] = log[j] /\ Tripping(j) /\ NoSuccess(j, Len(log))
      BY <1>2, <1>3, <3>1 DEF m
    <3> QED BY <1>2, <1>8, <2>2, <3>2 DEF BreakerInv, Held
  <2> QED BY <2>1, <2>2
<1>13. OpenEarned'
  <2> SUFFICES ASSUME state' = "open" PROVE OpenEarned'
    BY DEF OpenEarned
  <2>1. CASE Trips(failures')
    <3>1. Len(log') \in DOMAIN log'
      BY <1>2 DEF m
    <3> QED BY <1>4, <1>5, <2>1, <3>1 DEF OpenEarned, NoSuccess
  <2>2. CASE ~Trips(failures')
    <3>1. state = "open"
      BY <1>8, <2>2
    <3>2. PICK i \in DOMAIN log : Tripping(i) /\ NoSuccess(i, Len(log))
      BY <3>1 DEF BreakerInv, OpenEarned, NoSuccess
    <3>3. i \in DOMAIN log' /\ Tripping(i)' /\ NoSuccess(i, Len(log))'
      BY <1>2, <1>3, <3>2 DEF m
    <3> QED BY <3>3 DEF OpenEarned, NoSuccess
  <2> QED BY <2>1, <2>2
<1>14. NoCallWhileOpen'
  <2> SUFFICES ASSUME NEW i \in 1..m, log'[i].what = "admit", NEW j \in 1..i, Tripping(j)',
                      \A k \in j..i : log'[k].what # "success"
               PROVE  log'[i].at - log'[j].at >= OpenFor
    BY <1>2 DEF NoCallWhileOpen
  <2>1. i # m
    BY <1>2
  <2>2. i \in 1..Len(log) /\ j \in 1..Len(log) /\ \A k \in j..i : log'[k] = log[k]
    BY <1>2, <2>1 DEF m
  <2> QED BY <1>2, <1>3, <2>2 DEF BreakerInv, NoCallWhileOpen
<1> QED BY <1>9, <1>10, <1>11, <1>12, <1>13, <1>14

LEMMA BreakerKeeps == BreakerInv /\ [Next]_vars => BreakerInv'
<1> SUFFICES ASSUME BreakerInv, [Next]_vars PROVE BreakerInv'
  OBVIOUS
<1>1. BreakerStep
  BY Steps
<1>2. BreakerTypes'
  BY <1>1, BreakerTyped DEF BreakerInv
<1>3. CASE Idle \/ Passes
  BY <1>2, <1>3, BreakerWaits DEF BreakerInv
<1>4. CASE Admits
  BY <1>2, <1>4, BreakerAdmits DEF BreakerInv
<1>5. CASE Succeeds
  BY <1>2, <1>5, BreakerSucceeds DEF BreakerInv
<1>6. CASE Counts
  BY <1>2, <1>6, BreakerCounts DEF BreakerInv
<1> QED BY <1>1, <1>3, <1>4, <1>5, <1>6 DEF BreakerStep

\* A request is let through only when every failure that tripped the circuit
\* was OpenFor ago or a request has succeeded since (beforeCall).
THEOREM BreakerHolds == Spec => []NoCallWhileOpen
<1>1. Spec => []BreakerInv
  BY BreakerStart, BreakerKeeps, PTL DEF Spec
<1>2. BreakerInv => NoCallWhileOpen
  BY DEF BreakerInv
<1> QED BY <1>1, <1>2, PTL

\* The circuit is open only after Threshold failures within the window, with
\* no success since (recordFailure, recordSuccess).
THEOREM BreakerOpensForCause == Spec => []OpenEarned
<1>1. Spec => []BreakerInv
  BY BreakerStart, BreakerKeeps, PTL DEF Spec
<1>2. BreakerInv => OpenEarned
  BY DEF BreakerInv
<1> QED BY <1>1, <1>2, PTL

-----------------------------------------------------------------------------
\* The retry policy: a request that was given up has its retries behind it.
RetryInv ==
  /\ provider \in Providers
  /\ stage \in [Requests -> Stages] /\ attempt \in [Requests -> 0..MaxRetries]
  /\ cause \in [Requests -> Failures \cup {"none", "abort"}]
  /\ TransientRetried

LEMMA FailRetried ==
  ASSUME RetryInv, NEW r \in Requests, NEW why \in Failures \cup {"abort"}, Fail(r, why)
  PROVE  RetryInv'
<1> USE DEF RetryInv, Fail, Move, MayRetry
<1>1. CASE MayRetry(r, why)
  <2>1. /\ stage' = [stage EXCEPT ![r] = "backoff"] /\ cause' = [cause EXCEPT ![r] = why]
        /\ attempt' = [attempt EXCEPT ![r] = @ + 1] /\ attempt[r] < MaxRetries
        /\ provider' = provider
    BY <1>1
  <2>2. attempt[r] + 1 \in 0..MaxRetries
    BY <2>1, LimitsAssumption
  <2>3. /\ stage' \in [Requests -> Stages] /\ attempt' \in [Requests -> 0..MaxRetries]
        /\ cause' \in [Requests -> Failures \cup {"none", "abort"}]
    BY <2>1, <2>2 DEF Stages
  <2>4. TransientRetried'
    BY <2>1 DEF TransientRetried
  <2> QED BY <2>1, <2>3, <2>4
<1>2. CASE ~MayRetry(r, why)
  <2>1. /\ stage' = [stage EXCEPT ![r] = "failed"] /\ cause' = [cause EXCEPT ![r] = why]
        /\ attempt' = attempt /\ provider' = provider
    BY <1>2
  <2>2. why \in Transient => attempt[r] = MaxRetries
    BY <1>2, LimitsAssumption
  <2>3. stage' \in [Requests -> Stages] /\ cause' \in [Requests -> Failures \cup {"none", "abort"}]
    BY <2>1 DEF Stages
  <2>4. TransientRetried'
    BY <2>1, <2>2 DEF TransientRetried
  <2> QED BY <2>1, <2>3, <2>4
<1> QED BY <1>1, <1>2

LEMMA RetryKept == RetryInv /\ [Next]_vars => RetryInv'
<1> SUFFICES ASSUME RetryInv, [Next]_vars PROVE RetryInv'
  OBVIOUS
<1>1. ASSUME UNCHANGED <<provider, stage, attempt, cause>>
      PROVE  RetryInv'
  BY <1>1 DEF RetryInv, TransientRetried
<1>2. ASSUME NEW r \in Requests, NEW to \in Stages \ {"failed"}, Move(r, to),
             UNCHANGED <<provider, attempt, cause>>
      PROVE  RetryInv'
  BY <1>2 DEF RetryInv, TransientRetried, Move
<1>3. ASSUME NEW r \in Requests, NEW why \in Failures \cup {"abort"}, Move(r, "failed"),
             cause' = [cause EXCEPT ![r] = why], UNCHANGED <<provider, attempt>>,
             why \in Transient => provider = "openai" /\ why = "error"
      PROVE  RetryInv'
  BY <1>3 DEF RetryInv, TransientRetried, Move, Stages
<1>4. CASE Tick \/ UNCHANGED vars
  BY <1>1, <1>4 DEF Tick, vars
<1>5. ASSUME NEW r \in Requests, Abort(r) PROVE RetryInv'
  BY <1>1, <1>5 DEF Abort
<1>6. ASSUME NEW r \in Requests, BeforeCall(r) \/ Respond(r) \/ DoneEvent(r) \/ RelaxStrict(r) \/ Retry(r)
      PROVE  RetryInv'
  BY <1>2, <1>6 DEF BeforeCall, Respond, DoneEvent, RelaxStrict, Retry, Stages
<1>7. ASSUME NEW r \in Requests, Send(r) PROVE RetryInv'
  BY <1>2, <1>3, <1>7 DEF Send, Stages, Transient
<1>8. ASSUME NEW r \in Requests, RequestFails(r) \/ StreamFails(r) PROVE RetryInv'
  <2>1. \E why \in Failures \cup {"abort"} : Fail(r, why)
    BY <1>8, KindsAssumption DEF RequestFails, StreamFails, Failures
  <2> QED BY <2>1, FailRetried
<1>9. ASSUME NEW r \in Requests, ErrorEvent(r) PROVE RetryInv'
  <2>1. \E why \in {"error", "fatal"} : cause' = [cause EXCEPT ![r] = why]
    BY <1>9 DEF ErrorEvent
  <2> QED BY <1>3, <1>9, <2>1 DEF ErrorEvent, Failures, Transient
<1> QED BY <1>4, <1>5, <1>6, <1>7, <1>8, <1>9 DEF Next, Progress

\* A request is not given up for a transient failure while it has a retry
\* left, but for OpenAI's error event (shouldRetry).
THEOREM RetriesUsed == Spec => []TransientRetried
<1>1. Init => RetryInv
  BY LimitsAssumption DEF Init, RetryInv, TransientRetried, Stages
<1>2. RetryInv => TransientRetried
  BY DEF RetryInv
<1> QED BY <1>1, <1>2, RetryKept, PTL DEF Spec

-----------------------------------------------------------------------------
(***************************************************************************)
(* The limiter.  A reservation that waits behind another one has its whole *)
(* sleep before it; the first has slept for as long as nothing was sent.   *)
(***************************************************************************)
Reservation == [call : Calls, throttled : BOOLEAN, wait : Nat]

LimiterTypes ==
  /\ chain \in Seq(Reservation)
  /\ requests \in [Calls -> {"idle", "waiting", "sent"}]
  /\ quiet \in 0..Delay

Queued ==
  /\ \A i \in DOMAIN chain : requests[chain[i].call] = "waiting"
  /\ \A i, j \in DOMAIN chain : chain[i].call = chain[j].call => i = j

SleepsAhead ==
  \A i \in DOMAIN chain : chain[i].throttled =>
    IF i = 1 THEN chain[i].wait + quiet >= Delay ELSE chain[i].wait = Delay

LimiterInv == LimiterTypes /\ Queued /\ SleepsAhead

\* The chain is not touched by an answer, nor by a request that fails.
LEMMA AnswersKeep ==
  ASSUME LimiterInv, NEW c \in Calls, requests[c] = "sent",
         requests' = [requests EXCEPT ![c] = "idle"], UNCHANGED <<chain, quiet>>
  PROVE  LimiterInv'
<1> USE DelayAssumption
<1> USE DEF LimiterInv
<1>1. LimiterTypes'
  BY DEF LimiterTypes
<1>2. \A i \in DOMAIN chain : chain[i].call \in Calls
  <2>1. \A i \in DOMAIN chain : chain[i] \in Reservation
    BY DEF LimiterTypes
  <2> QED BY <2>1 DEF Reservation
<1>3. Queued'
  BY <1>2 DEF Queued, LimiterTypes
<1>4. SleepsAhead'
  BY DEF SleepsAhead
<1> QED BY <1>1, <1>3, <1>4

LEMMA ReserveKeeps ==
  ASSUME LimiterInv, NEW c \in Calls, Reserve(c)
  PROVE  LimiterInv'
<1> USE DelayAssumption
<1> DEFINE low == NeedsThrottle
           e == [call |-> c, throttled |-> low, wait |-> IF low THEN Delay ELSE 0]
           n == Len(chain)
<1> USE DEF LimiterInv
<1>1. /\ requests[c] = "idle" /\ requests' = [requests EXCEPT ![c] = "waiting"]
      /\ chain' = Append(chain, e) /\ quiet' = quiet
  BY DEF Reserve
<1>2. low \in BOOLEAN
  BY DEF NeedsThrottle
<1> HIDE DEF low
<1>3. e \in Reservation /\ e.call = c /\ (e.throttled => e.wait = Delay)
  BY <1>2 DEF Reservation
<1> HIDE DEF e
<1>4. /\ chain' \in Seq(Reservation) /\ n \in Nat /\ DOMAIN chain = 1..n /\ DOMAIN chain' = 1..n + 1
      /\ \A i \in 1..n : chain'[i] = chain[i]
      /\ chain'[n + 1] = e
  <2>1. chain \in Seq(Reservation)
    BY DEF LimiterTypes
  <2> QED BY <1>1, <1>3, <2>1, AppendProperties, LenProperties
<1> HIDE DEF n
<1>5. \A i \in 1..n : chain[i].call \in Calls /\ chain[i].call # c
  <2>1. \A i \in 1..n : chain[i] \in Reservation
    BY <1>4 DEF LimiterTypes
  <2> QED BY <1>1, <1>4, <2>1 DEF Reservation, Queued
<1>6. LimiterTypes'
  BY <1>1, <1>4 DEF LimiterTypes
<1>7. Queued'
  <2>1. \A i \in 1..n + 1 : requests'[chain'[i].call] = "waiting"
    BY <1>1, <1>3, <1>4, <1>5 DEF Queued, LimiterTypes
  <2>2. \A i, j \in 1..n + 1 : chain'[i].call = chain'[j].call => i = j
    BY <1>3, <1>4, <1>5 DEF Queued
  <2> QED BY <1>4, <2>1, <2>2 DEF Queued
<1>8. SleepsAhead'
  BY <1>1, <1>3, <1>4 DEF SleepsAhead, LimiterTypes
<1> QED BY <1>6, <1>7, <1>8

LEMMA LetGoKeeps ==
  ASSUME LimiterInv, LetGo
  PROVE  LimiterInv'
<1> USE DelayAssumption
<1> DEFINE n == Len(chain)
           h == chain[1].call
<1> USE DEF LimiterInv
<1>1. /\ chain # <<>> /\ requests' = [requests EXCEPT ![Head(chain).call] = "sent"]
      /\ chain' = Tail(chain) /\ quiet' = 0
  BY DEF LetGo, Due
<1>2. chain \in Seq(Reservation)
  BY DEF LimiterTypes
<1>3. n \in Nat /\ DOMAIN chain = 1..n /\ Head(chain) = chain[1]
  BY <1>1, <1>2, LenProperties
<1>4. /\ chain' \in Seq(Reservation) /\ DOMAIN chain' = 1..n - 1 /\ n >= 1
      /\ \A i \in 1..n - 1 : chain'[i] = chain[i + 1]
  <2>1. chain' \in Seq(Reservation) /\ Len(chain') = n - 1
        /\ \A i \in 1..Len(chain') : chain'[i] = chain[i + 1]
    BY <1>1, <1>2, HeadTailProperties
  <2>2. DOMAIN chain' = 1..Len(chain') /\ Len(chain') \in Nat
    BY <2>1, LenProperties
  <2> QED BY <1>3, <2>1, <2>2
<1>5. \A i \in 1..n : chain[i].call \in Calls
  <2>1. \A i \in 1..n : chain[i] \in Reservation
    BY <1>2, <1>3
  <2> QED BY <2>1 DEF Reservation
<1> HIDE DEF n
<1>6. \A i \in 1..n - 1 : i + 1 \in 1..n /\ i + 1 # 1
  BY <1>3 DEF n
<1>7. \A i \in 1..n - 1 : chain'[i].call # h
  BY <1>3, <1>4, <1>6 DEF Queued
<1>8. h \in Calls /\ requests' = [requests EXCEPT ![h] = "sent"]
  BY <1>1, <1>3, <1>4, <1>5
<1> HIDE DEF h
<1>9. LimiterTypes'
  <2>1. requests' \in [Calls -> {"idle", "waiting", "sent"}]
    BY <1>8 DEF LimiterTypes
  <2>2. quiet' \in 0..Delay
    BY <1>1
  <2> QED BY <1>4, <2>1, <2>2 DEF LimiterTypes
<1>10. Queued'
  <2>1. \A i \in 1..n - 1 : requests'[chain'[i].call] = "waiting"
    <3> SUFFICES ASSUME NEW i \in 1..n - 1 PROVE requests'[chain'[i].call] = "waiting"
      OBVIOUS
    <3>1. chain'[i].call = chain[i + 1].call /\ i + 1 \in 1..n
      BY <1>4, <1>6
    <3>2. requests[chain[i + 1].call] = "waiting" /\ chain[i + 1].call \in Calls
      BY <1>3, <1>5, <3>1 DEF Queued
    <3>3. chain[i + 1].call # h
      BY <1>7, <3>1
    <3> QED BY <1>8, <3>1, <3>2, <3>3 DEF LimiterTypes
  <2>2. \A i, j \in 1..n - 1 : chain'[i].call = chain'[j].call => i = j
    <3> SUFFICES ASSUME NEW i \in 1..n - 1, NEW j \in 1..n - 1, chain'[i].call = chain'[j].call
                 PROVE  i = j
      OBVIOUS
    <3>1. i + 1 = j + 1
      BY <1>3, <1>4, <1>6 DEF Queued
    <3> QED BY <3>1
  <2> QED BY <1>4, <2>1, <2>2 DEF Queued
<1>11. SleepsAhead'
  <2> SUFFICES ASSUME NEW i \in 1..n - 1, chain[i + 1].throttled
               PROVE  chain[i + 1].wait = Delay
    BY <1>1, <1>4 DEF SleepsAhead
  <2> QED BY <1>3, <1>6 DEF SleepsAhead
<1> QED BY <1>9, <1>10, <1>11

LEMMA TickKeeps ==
  ASSUME LimiterInv, LimiterTick
  PROVE  LimiterInv'
<1> USE DelayAssumption
<1> DEFINE n == Len(chain)
           Slept(i) == IF i = 1 /\ chain[i].wait > 0
                       THEN [chain[i] EXCEPT !.wait = @ - 1] ELSE chain[i]
<1> USE DEF LimiterInv
<1>1. /\ chain' = [i \in DOMAIN chain |-> Slept(i)] /\ requests' = requests
      /\ quiet' = IF quiet < Delay THEN quiet + 1 ELSE quiet
  BY DEF LimiterTick, Sleeping
<1>2. chain \in Seq(Reservation) /\ n \in Nat /\ DOMAIN chain = 1..n
  BY LenProperties DEF LimiterTypes
<1>3. chain # <<>> => chain[1].wait # 0
  BY <1>2 DEF LimiterTick, Due
<1>4. \A i \in 1..n : chain[i] \in Reservation
  BY <1>2
<1> HIDE DEF n
<1>5. ASSUME NEW i \in 1..n
      PROVE  /\ Slept(i) \in Reservation /\ Slept(i).call = chain[i].call
             /\ Slept(i).throttled = chain[i].throttled
             /\ Slept(i).wait = IF i = 1 THEN chain[i].wait - 1 ELSE chain[i].wait
  <2>1. chain[i] \in Reservation /\ (i = 1 => chain[i].wait # 0)
    BY <1>2, <1>3, <1>4
  <2> QED BY <2>1 DEF Reservation
<1> HIDE DEF Slept
<1>6. DOMAIN chain' = 1..n /\ \A i \in 1..n : chain'[i] = Slept(i)
  BY <1>1, <1>2
<1>7. chain' \in Seq(Reservation)
  <2>1. chain' \in [1..n -> Reservation]
    BY <1>1, <1>2, <1>5
  <2> HIDE DEF Reservation
  <2> QED BY <1>2, <2>1
<1>8. quiet' \in 0..Delay
  BY <1>1 DEF LimiterTypes
<1>9. LimiterTypes'
  BY <1>1, <1>7, <1>8 DEF LimiterTypes
<1>10. Queued'
  BY <1>1, <1>2, <1>5, <1>6 DEF Queued
<1>11. SleepsAhead'
  <2> SUFFICES ASSUME NEW i \in 1..n, chain[i].throttled
               PROVE  IF i = 1 THEN Slept(i).wait + quiet' >= Delay ELSE Slept(i).wait = Delay
    BY <1>5, <1>6 DEF SleepsAhead
  <2>1. IF i = 1 THEN chain[i].wait + quiet >= Delay ELSE chain[i].wait = Delay
    BY <1>2 DEF SleepsAhead
  <2>2. chain[i].wait \in Nat /\ (i = 1 => chain[i].wait # 0)
    BY <1>2, <1>3, <1>4 DEF Reservation
  <2> QED BY <1>1, <1>5, <2>1, <2>2 DEF LimiterTypes
<1> QED BY <1>9, <1>10, <1>11

LEMMA LimiterKeeps == LimiterInv /\ [LimiterNext]_limiterVars => LimiterInv'
<1> USE DelayAssumption
<1> SUFFICES ASSUME LimiterInv, [LimiterNext]_limiterVars PROVE LimiterInv'
  OBVIOUS
<1>1. CASE LetGo
  BY <1>1, LetGoKeeps
<1>2. CASE LimiterTick
  BY <1>2, TickKeeps
<1>3. ASSUME NEW c \in Calls, Reserve(c) PROVE LimiterInv'
  BY <1>3, ReserveKeeps
<1>4. ASSUME NEW c \in Calls, Answered(c) \/ Fails(c) PROVE LimiterInv'
  BY <1>4, AnswersKeep DEF Answered, Fails
<1>5. CASE UNCHANGED limiterVars
  BY <1>5 DEF limiterVars, LimiterInv, LimiterTypes, Queued, SleepsAhead
<1> QED BY <1>1, <1>2, <1>3, <1>4, <1>5 DEF LimiterNext, Passage

\* A request is sent only from the head of the chain, when it has slept.
SpacedStep ==
  \A c \in Calls :
    requests[c] = "waiting" /\ requests'[c] = "sent"
      => \A i \in DOMAIN chain : chain[i].call = c /\ chain[i].throttled => quiet = Delay

LEMMA SpacedByStep ==
  ASSUME LimiterInv, [LimiterNext]_limiterVars
  PROVE  SpacedStep
<1> USE DelayAssumption
<1> SUFFICES ASSUME NEW c \in Calls, requests[c] = "waiting", requests'[c] = "sent",
                    NEW i \in DOMAIN chain, chain[i].call = c, chain[i].throttled
             PROVE  quiet = Delay
  BY DEF SpacedStep
<1> USE DEF LimiterInv, LimiterTypes
<1>1. LetGo
  <2>1. ASSUME NEW d \in Calls, Reserve(d) PROVE FALSE
    BY <2>1 DEF Reserve
  <2>2. ASSUME NEW d \in Calls, Answered(d) \/ Fails(d) PROVE FALSE
    BY <2>2 DEF Answered, Fails
  <2>3. ~LimiterTick /\ requests' # requests
    BY DEF LimiterTick
  <2> QED BY <2>1, <2>2, <2>3 DEF LimiterNext, Passage, limiterVars
<1>2. /\ chain # <<>> /\ Head(chain).wait = 0 /\ Head(chain) = chain[1] /\ 1 \in DOMAIN chain
      /\ requests' = [requests EXCEPT ![Head(chain).call] = "sent"]
  BY <1>1 DEF LetGo, Due
<1>3. chain[1].call = c
  BY <1>2
<1>4. i = 1
  BY <1>2, <1>3 DEF Queued
<1>5. chain[1].wait + quiet >= Delay
  BY <1>2, <1>4 DEF SleepsAhead
<1> QED BY <1>2, <1>5

\* A throttled request goes out at least Delay after the request before it,
\* whatever the delay, however many reserve and whatever the headers say
\* (reserve).
THEOREM Spacing == LimiterSpec => ThrottledSpaced
<1> USE DelayAssumption
<1>1. LimiterInit => LimiterInv
  BY DEF LimiterInit, LimiterInv, LimiterTypes, Queued, SleepsAhead
<1>2. LimiterInv /\ [LimiterNext]_limiterVars => [SpacedStep]_limiterVars
  BY SpacedByStep
<1> QED BY <1>1, <1>2, LimiterKeeps, PTL
  DEF LimiterSpec, ThrottledSpaced, SpacedStep
=============================================================================
