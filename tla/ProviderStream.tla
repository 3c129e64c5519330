--------------------------- MODULE ProviderStream ---------------------------
(***************************************************************************)
(* One endpoint of a provider, as its adapter uses it: streamResponses     *)
(* (packages/provider-openai/src/adapter.ts) and streamMessages            *)
(* (packages/provider-anthropic/src/adapter.ts), with the retry policy and *)
(* the circuit breaker of packages/core/src/retry.                         *)
(*                                                                         *)
(* A request asks the breaker once, then sends the HTTP request up to      *)
(* MaxRetries + 1 times.  The subagents of a run share the breaker:        *)
(* requests run side by side.                                              *)
(*                                                                         *)
(* Waits (the rate limiter, the backoff) are stages of any length; time is *)
(* a clock the breaker reads.  The parts of a response are left out.       *)
(***************************************************************************)
EXTENDS Integers, Sequences, FiniteSets

CONSTANTS
  Requests,
  Providers,   \* "openai", "anthropic": whose endpoint it may be
  MaxRetries,  \* retry.maxRetries
  Threshold, Window, OpenFor,  \* failureThreshold, windowMs, openDurationMs
  Faults,      \* what may go wrong, of Failures, and "abort"
  MaxTime      \* bound: the clock

\* "busy" and "refused": a status the policy retries, and one it does not;
\* "strict": Anthropic's 400 for a manifest too large in strict mode; "error"
\* and "fatal": an error event in the stream, transient or not; "end": the
\* stream stops before its done event; "stall": the idle watchdog fires on a
\* silent stream, "hang": it fires before there is a stream, which only makes
\* fetch throw; "drop": fetch or the body throws.
Failures == {"busy", "refused", "strict", "error", "fatal", "end", "stall", "hang", "drop"}

ASSUME LimitsAssumption ==
  /\ MaxRetries \in Nat /\ Threshold \in Nat \ {0} /\ Window \in Nat /\ OpenFor \in Nat \ {0}
  /\ MaxTime \in Nat
ASSUME KindsAssumption ==
  /\ Providers \subseteq {"openai", "anthropic"}
  /\ Faults \subseteq Failures \cup {"abort"}

VARIABLES
  provider, \* which adapter
  clock,
  state, openedAt, failures,  \* EndpointState of the breaker; a failure is
            \* its time, and its place in the log, which tells it from others
  stage,    \* where each request is
  attempt,
  strict,   \* currentStrict
  cause,    \* why the request failed the last time
  aborted,  \* opts.signal
  log       \* what happened at the endpoint, and when

breaker == <<state, openedAt, failures>>
vars == <<provider, clock, breaker, stage, attempt, strict, cause, aborted, log>>

Stages == {"new", "ready", "sent", "streaming", "backoff", "done", "failed", "refused"}
Final == {"done", "failed", "refused"}
Entry == [what : {"admit", "success", "failure"}, at : 0..MaxTime]

\* classify: a connection error is retried only when it is tagged transient.
Transient == {"busy", "error", "end", "stall"}

Move(r, to) == stage' = [stage EXCEPT ![r] = to]
Note(what) == log' = Append(log, [what |-> what, at |-> clock])

(***************************************************************************)
(* The circuit breaker.                                                    *)
(***************************************************************************)
Refusing == state = "open" /\ clock - openedAt < OpenFor

\* Mutated RecordSuccess: old failures still count after a success.
RecordSuccessKeepingFailures ==
  state' = "closed" /\ openedAt' = 0 /\ UNCHANGED failures

RecordSuccess ==
  state' = "closed" /\ openedAt' = 0 /\ failures' = {}

\* Mutated Trips: a circuit that is open is not opened again.
TripsOnce(recent) == Cardinality(recent) >= Threshold /\ state = "closed"
Trips(recent) == Cardinality(recent) >= Threshold

RecordFailure ==
  /\ failures' = {f \in failures \cup {[n |-> Len(log) + 1, at |-> clock]} :
                    f.at >= clock - Window}
  /\ IF Trips(failures')
     THEN state' = "open" /\ openedAt' = clock
     ELSE UNCHANGED <<state, openedAt>>

-----------------------------------------------------------------------------
Init ==
  /\ provider \in Providers
  /\ clock = 0 /\ state = "closed" /\ openedAt = 0 /\ failures = {}
  /\ stage = [r \in Requests |-> "new"]
  /\ attempt = [r \in Requests |-> 0]
  /\ strict = [r \in Requests |-> TRUE]
  /\ cause = [r \in Requests |-> "none"]
  /\ aborted = {} /\ log = <<>>

\* beforeCall: an open circuit refuses, or is tried again when it is due.
BeforeCall(r) ==
  /\ stage[r] = "new"
  /\ IF Refusing
     THEN Move(r, "refused") /\ UNCHANGED <<state, log>>
     ELSE /\ state' = IF state = "open" THEN "half_open" ELSE state
          /\ Move(r, "ready") /\ Note("admit")
  /\ UNCHANGED <<provider, clock, openedAt, failures, attempt, strict, cause, aborted>>

\* The top of the loop: a signal that has fired, or the HTTP request.
Send(r) ==
  /\ stage[r] = "ready"
  /\ IF r \in aborted
     THEN Move(r, "failed") /\ cause' = [cause EXCEPT ![r] = "abort"]
     ELSE Move(r, "sent") /\ UNCHANGED cause
  /\ UNCHANGED <<provider, clock, breaker, attempt, strict, aborted, log>>

Respond(r) ==
  /\ stage[r] = "sent"
  /\ Move(r, "streaming")
  /\ UNCHANGED <<provider, clock, breaker, attempt, strict, cause, aborted, log>>

DoneEvent(r) ==
  /\ stage[r] = "streaming"
  /\ Move(r, "done")
  /\ RecordSuccess /\ Note("success")
  /\ UNCHANGED <<provider, clock, attempt, strict, cause, aborted>>

(***************************************************************************)
(* An attempt fails.  Every failure counts for the breaker, whatever it    *)
(* is; a transient one is tried again until the retries are used up.       *)
(***************************************************************************)
\* Mutated MayRetry: off by one.
OneRetryLess(r, why) == why \in Transient /\ attempt[r] + 1 < MaxRetries
MayRetry(r, why) == why \in Transient /\ attempt[r] < MaxRetries

Fail(r, why) ==
  /\ cause' = [cause EXCEPT ![r] = why]
  /\ RecordFailure /\ Note("failure")
  /\ IF MayRetry(r, why)
     THEN Move(r, "backoff") /\ attempt' = [attempt EXCEPT ![r] = @ + 1]
     ELSE Move(r, "failed") /\ UNCHANGED attempt
  /\ UNCHANGED <<provider, clock, strict, aborted>>

\* The answer is an error status, or there is none.
RequestFails(r) ==
  /\ stage[r] = "sent"
  /\ \/ \E why \in Faults \cap {"busy", "refused", "hang", "drop"} : Fail(r, why)
     \/ r \in aborted /\ Fail(r, "abort")

\* The stream breaks, or Anthropic reports an error in it, or it is aborted.
StreamFails(r) ==
  /\ stage[r] = "streaming"
  /\ \/ \E why \in Faults \cap {"end", "stall", "drop"} : Fail(r, why)
     \/ provider = "anthropic" /\ \E why \in Faults \cap {"error", "fatal"} : Fail(r, why)
     \/ r \in aborted /\ Fail(r, "abort")

\* The OpenAI adapter yields an error event before it throws.  The turn runner
\* breaks off at the event, and the generator never gets to the throw.
ErrorEvent(r) ==
  /\ stage[r] = "streaming" /\ provider = "openai"
  /\ \E why \in Faults \cap {"error", "fatal"} : cause' = [cause EXCEPT ![r] = why]
  /\ Move(r, "failed")
  /\ UNCHANGED <<provider, clock, breaker, attempt, strict, aborted, log>>

\* Mutated MayRelax: strictFallbackUsed is not looked at.
MayRelaxAgain(r) == TRUE
MayRelax(r) == strict[r]

\* The manifest does not fit in strict mode: once without it, for free.
RelaxStrict(r) ==
  /\ stage[r] = "sent" /\ "strict" \in Faults /\ provider = "anthropic" /\ MayRelax(r)
  /\ strict' = [strict EXCEPT ![r] = FALSE]
  /\ Move(r, "ready")
  /\ UNCHANGED <<provider, clock, breaker, attempt, cause, aborted, log>>

Retry(r) ==
  /\ stage[r] = "backoff"
  /\ Move(r, "ready")
  /\ UNCHANGED <<provider, clock, breaker, attempt, strict, cause, aborted, log>>

Abort(r) ==
  /\ "abort" \in Faults /\ r \notin aborted /\ stage[r] \notin Final
  /\ aborted' = aborted \cup {r}
  /\ UNCHANGED <<provider, clock, breaker, stage, attempt, strict, cause, log>>

Tick ==
  /\ clock < MaxTime
  /\ clock' = clock + 1
  /\ UNCHANGED <<provider, breaker, stage, attempt, strict, cause, aborted, log>>

-----------------------------------------------------------------------------
Progress(r) ==
  \/ Send(r) \/ Respond(r) \/ DoneEvent(r)
  \/ RequestFails(r) \/ StreamFails(r) \/ ErrorEvent(r) \/ RelaxStrict(r) \/ Retry(r)

Next == Tick \/ \E r \in Requests : BeforeCall(r) \/ Progress(r) \/ Abort(r)

\* A request in flight gets on: the watchdog bounds every wait for the server,
\* and the waits of the policy and the limiter are timers.
Spec == Init /\ [][Next]_vars /\ \A r \in Requests : WF_vars(Progress(r))

-----------------------------------------------------------------------------
TypeOK ==
  /\ provider \in Providers /\ clock \in 0..MaxTime
  /\ state \in {"closed", "open", "half_open"} /\ openedAt \in 0..clock
  /\ failures \subseteq [n : DOMAIN log, at : 0..clock]
  /\ stage \in [Requests -> Stages] /\ attempt \in [Requests -> 0..MaxRetries]
  /\ strict \in [Requests -> BOOLEAN]
  /\ cause \in [Requests -> Failures \cup {"none", "abort"}]
  /\ aborted \subseteq Requests /\ log \in Seq(Entry)

(***************************************************************************)
(* The breaker, told from what happened at the endpoint.                   *)
(***************************************************************************)
\* Failures since the last success that were recent when entry i was made.
Recent(i) ==
  {j \in 1..i : /\ log[j].what = "failure" /\ log[j].at >= log[i].at - Window
                /\ \A k \in j..i : log[k].what # "success"}
Tripping(i) == log[i].what = "failure" /\ Cardinality(Recent(i)) >= Threshold

\* A request is let through only when the circuit is not held open: every
\* failure that tripped it was OpenFor ago, or a request has succeeded since.
\* What requests in their retries do to the breaker meanwhile counts too.
NoCallWhileOpen ==
  \A i \in DOMAIN log : log[i].what = "admit" =>
    \A j \in 1..i : Tripping(j) =>
      \/ log[i].at - log[j].at >= OpenFor
      \/ \E k \in j..i : log[k].what = "success"

\* The circuit opens only on Threshold failures within the window, none of
\* them before a success, and a success of any request closes it.
OpenEarned ==
  state = "open" =>
    \E i \in DOMAIN log : Tripping(i) /\ \A k \in i..Len(log) : log[k].what # "success"

\* A request whose last failure was transient has used all its retries; but
\* an error event of OpenAI's never gets as far as the retry policy.
TransientRetried ==
  \A r \in Requests :
    stage[r] = "failed" /\ cause[r] \in Transient =>
      attempt[r] = MaxRetries \/ (provider = "openai" /\ cause[r] = "error")

\* A request that was let through ends, whatever the server does.
RequestEnds == \A r \in Requests : (stage[r] = "ready") ~> (stage[r] \in Final)
=============================================================================
