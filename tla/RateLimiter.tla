---------------------------- MODULE RateLimiter ----------------------------
(***************************************************************************)
(* The rate limiter of packages/core/src/retry, for one provider: the      *)
(* requests of a process reserve before they are sent, and learn from the  *)
(* headers of a response how much of the quota is left.  When it is low,   *)
(* a reservation sleeps before its request goes out, behind every earlier  *)
(* reservation: the chain of promises is the sequence of the reservations  *)
(* not let go yet.                                                         *)
(***************************************************************************)
EXTENDS Naturals, Sequences

CONSTANTS
  Calls,       \* requests under way at once
  Delay,       \* throttleDelayMs
  Limits, Remainders,  \* what the headers may say
  NotSeen

ASSUME DelayAssumption == Delay \in Nat

VARIABLES
  bucket,     \* BucketSnapshot: limit and remaining
  chain,      \* [call, throttled, wait]: wait is what is left of its sleep
  requests,   \* "idle", "waiting", "sent"
  quiet       \* time since the last request went out, up to Delay

limiterVars == <<bucket, chain, requests, quiet>>

LimiterInit ==
  /\ bucket = [limit |-> NotSeen, remaining |-> NotSeen]
  /\ chain = <<>>
  /\ requests = [c \in Calls |-> "idle"]
  /\ quiet = Delay

\* remaining / limit < throttleBelow, a tenth.
NeedsThrottle ==
  /\ bucket.limit # NotSeen /\ bucket.remaining # NotSeen
  /\ bucket.limit > 0 /\ 10 * bucket.remaining < bucket.limit
----------------------------------------------------------------------------
\* A request, or one more attempt of it; its signal is not looked at.
Reserve(c) ==
  /\ requests[c] = "idle"
  /\ requests' = [requests EXCEPT ![c] = "waiting"]
  /\ chain' = Append(chain, [call |-> c, throttled |-> NeedsThrottle,
                             wait |-> IF NeedsThrottle THEN Delay ELSE 0])
  /\ UNCHANGED <<bucket, quiet>>

\* The oldest reservation is through its sleep: the request is sent.
Due == chain # <<>> /\ Head(chain).wait = 0
LetGo ==
  /\ Due
  /\ requests' = [requests EXCEPT ![Head(chain).call] = "sent"]
  /\ chain' = Tail(chain) /\ quiet' = 0
  /\ UNCHANGED bucket

\* Mutant: a sleep that is not chained to the one before.
AllSleep == DOMAIN chain
\* prevChain.then(sleep): a sleep begins when what is before it is over.
Sleeping == {1}

\* Time passes once everything that is due has been done.
LimiterTick ==
  /\ ~Due
  /\ chain' = [i \in DOMAIN chain |->
                 IF i \in Sleeping /\ chain[i].wait > 0
                 THEN [chain[i] EXCEPT !.wait = @ - 1] ELSE chain[i]]
  /\ quiet' = IF quiet < Delay THEN quiet + 1 ELSE quiet
  /\ UNCHANGED <<bucket, requests>>

\* updateFromHeaders: what the headers do not tell stays as it was, and a
\* response that comes late counts as the latest.
Merged(seen) ==
  [k \in DOMAIN bucket |-> IF seen[k] # NotSeen THEN seen[k] ELSE bucket[k]]

Answered(c) ==
  /\ requests[c] = "sent"
  /\ requests' = [requests EXCEPT ![c] = "idle"]
  /\ \E l \in Limits \cup {NotSeen}, m \in Remainders \cup {NotSeen} :
       bucket' = Merged([limit |-> l, remaining |-> m])
  /\ UNCHANGED <<chain, quiet>>

\* fetch throws: there are no headers.
Fails(c) ==
  /\ requests[c] = "sent"
  /\ requests' = [requests EXCEPT ![c] = "idle"]
  /\ UNCHANGED <<bucket, chain, quiet>>

Passage == LetGo \/ LimiterTick
LimiterNext == Passage \/ \E c \in Calls : Reserve(c) \/ Answered(c) \/ Fails(c)

LimiterSpec == LimiterInit /\ [][LimiterNext]_limiterVars /\ WF_limiterVars(Passage)
----------------------------------------------------------------------------
\* A throttled request goes out at least Delay after the request before it,
\* however many reserve at once and in whatever order they are answered: the
\* waits are serialized, the calls are not (reserve).
ThrottledSpaced ==
  [][\A c \in Calls :
       requests[c] = "waiting" /\ requests'[c] = "sent"
         => \A i \in DOMAIN chain : chain[i].call = c /\ chain[i].throttled => quiet = Delay
    ]_limiterVars

\* Every reservation is let go: the chain is one of timers (reserve).
ReservationEnds == \A c \in Calls : (requests[c] = "waiting") ~> (requests[c] = "sent")
=============================================================================
