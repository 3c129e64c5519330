-------------------------- MODULE MCProviderStream --------------------------
(***************************************************************************)
(* ProviderStream and RateLimiter for TLC: two agents that share the       *)
(* breaker of one endpoint, of either provider, and three requests that    *)
(* share a limiter.  They meet in a wait only, so a behaviour is one of a  *)
(* single part.  The cfg keeps one fault of each kind the adapters tell    *)
(* apart, and a quota of 20 that may be low (1), just not low (2) or none. *)
(***************************************************************************)
EXTENDS ProviderStream, RateLimiter

VARIABLE part
partVars == <<part, vars, limiterVars>>

PartsInit ==
  /\ part \in {"requests", "limiter"}
  /\ Init /\ (part # "requests" => provider = "openai")
  /\ LimiterInit

Only(own) ==
  /\ part' = part /\ part = own
  /\ own # "requests" => UNCHANGED vars
  /\ own # "limiter" => UNCHANGED limiterVars

PartsNext ==
  \/ Only("requests") /\ Next
  \/ Only("limiter") /\ LimiterNext

\* The requests are alike: what is promised, and asked of the scheduling, is of one.
Promised == CHOOSE r \in Requests : TRUE
PartsSpec ==
  /\ PartsInit /\ [][PartsNext]_partVars
  /\ WF_partVars(\/ Only("requests") /\ Progress(Promised)
                 \/ Only("limiter") /\ Passage)

\* A request that was let through ends (RequestEnds), and a reservation is let
\* go (ReservationEnds).
WaitsEnd ==
  (stage[Promised] = "ready" \/ requests["k"] = "waiting")
    ~> (IF part = "requests" THEN stage[Promised] \in Final ELSE requests["k"] = "sent")
=============================================================================
