----------------------------- MODULE WebSearch -----------------------------
(***************************************************************************)
(* The two network tools: web_search with the cache of the process, the    *)
(* late AI overview of SerpAPI and the contamination filter of benchmarks, *)
(* and fetch_url.  Calls of a batch run side by side; a server may answer  *)
(* late, wrongly or never.                                                 *)
(*                                                                         *)
(* A bundle is a set of items [part, denied]: denied when the blocklist    *)
(* names its site, title, text or task.                                    *)
(***************************************************************************)
EXTENDS Naturals, FiniteSets

CONSTANTS
  Queries,
  Calls,      \* tool calls under way at once
  MaxItems,   \* bound on the items of a payload
  None

VARIABLES
  mode,    \* [provider, benchmark] of the factory, set when the command starts
  cache,   \* the bundle kept for a query, per process
  calls

webVars == <<mode, cache, calls>>

Parts == {"results", "aiOverview", "answerBox", "knowledgeGraph", "peopleAlsoAsk",
          "relatedQueries"}
Items == [part : Parts, denied : BOOLEAN]
Overview == {i \in Items : i.part = "aiOverview"}

Idle == [op |-> "none", at |-> "idle", query |-> None, overview |-> FALSE, bundle |-> {},
         ok |-> FALSE]

WebInit ==
  /\ mode \in [provider : {"serper", "serpapi"}, benchmark : BOOLEAN]
  /\ cache = [q \in Queries |-> None]
  /\ calls = [c \in Calls |-> Idle]

Update(c, r) == calls' = [calls EXCEPT ![c] = r]
Waiting(c) == calls[c].at \in {"searching", "redeeming", "fetching"}
Answered(r, ok, bundle) == [r EXCEPT !.at = "answered", !.ok = ok, !.bundle = bundle]
----------------------------------------------------------------------------
\* normalizeSerper and normalizeSerpApi: the latter knows no related queries.
Normalized(raw) ==
  {i \in raw : mode.provider = "serpapi" => i.part # "relatedQueries"}

\* Mutant: the results are filtered, what comes beside them is not.
CleanResults(bundle) == {i \in bundle : i.part = "results" => ~i.denied}
\* applyContaminationBlocklist and filterAuxiliaryContamination.
Clean(bundle) == {i \in bundle : ~i.denied}

Kept(bundle) == IF mode.benchmark THEN Clean(bundle) ELSE bundle

\* The end of runSearch: filter, remember, render.
Finish(c, bundle) ==
  /\ Update(c, Answered(calls[c], TRUE, Kept(bundle)))
  /\ cache' = [cache EXCEPT ![calls[c].query] = Kept(bundle)]

\* web_search; the key of the cache is the query alone.
Search(c, q) ==
  /\ calls[c].at = "idle"
  /\ \E overview \in BOOLEAN :
       LET r == [Idle EXCEPT !.op = "web_search", !.query = q, !.overview = overview] IN
       Update(c, IF cache[q] # None THEN Answered(r, TRUE, cache[q])
                 ELSE [r EXCEPT !.at = "searching"])
  /\ UNCHANGED <<mode, cache>>

\* The provider answers; SerpAPI may hold its overview back behind a token.
Found(c) ==
  /\ calls[c].at = "searching"
  /\ \E raw \in {s \in SUBSET Items : Cardinality(s) <= MaxItems}, token \in BOOLEAN :
       LET bundle == Normalized(raw)
           late == /\ mode.provider = "serpapi" /\ calls[c].overview /\ token
                   /\ bundle \cap Overview = {}
       IN
       IF late THEN /\ Update(c, [calls[c] EXCEPT !.at = "redeeming", !.bundle = bundle])
                    /\ UNCHANGED cache
       ELSE Finish(c, bundle)
  /\ UNCHANGED mode

\* ctx.provider.aiOverview: its text, or nothing.
Redeemed(c) ==
  /\ calls[c].at = "redeeming"
  /\ \E text \in {{}} \cup {{i} : i \in Overview} : Finish(c, calls[c].bundle \cup text)
  /\ UNCHANGED mode
----------------------------------------------------------------------------
\* fetch_url; a call it cannot make sense of is answered at once.
FetchUrl(c) ==
  /\ calls[c].at = "idle"
  /\ \E method \in {"GET", "HEAD"}, fits \in BOOLEAN :
       LET r == [Idle EXCEPT !.op = method] IN
       Update(c, IF fits THEN [r EXCEPT !.at = "fetching"] ELSE Answered(r, FALSE, {}))
  /\ UNCHANGED <<mode, cache>>

\* fetchAndExtract, or the status of a HEAD: "failed" and "blocked" are errors.
Fetched(c) ==
  /\ calls[c].at = "fetching"
  /\ \E ok \in BOOLEAN : Update(c, Answered(calls[c], ok, {}))
  /\ UNCHANGED <<mode, cache>>

\* A request fails: nothing is remembered.  A lost overview is done without.
RequestFails(c) ==
  /\ Waiting(c)
  /\ IF calls[c].at = "redeeming" THEN Finish(c, calls[c].bundle)
     ELSE Update(c, Answered(calls[c], FALSE, {})) /\ UNCHANGED cache
  /\ UNCHANGED mode

\* linkSignals joins a timer to every request but a HEAD.
Timed(op) == op \in {"web_search", "GET"}

Timeout(c) == Timed(calls[c].op) /\ RequestFails(c)

\* The model has the result, and may call again.
Taken(c) ==
  /\ calls[c].at = "answered"
  /\ Update(c, Idle)
  /\ UNCHANGED <<mode, cache>>

WebNext ==
  \E c \in Calls :
    \/ \E q \in Queries : Search(c, q)
    \/ Found(c) \/ Redeemed(c) \/ FetchUrl(c) \/ Fetched(c)
    \/ RequestFails(c) \/ Timeout(c) \/ Taken(c)

WebSpec == WebInit /\ [][WebNext]_webVars
----------------------------------------------------------------------------
\* In a benchmark nothing the blocklist denies reaches the model or is kept for
\* a later question, in whatever part of the answer, from whichever provider and
\* however late it came (runSearch filters after the overview is redeemed).
NothingDenied ==
  mode.benchmark =>
    /\ \A c \in Calls : calls[c].at = "answered" => \A i \in calls[c].bundle : ~i.denied
    /\ \A q \in Queries : cache[q] # None => \A i \in cache[q] : ~i.denied

\* A search or a GET is over some time, whatever the server does: the timers are
\* all that can be relied on (linkSignals, fetchAndExtract).
NetworkEnds == \A c \in Calls : (Waiting(c) /\ calls[c].op # "HEAD") ~> ~Waiting(c)
=============================================================================
