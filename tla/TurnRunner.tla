----------------------------- MODULE TurnRunner -----------------------------
(***************************************************************************)
(* runAgenticTurns (packages/runtime/src/turn-runner.ts): one run of the   *)
(* agent loop.  Each turn sends a request to the provider, stores the      *)
(* answer, executes the tool calls it asks for and appends their results,  *)
(* until the model stops calling tools or a limit is hit.                  *)
(*                                                                         *)
(* The provider keeps context between requests: a continuation handle      *)
(* stands for everything it has seen, and the runner then sends only the   *)
(* items after "delivered" (lastModelCallEndIndex).  When a resume fails   *)
(* the runner falls back from the handle to its conversation, and from     *)
(* that to a replay of the local history.                                  *)
(*                                                                         *)
(* A step of the model is what happens between two awaits.  An item of the *)
(* history is its kind and a number that no other item has.                *)
(***************************************************************************)
EXTENDS Integers, Sequences, FiniteSets

CONSTANTS
  Tools,          \* tools offered to the model
  Serial,         \* those whose kind is not "function": they may mutate
  PatchTool,      \* apply_patch
  Providers,      \* the presets' providers: "openai", "anthropic"
  Convs,          \* OpenAI conversation ids the server can hand out
  None,           \* null: no handle, no conversation, no request
  Benchmark,      \* benchmarkMode
  MaxTurns, MaxStrikes,
  SuppressAfter,  \* badArgsPolicy: failures before a tool is suppressed
  OnlyEmpty,      \* badArgsPolicy: suppress for empty arguments only (Opus)
  WebSearch, SearchLimit,    \* search advice: the tool and its threshold
  Faults,         \* streams: "error" event, "throw", "cut" short; "abort"; "crash"
  Feedbacks,      \* what onMutationBatch can say: "none", "message", "stop"
  Returns,        \* what an executed tool can return
  MaxRounds,      \* bound: turns of a run in which the model calls tools
  MaxCalls        \* bound: tool calls in one answer

ASSUME ToolsAssumption == Serial \subseteq Tools
ASSUME LimitsAssumption ==
  /\ MaxTurns \in Nat /\ MaxStrikes \in Nat \ {0} /\ SuppressAfter \in Nat \ {0}
  /\ SearchLimit \in Nat /\ MaxRounds \in Nat /\ MaxCalls \in Nat
ASSUME ModesAssumption ==
  /\ Benchmark \in BOOLEAN /\ OnlyEmpty \in BOOLEAN
  /\ Providers \subseteq {"openai", "anthropic"}
  /\ "none" \in Feedbacks /\ Feedbacks \subseteq {"none", "message", "stop"}
  /\ Returns \subseteq {"ok", "error", "denied", "empty", "schema", "patch"}

VARIABLES
  history,     \* the run's history
  seeded,      \* how many of its items were there when the run began
  handle,      \* providerHandle
  delivered,   \* lastModelCallEndIndex
  provider,    \* of the preset in use
  conv,        \* requestOptions.conversationId
  convs,       \* what the server holds in each conversation
  turnsRun, strikes, force, \* turnsRun, hallucinationStrikes, forceToolChoiceNext
  suppressed,  \* toolsSuppressedForNextTurn
  badArgs,     \* badArgsState.byTool: signature and count, or None
  patchFails,  \* patchRecovery.failureCount of the one path patches fail on
  searches,    \* searchGuard: web_search calls, and whether it advised
  log,         \* toolCalls: every call with the status of its result and its turn
  request,     \* the request the provider is answering
  reply,       \* the answer being processed: its tool calls, or how it reads
  feedback,    \* what onMutationBatch returned for this batch
  pc, reason,  \* where the run is; terminationReason
  aborted,     \* options.abort has fired
  rollout,     \* items and handles the session store has, in order
  made         \* history items numbered so far

runVars == <<history, seeded, handle, delivered, turnsRun, strikes, force, suppressed, badArgs,
             patchFails, searches, log, request, reply, feedback, pc, reason, aborted>>
vars == <<runVars, provider, conv, convs, rollout, made>>
\* The counters a turn leaves alone unless it executes tools.
guards == <<suppressed, badArgs, patchFails, searches, log>>

(***************************************************************************)
(* Values.                                                                 *)
(***************************************************************************)
ItemKinds == {"user", "calls", "text", "results", "feedback", "recovery", "advice", "nudge"}
Item == [kind : ItemKinds, n : Nat]
Handle == [kind : {"response", "conversation", "compacted", "messages"},
           conv : Convs \cup {None}, covers : Seq(Item)]
ASSUME NoneAssumption == None \notin Handle
Signatures == {"empty", "schema"}
Statuses == Signatures \cup {"ok", "error", "denied", "patch", "unavailable"}
Call == [tool : Tools, status : Statuses]
\* An answer without calls is "prose" that only talks about acting, or "final".
Prose == {"prose", "final"}
Reply == [text : Prose \cup {"none"}, calls : Seq([tool : Tools, status : Statuses \cup {"asked"}])]
NoReply == [text |-> "none", calls |-> <<>>]
Logged == [tool : Tools, status : Statuses, turn : Nat]
Reasons == {"end_turn", "max_turns", "abort", "stream_error", "validation_success",
            "hallucinated_tool_loop", "thrown"}
Stages == {"idle", "loop", "request", "assistant", "reply", "results", "feedback",
           "recovery", "advice", "done"}

NewItem(kind) == [kind |-> kind, n |-> made + 1]
ItemLine(item) == [type |-> "item", item |-> item]
HandleLine(h) == [type |-> "handle", handle |-> h]
\* The items on file, line by line.
AfterLine(items, line) == IF line.type = "item" THEN Append(items, line.item) ELSE items
ResponseItems(lines) ==
  LET read[n \in 0..Len(lines)] == IF n = 0 THEN <<>> ELSE AfterLine(read[n - 1], lines[n])
  IN  read[Len(lines)]

(***************************************************************************)
(* The provider, from how the adapters use it.  A conversation holds what  *)
(* was sent under it and what it answered; a response or a messages handle *)
(* without one stands for the context of the request that produced it.  A  *)
(* request that fails leaves no trace.                                     *)
(***************************************************************************)
ConvUsed(h) == IF provider # "openai" THEN None ELSE IF h = None THEN conv ELSE h.conv
ConvContent(h) == IF ConvUsed(h) = None THEN <<>> ELSE convs[ConvUsed(h)]
Context(h) ==
  IF h = None \/ h.kind = "conversation" THEN ConvContent(h)
  ELSE IF h.kind = "compacted" THEN ConvContent(h) \o h.covers
  ELSE IF h.conv # None THEN ConvContent(h)
  ELSE h.covers

\* An adapter resumes its own handles only, and throws on the other's.
Resumable(h) == h # None => (h.kind = "messages") = (provider = "anthropic")

\* What the model sees of a request, once it reaches the model.
Seen(r) == Context(r.handle) \o r.messages

\* The messages of the next request: everything, or what the handle does not
\* stand for.
Pending == IF handle = None THEN history ELSE SubSeq(history, delivered + 1, Len(history))

NewHandle(r, seen) ==
  [kind   |-> IF provider = "openai" THEN "response" ELSE "messages",
   conv   |-> ConvUsed(r.handle),
   covers |-> seen]

\* conversationFallbackFor
ConversationFallback(h) ==
  IF h.kind \in {"response", "compacted"} /\ h.conv # None
  THEN [kind |-> "conversation", conv |-> h.conv, covers |-> <<>>]
  ELSE None

(***************************************************************************)
(* Bad-arguments bookkeeping of one batch, call by call.                   *)
(***************************************************************************)
\* recordBadArgsFailure: consecutive failures with one signature.
Recorded(entry, status) ==
  IF entry # None /\ entry.signature = status
  THEN [entry EXCEPT !.count = @ + 1]
  ELSE [signature |-> status, count |-> 1]

MaySuppress(entry) ==
  /\ entry.count >= SuppressAfter
  /\ OnlyEmpty => entry.signature = "empty"
  /\ Cardinality(Tools) > 1

AfterFailure(state, call) ==
  LET entry == Recorded(state.badArgs[call.tool], call.status) IN
  [badArgs    |-> [state.badArgs EXCEPT ![call.tool] = entry],
   suppressed |-> IF MaySuppress(entry) THEN state.suppressed \cup {call.tool}
                                        ELSE state.suppressed]

AfterRefusal(state, call) ==
  IF request.active = {} THEN state ELSE [state EXCEPT !.suppressed = @ \cup {call.tool}]

AfterCall(state, call) ==
  CASE call.status \in Signatures    -> AfterFailure(state, call)
    [] call.status = "unavailable"   -> AfterRefusal(state, call)
    [] call.status = "ok"            -> [state EXCEPT !.badArgs[call.tool] = None]
    [] OTHER                         -> state

AfterBatch(calls) ==
  LET booked[n \in 0..Len(calls)] ==
        IF n = 0 THEN [badArgs |-> badArgs, suppressed |-> suppressed]
        ELSE AfterCall(booked[n - 1], calls[n])
  IN  booked[Len(calls)]

\* maybeInjectPatchRecovery, for one path that can be read: a success on it
\* clears the count, and the first two failures each inject a read of it.
AfterPatch(state, call) ==
  IF call.tool # PatchTool THEN state
  ELSE IF call.status = "ok" THEN [state EXCEPT !.fails = 0]
  ELSE IF call.status = "patch"
  THEN [fails |-> state.fails + 1, reads |-> state.reads + (IF state.fails < 2 THEN 1 ELSE 0)]
  ELSE state
AfterPatches(calls) ==
  LET counted[n \in 0..Len(calls)] ==
        IF n = 0 THEN [fails |-> patchFails, reads |-> 0]
        ELSE AfterPatch(counted[n - 1], calls[n])
  IN  counted[Len(calls)]

Searched(calls) ==
  Cardinality({i \in DOMAIN calls : calls[i].tool = WebSearch})

\* The results the scheduler can return for a call (executeToolBatch).
Outcomes(tool) ==
  IF tool \notin request.active THEN {"unavailable"}
  ELSE IF tool = PatchTool THEN Returns ELSE Returns \ {"patch"}

\* onMutationBatch is called when a serial tool got past its arguments.
MutationReported(calls) ==
  \E i \in DOMAIN calls :
    calls[i].tool \in Serial /\ calls[i].status \notin Signatures \cup {"unavailable"}

-----------------------------------------------------------------------------
\* The counters of a run that has done nothing yet.
Fresh ==
  /\ turnsRun = 0 /\ strikes = 0 /\ force = FALSE
  /\ suppressed = {} /\ badArgs = [t \in Tools |-> None]
  /\ patchFails = 0 /\ searches = [count |-> 0, advised |-> FALSE] /\ log = <<>>
  /\ request = None /\ reply = NoReply /\ feedback = "none"
  /\ reason = "end_turn" /\ aborted = FALSE

Renewed ==
  /\ turnsRun' = 0 /\ strikes' = 0 /\ force' = FALSE
  /\ suppressed' = {} /\ badArgs' = [t \in Tools |-> None]
  /\ patchFails' = 0 /\ searches' = [count |-> 0, advised |-> FALSE] /\ log' = <<>>
  /\ request' = None /\ reply' = NoReply /\ feedback' = "none"
  /\ reason' = "end_turn" /\ aborted' = FALSE

\* A run over some items; what the handle stands for is clamped to them.
Start(items, h, deliveredLength) ==
  /\ history' = items /\ seeded' = Len(items)
  /\ handle' = h
  /\ delivered' = IF h = None \/ deliveredLength > Len(items) THEN Len(items) ELSE deliveredLength
  /\ pc' = "loop" /\ Renewed

\* No run.
Rest(stage) ==
  /\ history' = <<>> /\ seeded' = 0 /\ handle' = None /\ delivered' = 0
  /\ pc' = stage /\ Renewed

Stop(why) == pc' = "done" /\ reason' = why

\* Mutated Append1: it is not persisted.
Append1Unsaved(item) ==
  history' = Append(history, item) /\ made' = made + 1 /\ UNCHANGED rollout

\* Push an item and persist it.
Append1(item) ==
  /\ history' = Append(history, item)
  /\ rollout' = Append(rollout, ItemLine(item))
  /\ made' = made + 1

(***************************************************************************)
(* The top of the loop.                                                    *)
(***************************************************************************)
StopAtTop ==
  /\ pc = "loop"
  /\ IF aborted THEN Stop("abort") ELSE turnsRun >= MaxTurns /\ Stop("max_turns")
  /\ UNCHANGED <<history, seeded, handle, delivered, turnsRun, strikes, force, guards,
                 request, reply, feedback, aborted, provider, conv, convs, rollout, made>>

\* tool_choice: "required" for the request after a nudge.
Forced == force /\ Tools \ suppressed # {}

SendRequest ==
  /\ pc = "loop" /\ ~aborted /\ turnsRun < MaxTurns
  /\ LET active == Tools \ suppressed
         forced == Forced
     IN /\ request' = [handle   |-> handle,
                       messages |-> Pending,
                       active   |-> active,
                       forced   |-> forced]
        /\ force' = (force /\ ~forced)
  /\ turnsRun' = turnsRun + 1
  /\ suppressed' = {}
  /\ pc' = "request"
  /\ UNCHANGED <<history, seeded, handle, delivered, strikes, badArgs, patchFails, searches, log,
                 reply, feedback, reason, aborted, provider, conv, convs, rollout, made>>

(***************************************************************************)
(* The stream fails: an error event, or an exception (an abort makes the   *)
(* adapter throw).  A resume that fails is tried again one rung lower; a   *)
(* fresh request that fails ends the run.                                  *)
(***************************************************************************)
Throws == "throw" \in Faults \/ aborted

\* The turn of a request that is tried again does not count.
TakenBack == turnsRun - 1

ResumeFails ==
  /\ pc = "request" /\ request.handle # None
  /\ LET fallback == ConversationFallback(request.handle) IN
     /\ handle' = fallback
     /\ delivered' = IF fallback = None THEN 0 ELSE delivered
  /\ turnsRun' = TakenBack
  /\ request' = None
  /\ pc' = "loop"
  /\ \/ (Throws \/ ~Resumable(request.handle)) /\ UNCHANGED reason
     \* an error event leaves its mark, even if the run goes on
     \/ "error" \in Faults /\ Resumable(request.handle) /\ reason' = "stream_error"
  /\ UNCHANGED <<history, seeded, strikes, force, guards, reply, feedback, aborted,
                 provider, conv, convs, rollout, made>>

GenerateFails ==
  /\ pc = "request" /\ request.handle = None
  /\ \/ Throws /\ Stop("thrown")
     \/ "error" \in Faults /\ Stop("stream_error")
  /\ request' = None
  /\ UNCHANGED <<history, seeded, handle, delivered, turnsRun, strikes, force, guards,
                 reply, feedback, aborted, provider, conv, convs, rollout, made>>

\* The stream ends without its done event: no second attempt.
StreamCut ==
  /\ pc = "request" /\ "cut" \in Faults /\ Resumable(request.handle)
  /\ Stop("stream_error")
  /\ request' = None
  /\ UNCHANGED <<history, seeded, handle, delivered, turnsRun, strikes, force, guards,
                 reply, feedback, aborted, provider, conv, convs, rollout, made>>

(***************************************************************************)
(* The stream completes.  The turn_context line with the new handle is     *)
(* written before the assistant item.                                      *)
(***************************************************************************)
Answer(answer) ==
  /\ pc = "request" /\ Resumable(request.handle)
  /\ answer.calls # <<>> => turnsRun <= MaxRounds
  /\ LET item == NewItem(IF answer.calls = <<>> THEN "text" ELSE "calls")
         seen == Append(Seen(request), item)
         new  == NewHandle(request, seen)
     IN /\ history' = Append(history, item)
        /\ handle' = new
        /\ convs' = IF new.conv = None THEN convs ELSE [convs EXCEPT ![new.conv] = seen]
        /\ rollout' = Append(rollout, HandleLine(new))
  /\ made' = made + 1
  /\ reply' = answer
  /\ pc' = "assistant"
  /\ UNCHANGED <<seeded, delivered, turnsRun, strikes, force, guards, request, feedback,
                 reason, aborted, provider, conv>>

\* Mutated StrikesAfter: a tool call does not clear the strikes.
StrikesKept(answer) == strikes

\* A real tool call clears the strikes.
StrikesAfter(answer) == IF answer.calls = <<>> THEN strikes ELSE 0

PersistAssistant ==
  /\ pc = "assistant"
  /\ rollout' = Append(rollout, ItemLine(history[Len(history)]))
  /\ delivered' = Len(history)
  /\ strikes' = StrikesAfter(reply)
  /\ pc' = "reply"
  /\ UNCHANGED <<history, seeded, handle, turnsRun, force, guards, request, reply,
                 feedback, reason, aborted, provider, conv, convs, made>>

(***************************************************************************)
(* No tool call: a nudge in benchmark mode when the text only talks about  *)
(* acting, otherwise the end of the run.  The nudge is not persisted.      *)
(***************************************************************************)

Spent(n) == n >= MaxStrikes

Nudge ==
  /\ pc = "reply" /\ reply.text = "prose" /\ Benchmark
  /\ strikes' = strikes + 1
  /\ IF Spent(strikes')
     THEN Stop("hallucinated_tool_loop") /\ UNCHANGED <<history, force, made>>
     ELSE /\ history' = Append(history, NewItem("nudge"))
          /\ made' = made + 1
          /\ force' = TRUE
          /\ pc' = "loop"
          /\ UNCHANGED reason
  /\ reply' = NoReply /\ request' = None
  /\ UNCHANGED <<seeded, handle, delivered, turnsRun, guards, feedback, aborted,
                 provider, conv, convs, rollout>>

EndTurn ==
  /\ pc = "reply" /\ reply.text \in Prose /\ ~(Benchmark /\ reply.text = "prose")
  /\ Stop("end_turn")
  /\ reply' = NoReply /\ request' = None
  /\ UNCHANGED <<history, seeded, handle, delivered, turnsRun, strikes, force, guards,
                 feedback, aborted, provider, conv, convs, rollout, made>>

(***************************************************************************)
(* Tool calls: the batch runs, its results are booked, then appended.      *)
(***************************************************************************)
RunBatch(calls, fb) ==
  /\ pc = "reply" /\ Len(calls) = Len(reply.calls)
  /\ \A i \in DOMAIN calls :
       calls[i].tool = reply.calls[i].tool /\ calls[i].status \in Outcomes(calls[i].tool)
  /\ fb # "none" => MutationReported(calls)
  /\ log' = log \o [i \in DOMAIN calls |->
                      [tool |-> calls[i].tool, status |-> calls[i].status, turn |-> turnsRun]]
  /\ badArgs' = AfterBatch(calls).badArgs
  /\ suppressed' = AfterBatch(calls).suppressed
  /\ feedback' = fb
  /\ reply' = [reply EXCEPT !.calls = calls]
  /\ request' = None
  /\ pc' = "results"
  /\ UNCHANGED <<history, seeded, handle, delivered, turnsRun, strikes, force, patchFails, searches,
                 reason, aborted, provider, conv, convs, rollout, made>>

AppendResults ==
  /\ pc = "results"
  /\ Append1(NewItem("results"))
  /\ pc' = IF feedback = "none" THEN "recovery" ELSE "feedback"
  /\ UNCHANGED <<seeded, handle, delivered, turnsRun, strikes, force, guards, request, reply,
                 feedback, reason, aborted, provider, conv, convs>>

AppendFeedback ==
  /\ pc = "feedback"
  /\ Append1(NewItem("feedback"))
  /\ IF feedback = "stop" THEN Stop("validation_success") ELSE pc' = "recovery" /\ UNCHANGED reason
  /\ feedback' = "none"
  /\ UNCHANGED <<seeded, handle, delivered, turnsRun, strikes, force, guards, request, reply,
                 aborted, provider, conv, convs>>

\* One item for each failed patch that still gets a read of its file.
AppendRecovery ==
  /\ pc = "recovery"
  /\ LET reads == AfterPatches(reply.calls).reads
         items == [i \in 1..reads |-> [kind |-> "recovery", n |-> made + i]]
     IN /\ history' = history \o items
        /\ rollout' = rollout \o [i \in 1..reads |-> ItemLine(items[i])]
        /\ made' = made + reads
  /\ patchFails' = AfterPatches(reply.calls).fails
  /\ pc' = "advice"
  /\ UNCHANGED <<seeded, handle, delivered, turnsRun, strikes, force, suppressed, badArgs,
                 searches, log, request, reply, feedback, reason, aborted, provider, conv, convs>>

\* maybeBuildSearchAdvice, by the number of searches; once per run.
AppendAdvice ==
  /\ pc = "advice"
  /\ LET count == IF Benchmark THEN searches.count + Searched(reply.calls) ELSE 0
         due   == Benchmark /\ ~searches.advised /\ count >= SearchLimit
     IN /\ searches' = [count |-> count, advised |-> searches.advised \/ due]
        /\ IF due THEN Append1(NewItem("advice")) ELSE UNCHANGED <<history, rollout, made>>
  /\ reply' = NoReply
  /\ pc' = "loop"
  /\ UNCHANGED <<seeded, handle, delivered, turnsRun, strikes, force, suppressed, badArgs,
                 patchFails, log, request, feedback, reason, aborted, provider, conv, convs>>

Abort ==
  /\ "abort" \in Faults /\ ~aborted /\ pc \notin {"idle", "done"}
  /\ aborted' = TRUE
  /\ UNCHANGED <<history, seeded, handle, delivered, turnsRun, strikes, force, guards, request,
                 reply, feedback, pc, reason, provider, conv, convs, rollout, made>>

-----------------------------------------------------------------------------
Answers ==
  [text : Prose, calls : {<<>>}] \cup
  [text : {"none"}, calls : UNION {[1..n -> [tool : Tools, status : {"asked"}]] : n \in 1..MaxCalls}]

RunnerStep ==
  \/ StopAtTop \/ SendRequest
  \/ ResumeFails \/ GenerateFails \/ StreamCut
  \/ \E answer \in Answers : Answer(answer)
  \/ PersistAssistant \/ Nudge \/ EndTurn
  \/ \E n \in 1..MaxCalls, fb \in Feedbacks : \E calls \in [1..n -> Call] : RunBatch(calls, fb)
  \/ AppendResults \/ AppendFeedback \/ AppendRecovery \/ AppendAdvice

\* A run on its own, as the autonomous command starts it: one user message,
\* which the runner persists, and no handle.
Init ==
  /\ provider \in Providers
  /\ conv \in Convs \cup {None} /\ convs = [c \in Convs |-> <<>>]
  /\ history = <<[kind |-> "user", n |-> 1]>> /\ seeded = 1
  /\ rollout = <<ItemLine(history[1])>> /\ made = 1
  /\ handle = None /\ delivered = 1
  /\ pc = "loop" /\ Fresh

Done == pc = "done" /\ UNCHANGED vars
Next == RunnerStep \/ Abort \/ Done

\* The run is one async function: a step it can take is taken, the provider's
\* answer or failure among them (the adapters bound every request in time).
Spec == Init /\ [][Next]_vars /\ WF_vars(RunnerStep)

-----------------------------------------------------------------------------
TypeOK ==
  /\ history \in Seq(Item) /\ seeded \in 0..Len(history)
  /\ handle \in Handle \cup {None} /\ delivered \in 0..Len(history)
  /\ provider \in Providers /\ conv \in Convs \cup {None} /\ convs \in [Convs -> Seq(Item)]
  /\ turnsRun \in 0..MaxTurns /\ strikes \in 0..MaxStrikes /\ force \in BOOLEAN
  /\ suppressed \subseteq Tools
  /\ badArgs \in [Tools -> [signature : Signatures, count : Nat] \cup {None}]
  /\ patchFails \in Nat /\ searches \in [count : Nat, advised : BOOLEAN]
  /\ log \in Seq(Logged)
  /\ request \in [handle : Handle \cup {None}, messages : Seq(Item),
                   active : SUBSET Tools, forced : BOOLEAN] \cup {None}
  /\ reply \in Reply
  /\ feedback \in Feedbacks /\ pc \in Stages /\ reason \in Reasons /\ aborted \in BOOLEAN
  /\ rollout \in Seq([type : {"item"}, item : Item] \cup [type : {"handle"}, handle : Handle])
  /\ made \in Nat

\* The model has a request before it.
Asking == pc = "request" /\ Resumable(request.handle)

\* Whatever a request leaves out, the handle it continues stands for: no item
\* of the history is kept from the model, down the whole fallback ladder.
NothingLost ==
  Asking => \A i \in DOMAIN history : \E j \in DOMAIN Seen(request) : Seen(request)[j] = history[i]

\* Without a server conversation the model sees the history itself, no item
\* twice and in order, whether the request resumes, or replays after a failure.
RequestShowsHistory ==
  Asking /\ conv = None => Seen(request) = history

\* Providers refuse a request in which tool calls are not answered at once by
\* their results; feedback, recovery and advice come after them.  (A replay of
\* the history into a conversation that has part of it may be refused.)
CallsAnswered ==
  Asking /\ ConvUsed(request.handle) = None =>
    LET seen == Seen(request) IN
    \A i \in DOMAIN seen :
      seen[i].kind = "calls" => i < Len(seen) /\ seen[i + 1].kind = "results"

\* The items of a history that go on file.
AfterItem(items, item) == IF item.kind = "nudge" THEN items ELSE Append(items, item)
Filed(items) ==
  LET kept[n \in 0..Len(items)] == IF n = 0 THEN <<>> ELSE AfterItem(kept[n - 1], items[n])
  IN  kept[Len(items)]

\* The session's transcript is the history, item by item, whenever a turn
\* starts, and can stand in for it on a resume: all but the nudges.
TranscriptComplete ==
  pc \in {"loop", "request"} => ResponseItems(rollout) = Filed(history)

\* The history is what the model is shown, where no conversation keeps it, and
\* what goes on file: no item is added to the one and missed in the other.
HistoryTold == TypeOK /\ TranscriptComplete /\ RequestShowsHistory

\* Answers of the model in this run, and the last of them, back to a tool call.
Answered == {i \in seeded + 1..Len(history) : history[i].kind \in {"calls", "text"}}
Talk == {i \in Answered : \A j \in Answered : i <= j => history[j].kind = "text"}

\* A run is given up as a hallucinated tool loop only after MaxStrikes answers
\* in a row without a tool call.
LoopEarned == reason = "hallucinated_tool_loop" => Cardinality(Talk) >= MaxStrikes

\* maxTurns counts the model's answers: requests that failed and were tried
\* again lower down the ladder cost nothing, and no answer is free.
TurnBudget == pc = "loop" => turnsRun = Cardinality(Answered)

\* The request after a nudge forces a tool call, if there is a tool to call;
\* not so the request that replaces it when that resume fails.
ForcedAfterNudge ==
  /\ pc = "request" /\ request.active # {} /\ history[Len(history)].kind = "nudge"
  /\ request.handle # None /\ request.handle.kind # "conversation"
  => request.forced

\* What the calls of a tool tell of its arguments, the calls in a row that fail
\* alike up to one of them, and whether they are reason to hold the tool back:
\* SuppressAfter of them, and no later batch in which the tool worked.
Tried(calls, t) ==
  {i \in DOMAIN calls : calls[i].tool = t /\ calls[i].status \in Signatures \cup {"ok"}}
Row(calls, t, last) ==
  {i \in Tried(calls, t) : i <= last /\ \A j \in Tried(calls, t) :
                             i <= j /\ j <= last => calls[j].status = calls[last].status}
Earns(calls, t, last) ==
  /\ calls[last].status # "ok" /\ Cardinality(Row(calls, t, last)) >= SuppressAfter
  /\ OnlyEmpty => calls[last].status = "empty"
  /\ \A i \in Tried(calls, t) :
       i > last /\ calls[i].status = "ok" => calls[i].turn = calls[last].turn

\* A tool is held back only for SuppressAfter failures in a row with one
\* signature, and not after a later batch in which it worked.
SuppressionEarned ==
  \A t \in suppressed : \E last \in Tried(log, t) : Earns(log, t, last)

\* What a run counts, forces, holds back and gives up is earned by what went
\* before it, over turns and batches.
Earned == LoopEarned /\ SuppressionEarned /\ ForcedAfterNudge /\ TurnBudget

\* Every run ends: answers are bounded by maxTurns, and each failure takes the
\* run one rung down the ladder or stops it.
Terminates == <>(pc = "done")
=============================================================================
