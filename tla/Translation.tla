---------------------------- MODULE Translation ----------------------------
(***************************************************************************)
(* One conversation between the turn loop and a model provider: the server *)
(* streams the blocks of an answer, the provider's event translator turns  *)
(* them into normalized events, the accumulator builds the turn whose      *)
(* calls are executed, and the next request shows the server the           *)
(* conversation again - replayed from the handle (Anthropic), by the id of *)
(* the last response (OpenAI), or rebuilt from the local history.          *)
(*                                                                         *)
(* A part of a message is [type, of, body]: the blocks (or the call) it    *)
(* comes from and what it says of them.                                    *)
(***************************************************************************)
EXTENDS Naturals, FiniteSets, SequencesExt

CONSTANTS
  MaxRequests,  \* requests of a behaviour; the last one is not answered
  MaxBlocks,    \* blocks streamed in a behaviour, broken streams included
  MaxBreaks,    \* streams that break and are retried inside the adapter
  LateBreaks    \* a stream may break after events of it were passed on

VARIABLES
  api,       \* "anthropic" or "openai"
  point,     \* "request", "stream", "tools", "idle"
  talk,      \* the turn loop's messages
  seen,      \* lastModelCallEndIndex
  replay,    \* the replay buffer (Anthropic); <<>> when there is only an id
  resumable, \* a handle is held
  sent,      \* req.messages of the request in flight
  wire,      \* the conversation as the server knows it, items in order
  streamed,  \* blocks of the answer, as the server streams them
  blocks,    \* the translator's map of blocks not yet finished, in order
  parts,     \* the translator's assistantParts
  accum,     \* the StreamAccumulator
  answers,   \* the blocks of every answer that was accepted
  ran,       \* the calls executed, with the arguments they got
  spent      \* requests, blocks and breaks so far

wireVars == <<api, point, talk, seen, replay, resumable, sent, wire,
              streamed, blocks, parts, accum, answers, ran, spent>>

Kinds == {"text", "thinking", "use"}
Part(type, of, body) == [type |-> type, of |-> of, body |-> body]
Msg(role, ps) == [role |-> role, parts |-> ps]
NoTurn == [thinking |-> <<>>, signed |-> FALSE, text |-> <<>>, calls |-> <<>>]

\* What a user message may hold, and what an assistant message may.
UserPart(types) == [type : types, of : Seq(Nat), body : {"said", "asset", "omitted"}]
AssistantPart(types) ==
  [type : types, of : Seq(Nat),
   body : {"said", "signed", "unsigned", "none", "object", "raw"}]

\* A block: how far it has ended is counted for a call of OpenAI.
BlockOf(types, bodies) ==
  [id : Nat, type : types, body : {"empty"} \cup bodies, signed : BOOLEAN, ended : 0..2]
CallBlock == BlockOf({"use"}, {"object", "broken"})

\* The elements of s that are in S, in their order.
Among(s, S) == FlattenSeq([i \in DOMAIN s |-> IF s[i] \in S THEN <<s[i]>> ELSE <<>>])
----------------------------------------------------------------------------
(* The translators. *)

\* What the arguments of a call are taken for: parseToolArgs answers {} for
\* anything that is not an object, the other translator keeps the raw text.
Parsed(b) ==
  CASE b.body = "empty" -> "none"
    [] b.body = "object" -> "object"
    [] b.body = "broken" -> IF api = "anthropic" THEN "none" ELSE "raw"

\* The parts a finished block leaves in the assistant message.
Materialized(b) ==
  CASE b.type = "use" -> <<Part("use", <<b.id>>, Parsed(b))>>
    [] b.type = "thinking" ->
         <<Part("thinking", <<b.id>>, IF b.signed THEN "signed" ELSE "unsigned")>>
    [] b.type = "text" ->
         IF b.body = "empty" THEN <<>> ELSE <<Part("text", <<b.id>>, "said")>>

\* content_block_start, output_item.added: the accumulator hears of calls only.
Started(acc, b) ==
  IF b.type = "use"
  THEN [acc EXCEPT !.calls = Append(@, [id |-> b.id, args |-> "undefined"])]
  ELSE acc

\* Text and thinking reach the accumulator as they arrive.
Heard(acc, b) ==
  CASE b.type = "text" -> [acc EXCEPT !.text = Append(@, b.id)]
    [] b.type = "thinking" -> [acc EXCEPT !.thinking = Append(@, b.id)]
    [] b.type = "use" -> acc

\* A mutant: the arguments go to the call that began last.
EndedLatest(acc, b) ==
  IF b.type = "use" /\ acc.calls # <<>>
  THEN [acc EXCEPT !.calls[Len(acc.calls)].args = Parsed(b)] ELSE acc

\* tool_call_done, or the empty thinking delta that carries the signature.
Ended(acc, b) ==
  CASE b.type = "use" ->
         [acc EXCEPT !.calls = [i \in DOMAIN @ |->
            IF @[i].id = b.id THEN [@[i] EXCEPT !.args = Parsed(b)] ELSE @[i]]]
    [] b.type = "thinking" -> [acc EXCEPT !.signed = @ \/ b.signed]
    [] b.type = "text" -> acc

Given(args) == IF args = "undefined" THEN "none" ELSE args

\* StreamAccumulator.finalize: one thinking part, one text part, then the calls.
Finalized(acc) ==
  (IF acc.thinking = <<>> THEN <<>>
   ELSE <<Part("thinking", acc.thinking, IF acc.signed THEN "signed" ELSE "unsigned")>>)
  \o (IF acc.text = <<>> THEN <<>> ELSE <<Part("text", acc.text, "said")>>)
  \o [i \in DOMAIN acc.calls |->
        Part("use", <<acc.calls[i].id>>, Given(acc.calls[i].args))]
----------------------------------------------------------------------------
(* The request builders. *)

\* contentPartsToBlocks: in a user message the tool results come first.
ToBlocks(m) ==
  IF m.role = "user"
  THEN Among(m.parts, UserPart({"result"})) \o Among(m.parts, UserPart({"text"}))
  ELSE m.parts

\* foldMessages: empty messages vanish, neighbours of one role are merged.
FoldedIn(out, m) ==
  LET bs == ToBlocks(m) IN
  IF bs = <<>> THEN out
  ELSE IF out # <<>> /\ out[Len(out)].role = m.role
  THEN [out EXCEPT ![Len(out)] = Msg(m.role, @.parts \o bs)]
  ELSE Append(out, Msg(m.role, bs))

Folded(ms) ==
  LET folded[n \in 0..Len(ms)] == IF n = 0 THEN <<>> ELSE FoldedIn(folded[n - 1], ms[n])
  IN  folded[Len(ms)]

\* messageToInputItems: texts, then calls, then outputs; thinking and reasoning
\* stay with the server.
ToItems(m) ==
  Msg(m.role, IF m.role = "user"
              THEN Among(m.parts, UserPart({"text"})) \o Among(m.parts, UserPart({"result"}))
              ELSE Among(m.parts, AssistantPart({"text"}))
                   \o Among(m.parts, AssistantPart({"use"})))

\* What the server reads, one item after another, each with its role.
Items(ms) ==
  FlattenSeq([i \in DOMAIN ms |->
                [j \in DOMAIN ms[i].parts |->
                   [role |-> ms[i].role, part |-> ms[i].parts[j]]]])

\* pruneMultimodalForReplay: an asset is sent once and then only mentioned.
Mentioned(p) == IF p.body = "asset" THEN Part(p.type, p.of, "omitted") ELSE p
Pruned(ms) ==
  [i \in DOMAIN ms |->
     Msg(ms[i].role, [j \in DOMAIN ms[i].parts |-> Mentioned(ms[i].parts[j])])]

Delta == SubSeq(talk, IF resumable THEN seen + 1 ELSE 1, Len(talk))
----------------------------------------------------------------------------
WireInit ==
  /\ api \in {"anthropic", "openai"}
  /\ point = "request"
  /\ talk = <<Msg("user", <<Part("text", <<>>, "said")>>)>>
  /\ seen = 0
  /\ replay = <<>>
  /\ resumable = FALSE
  /\ sent = <<>>
  /\ wire = <<>>
  /\ streamed = <<>>
  /\ blocks = <<>>
  /\ parts = <<>>
  /\ accum = NoTurn
  /\ answers = <<>>
  /\ ran = <<>>
  /\ spent = [requests |-> 0, blocks |-> 0, breaks |-> 0]

\* The top of the loop: adapter.resume with the delta, or adapter.generate.
SendMessages ==
  /\ point = "request"
  /\ spent.requests < MaxRequests
  /\ spent' = [spent EXCEPT !.requests = @ + 1]
  /\ sent' = IF api = "anthropic" /\ resumable THEN replay \o Delta ELSE Delta
  /\ wire' = IF api = "anthropic" THEN Items(Folded(sent'))
             ELSE (IF resumable THEN wire ELSE <<>>)
                  \o Items([i \in DOMAIN sent' |-> ToItems(sent'[i])])
  /\ point' = "stream"
  /\ accum' = NoTurn
  /\ streamed' = <<>> /\ blocks' = <<>> /\ parts' = <<>>
  /\ UNCHANGED <<api, talk, seen, replay, resumable, answers, ran>>

\* The server begins a block. Anthropic streams one after the other, the calls
\* of a Responses answer may overlap.
Begin(type) ==
  /\ point = "stream"
  /\ spent.blocks < MaxBlocks /\ spent.requests < MaxRequests
  /\ api = "anthropic" => \A i \in DOMAIN streamed : streamed[i].ended > 0
  /\ LET b == [id |-> spent.blocks + 1, type |-> type, body |-> "empty",
               signed |-> FALSE, ended |-> 0]
     IN /\ streamed' = Append(streamed, b)
        /\ blocks' = Append(blocks, b)
        /\ accum' = Started(accum, b)
  /\ spent' = [spent EXCEPT !.blocks = @ + 1]
  /\ UNCHANGED <<api, point, talk, seen, replay, resumable, sent, wire,
                 parts, answers, ran>>

WithId(s, id) == CHOOSE k \in DOMAIN s : s[k].id = id

\* The content of a block arrives: text, thinking, or a call's argument text.
Fill(i, body) ==
  /\ point = "stream"
  /\ streamed[i].ended = 0
  /\ streamed[i].body = "empty"
  /\ body \in (IF streamed[i].type = "use" THEN {"object", "broken"} ELSE {"said"})
  /\ streamed' = [streamed EXCEPT ![i].body = body]
  /\ blocks' = [blocks EXCEPT ![WithId(blocks, streamed[i].id)].body = body]
  /\ accum' = Heard(accum, streamed[i])
  /\ UNCHANGED <<api, point, talk, seen, replay, resumable, sent, wire,
                 parts, answers, ran, spent>>

\* signature_delta
Sign(i) ==
  /\ point = "stream"
  /\ api = "anthropic"
  /\ streamed[i].type = "thinking" /\ streamed[i].ended = 0 /\ ~streamed[i].signed
  /\ streamed' = [streamed EXCEPT ![i].signed = TRUE]
  /\ blocks' = [blocks EXCEPT ![WithId(blocks, streamed[i].id)].signed = TRUE]
  /\ UNCHANGED <<api, point, talk, seen, replay, resumable, sent, wire,
                 parts, accum, answers, ran, spent>>

UnfinishedAll(k) == blocks                                            \* mutant

\* A block that ended has left the map, so that message_stop does not push it
\* a second time.
Unfinished(k) == RemoveAt(blocks, k)

\* content_block_stop: the block leaves the map and enters the message.
BlockStop(i) ==
  LET k == WithId(blocks, streamed[i].id) IN
  /\ point = "stream"
  /\ api = "anthropic"
  /\ streamed[i].ended = 0
  /\ streamed' = [streamed EXCEPT ![i].ended = 1]
  /\ blocks' = Unfinished(k)
  /\ parts' = parts \o Materialized(blocks[k])
  /\ accum' = Ended(accum, blocks[k])
  /\ UNCHANGED <<api, point, talk, seen, replay, resumable, sent, wire,
                 answers, ran, spent>>

\* function_call_arguments.done, then output_item.done: the first that arrives
\* is passed on, the second finds doneEmitted.
CallDone(i) ==
  LET k == WithId(blocks, streamed[i].id) IN
  /\ point = "stream"
  /\ api = "openai"
  /\ streamed[i].type = "use" /\ streamed[i].ended < 2
  /\ streamed' = [streamed EXCEPT ![i].ended = @ + 1]
  /\ blocks' = [blocks EXCEPT ![k].ended = 1]
  /\ accum' = IF blocks[k].ended = 0 THEN Ended(accum, blocks[k]) ELSE accum
  /\ UNCHANGED <<api, point, talk, seen, replay, resumable, sent, wire,
                 parts, answers, ran, spent>>

FlushedNothing == <<>>                                                \* mutant

\* message_stop flushes the blocks whose stop never arrived.
Flushed == FlattenSeq([i \in DOMAIN blocks |-> Materialized(blocks[i])])

\* message_stop or response.completed: the answer is accepted, the assistant
\* message enters the history and the handle the adapter built is kept.
Finish ==
  /\ point = "stream"
  /\ streamed # <<>>
  /\ LET message == parts \o Flushed
     IN IF api = "anthropic"
        THEN /\ replay' = Pruned(sent) \o
                  (IF message = <<>> THEN <<>> ELSE <<Msg("assistant", message)>>)
             /\ wire' = <<>>
        ELSE /\ replay' = <<>>
             /\ wire' = wire \o [i \in DOMAIN streamed |->
                  [role |-> "assistant", part |-> Part(streamed[i].type,
                     <<streamed[i].id>>, IF streamed[i].type = "use"
                                         THEN Parsed(streamed[i]) ELSE "said")]]
  /\ resumable' = TRUE
  /\ talk' = Append(talk, Msg("assistant", Finalized(accum)))
  /\ seen' = Len(talk')
  /\ answers' = Append(answers, streamed)
  /\ ran' = ran \o [i \in DOMAIN accum.calls |->
                      [id |-> accum.calls[i].id, args |-> Given(accum.calls[i].args)]]
  /\ point' = IF accum.calls = <<>> THEN "idle" ELSE "tools"
  /\ sent' = <<>>
  /\ streamed' = <<>> /\ blocks' = <<>> /\ parts' = <<>>
  /\ UNCHANGED <<api, accum, spent>>

\* The stream breaks and the adapter asks again: a new translator and a new
\* answer, but the caller's accumulator keeps what it was already told.  A break
\* nobody has heard of is not counted against the bound.
Break ==
  /\ point = "stream"
  /\ spent.breaks < MaxBreaks
  /\ LateBreaks \/ accum = NoTurn
  /\ spent' = IF accum = NoTurn THEN spent ELSE [spent EXCEPT !.breaks = @ + 1]
  /\ streamed' = <<>> /\ blocks' = <<>> /\ parts' = <<>>
  /\ UNCHANGED <<api, point, talk, seen, replay, resumable, sent, wire,
                 accum, answers, ran>>

\* A resumed request fails for good: the turn is asked again from the history.
Fallback ==
  /\ point = "stream"
  /\ resumable
  /\ resumable' = FALSE
  /\ replay' = <<>>
  /\ seen' = 0
  /\ point' = "request"
  /\ sent' = <<>> /\ wire' = <<>> /\ accum' = NoTurn
  /\ streamed' = <<>> /\ blocks' = <<>> /\ parts' = <<>>
  /\ UNCHANGED <<api, talk, answers, ran, spent>>

\* executeToolBatch, then the tool_result message: repair texts follow the
\* results in it, the feedback of a mutation batch is a message of its own.
Results(asset, extra) ==
  /\ point = "tools"
  /\ LET results == [i \in DOMAIN accum.calls |->
                       Part("result", <<accum.calls[i].id>>, IF asset THEN "asset" ELSE "said")]
         said == <<Part("text", <<>>, "said")>>
     IN talk' = talk
          \o <<Msg("user", results \o (IF extra = "repair" THEN said ELSE <<>>))>>
          \o (IF extra = "feedback" THEN <<Msg("user", said)>> ELSE <<>>)
  /\ point' = "request"
  /\ accum' = NoTurn
  /\ UNCHANGED <<api, seen, replay, resumable, sent, wire, streamed, blocks,
                 parts, answers, ran, spent>>

\* The next message of the user, or a nudge.
Say ==
  /\ point = "idle"
  /\ talk' = Append(talk, Msg("user", <<Part("text", <<>>, "said")>>))
  /\ point' = "request"
  /\ UNCHANGED <<api, seen, replay, resumable, sent, wire, streamed, blocks,
                 parts, accum, answers, ran, spent>>

WireNext ==
  \/ SendMessages \/ Finish \/ Break \/ Fallback \/ Say
  \/ \E type \in Kinds : Begin(type)
  \/ \E i \in DOMAIN streamed :
        \/ \E body \in {"said", "object", "broken"} : Fill(i, body)
        \/ Sign(i) \/ BlockStop(i) \/ CallDone(i)
  \/ \E asset \in BOOLEAN, extra \in {"nothing", "repair", "feedback"} : Results(asset, extra)

WireSpec == WireInit /\ [][WireNext]_wireVars
----------------------------------------------------------------------------
Positions(type) == {i \in DOMAIN wire : wire[i].part.type = type}

\* The conversation a request shows is one a provider accepts: every call in it
\* has exactly one result and every result answers a call; and for Anthropic
\* the results open the message right after the one that holds the calls,
\* whether the request was replayed from the handle or rebuilt from history.
WellFormed ==
  point = "stream" =>
    /\ wire[1].role = "user"
    /\ \A i \in Positions("use") :
         Cardinality({j \in Positions("result") : wire[j].part.of = wire[i].part.of}) = 1
    /\ \A j \in Positions("result") :
         \E i \in Positions("use") :
           /\ i < j /\ wire[i].part.of = wire[j].part.of
           /\ \A k \in Positions("use") \ {i} : wire[k].part.of # wire[j].part.of
           /\ api = "anthropic" =>
                \E k \in i..(j - 1) :
                  /\ \A n \in i..k : wire[n].role = "assistant"
                  /\ \A n \in (k + 1)..j : wire[n].part.type = "result"

CallBlocks(s) == Among(s, CallBlock)
Streamed == FlattenSeq(answers)
Shown == Among(wire, [role : {"assistant"}, part : AssistantPart(Kinds)])
ShownCalls == Among(wire, [role : {"assistant"}, part : AssistantPart({"use"})])

\* The model is shown the calls it made, once each and in order, and the tools
\* ran with the arguments it gave, except a call whose end was never streamed:
\* that one runs with no arguments.
CallsTrue ==
  point = "stream" =>
    LET made == CallBlocks(Streamed) IN
    /\ Len(ShownCalls) = Len(made) /\ Len(ran) = Len(made)
    /\ \A i \in DOMAIN made :
         /\ ShownCalls[i].part.of = <<made[i].id>> /\ ran[i].id = made[i].id
         /\ ran[i].args \in {Parsed(made[i])} \cup
                            (IF made[i].ended = 0 THEN {"none"} ELSE {})
         /\ made[i].ended > 0 => ShownCalls[i].part.body = ran[i].args

\* A request resumed from an unbroken chain of handles shows every block of
\* every answer as it was streamed, thinking with its signature, and the assets
\* of the last tool batch in full: the pruning only touches what was sent.
ReplayTrue ==
  (point = "stream" /\ api = "anthropic" /\ resumable
     /\ spent.requests = Len(answers) + 1) =>
    /\ [i \in DOMAIN Shown |-> Shown[i].part]
         = FlattenSeq([i \in DOMAIN Streamed |-> Materialized(Streamed[i])])
    /\ \A i \in DOMAIN Delta : \A j \in DOMAIN Delta[i].parts :
         \E k \in DOMAIN wire : wire[k].part = Delta[i].parts[j]
============================================================================
