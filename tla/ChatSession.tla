---------------------------- MODULE ChatSession ----------------------------
(***************************************************************************)
(* The line-mode chat (apps/cli/src/chat.ts): a session of messages, each  *)
(* answered by a run of TurnRunner, and the slash commands between them.   *)
(*                                                                         *)
(* Chat keeps a history, the provider handle of the last run and how much  *)
(* of the history that handle stands for; OpenAI presets also keep a       *)
(* server conversation.  /resume, in this process or in the next one,      *)
(* rebuilds the three from the rollout file (readSnapshot).  The lock that *)
(* makes this process the file's only writer is in SessionStore.           *)
(***************************************************************************)
EXTENDS TurnRunner

CONSTANTS
  Commands,      \* of "new", "clear", "switch", "compact", "resume", "exit"
  MaxMessages,   \* bound: messages of the user
  MaxCommands    \* bound: commands, exits and crashes

ASSUME CommandsAssumption ==
  /\ Commands \subseteq {"new", "clear", "switch", "compact", "resume", "exit"}
  /\ MaxMessages \in Nat /\ MaxCommands \in Nat
\* A chat gives the runner no validators and is not in benchmark mode.
ASSUME ChatAssumption == ~Benchmark /\ Feedbacks = {"none"}

VARIABLES
  chatHistory,   \* history
  chatHandle,    \* providerHandle
  chatDelivered, \* deliveredHistoryLength
  convTried,     \* conversationStartAttempted
  after,         \* where ensureConversation returns to: "idle", or the "run"
  compacted,     \* the handle /compact is about to install
  resetAt,       \* items numbered up to here belong to a context that was reset
  messages, commands, \* counted for the bounds
  steady,        \* no run was cut or stopped at its limit, no context forgotten in part
                 \* or rebuilt, so far
  intact         \* no request failed, no run stopped at its limit or died, no conversation
                 \* was refused, no context given up, no preset changed, so far

chatVars == <<chatHistory, chatHandle, chatDelivered, convTried, after, compacted, resetAt,
              messages, commands>>
allVars == <<vars, chatVars, steady, intact>>

ChatStages == Stages \cup {"ensure", "compact", "install", "down"}
runState == <<history, seeded, handle, delivered, turnsRun, strikes, force, guards, request, reply,
              feedback, reason, aborted>>

\* Mutated LastHandle: the first handle of the file.
FirstHandle(lines) ==
  LET handles == {i \in DOMAIN lines : lines[i].type = "handle"}
  IN  IF handles = {} THEN None ELSE lines[CHOOSE i \in handles : \A j \in handles : i <= j].handle

(***************************************************************************)
(* The rollout, read back: readSnapshot keeps every item and the last      *)
(* handle of any line.                                                     *)
(***************************************************************************)
LastHandle(lines) ==
  LET handles == {i \in DOMAIN lines : lines[i].type = "handle"}
  IN  IF handles = {} THEN None ELSE lines[CHOOSE i \in handles : \A j \in handles : j <= i].handle

\* syncConversationFromHandle: the handle's conversation, or none and a new try.
SyncConversation(h) ==
  LET c == IF h = None THEN None ELSE h.conv
  IN  conv' = c /\ convTried' = (c # None)

\* Mutated ForgetContext: the conversation is kept.
ForgetContextKeepingConversation ==
  /\ chatHistory' = <<>> /\ chatHandle' = None /\ chatDelivered' = 0
  /\ UNCHANGED <<conv, convTried>>

ForgetContext ==
  /\ chatHistory' = <<>> /\ chatHandle' = None /\ chatDelivered' = 0
  /\ SyncConversation(None)

Command(name) ==
  /\ pc = "idle" /\ name \in Commands /\ commands < MaxCommands
  /\ commands' = commands + 1
  /\ steady' = (steady /\ name \in {"new", "switch"})
  /\ intact' = (intact /\ name \in {"compact", "resume"})

(***************************************************************************)
(* createConversation: a new conversation, recorded as a handle on file,   *)
(* or none when the endpoint cannot be reached.                            *)
(***************************************************************************)
Unused == {c \in Convs : convs[c] = <<>> /\ c # conv
                         /\ \A i \in DOMAIN rollout :
                              rollout[i].type = "handle" => rollout[i].handle.conv # c}

ConversationHandle(c) == [kind |-> "conversation", conv |-> c, covers |-> <<>>]

CreateConversation(c) ==
  IF c = None
  THEN "unavailable" \in Faults /\ conv' = conv /\ UNCHANGED rollout /\ intact' = FALSE
  ELSE /\ conv' = c /\ UNCHANGED intact
       /\ rollout' = Append(rollout, HandleLine(ConversationHandle(c)))

EnsureConversation(c) ==
  /\ pc = "ensure"
  /\ IF conv # None \/ convTried \/ provider # "openai"
     THEN c = None /\ UNCHANGED <<conv, convTried, rollout, intact>>
     ELSE CreateConversation(c) /\ convTried' = TRUE
  /\ IF after = "run" THEN Start(chatHistory, chatHandle, chatDelivered)
                      ELSE pc' = "idle" /\ UNCHANGED runState
  /\ UNCHANGED <<provider, convs, made, chatHistory, chatHandle, chatDelivered, after, compacted,
                 resetAt, messages, commands, steady>>

(***************************************************************************)
(* A message: the user's item goes on file, a conversation is made sure    *)
(* of, the run starts, and its items and handle come back to the chat.  A  *)
(* run that throws leaves the chat as it was.                              *)
(***************************************************************************)
Message ==
  /\ pc = "idle" /\ messages < MaxMessages
  /\ messages' = messages + 1
  /\ LET item == NewItem("user") IN
     /\ chatHistory' = Append(chatHistory, item)
     /\ rollout' = Append(rollout, ItemLine(item))
  /\ made' = made + 1
  /\ pc' = "ensure" /\ after' = "run"
  /\ UNCHANGED <<runState, provider, conv, convs, chatHandle, chatDelivered, convTried, compacted,
                 resetAt, commands, steady, intact>>

RunStep ==
  /\ RunnerStep /\ UNCHANGED chatVars
  /\ steady' = (steady /\ ~StreamCut /\ ~StopAtTop)
  /\ intact' = (intact /\ ~ResumeFails /\ ~GenerateFails /\ ~StreamCut /\ ~StopAtTop)

\* Mutated DeliveredBy: one item too many.
DeliveredWithNextMessage(items, h) == IF h = None THEN 0 ELSE Len(items) + 1

\* What the chat takes the handle to stand for after a run.
DeliveredBy(items, h) == IF h = None THEN 0 ELSE Len(items)

EndRun ==
  /\ pc = "done"
  /\ IF reason = "thrown"
     THEN UNCHANGED <<chatHistory, chatHandle, chatDelivered, conv, convTried>>
     ELSE /\ chatHistory' = chatHistory \o SubSeq(history, Len(chatHistory) + 1, Len(history))
          /\ chatHandle' = handle
          /\ SyncConversation(handle)
          /\ chatDelivered' = DeliveredBy(chatHistory', handle)
  /\ Rest("idle")
  /\ UNCHANGED <<provider, convs, rollout, made, after, compacted, resetAt, messages, commands,
                 steady, intact>>

(***************************************************************************)
(* Slash commands.                                                         *)
(***************************************************************************)
\* resetConversation, and switchPreset, which also changes the provider.
Reset(name, newProvider) ==
  /\ name \in {"new", "switch"} /\ Command(name)
  /\ name = "new" => newProvider = provider
  /\ provider' = newProvider
  /\ ForgetContext
  /\ resetAt' = made
  /\ pc' = "ensure" /\ after' = "idle"
  /\ UNCHANGED <<runState, convs, rollout, made, compacted, messages>>

Clear ==
  /\ Command("clear")
  /\ chatHistory' = <<>>
  /\ UNCHANGED <<runVars, provider, conv, convs, rollout, made, chatHandle, chatDelivered, convTried,
                 after, compacted, resetAt, messages>>

\* Standalone compaction takes the full context.
CompactedItems == chatHistory

\* compactSession: the whole local history is compacted; the result goes on in
\* a conversation of its own, whose handle is on file first.
Compact ==
  /\ Command("compact")
  /\ provider = "openai" /\ chatHandle # None /\ chatHandle.kind \in {"response", "compacted"}
  /\ compacted' = [kind |-> "compacted", conv |-> None, covers |-> CompactedItems]
  /\ SyncConversation(None)
  /\ pc' = "compact"
  /\ UNCHANGED <<runState, provider, convs, rollout, made, chatHistory, chatHandle, chatDelivered,
                 after, resetAt, messages>>

CompactConversation(c) ==
  /\ pc = "compact"
  /\ CreateConversation(c)
  /\ convTried' = TRUE
  /\ compacted' = [compacted EXCEPT !.conv = c]
  /\ pc' = "install"
  /\ UNCHANGED <<runState, provider, convs, made, chatHistory, chatHandle, chatDelivered,
                 after, resetAt, messages, commands, steady>>

CompactInstall ==
  /\ pc = "install"
  /\ chatHandle' = compacted
  /\ SyncConversation(compacted)
  /\ chatDelivered' = Len(chatHistory)
  /\ rollout' = Append(rollout, HandleLine(compacted))
  /\ compacted' = None
  /\ pc' = "idle"
  /\ UNCHANGED <<runState, provider, convs, made, chatHistory, after, resetAt, messages, commands,
                 steady, intact>>

(***************************************************************************)
(* Leaving and coming back: everything is rebuilt from the rollout.        *)
(***************************************************************************)
Rebuild ==
  /\ chatHistory' = ResponseItems(rollout)
  /\ chatHandle' = LastHandle(rollout)
  /\ SyncConversation(LastHandle(rollout))
  /\ chatDelivered' = Len(chatHistory')
  /\ resetAt' = 0
  /\ pc' = "ensure" /\ after' = "idle"

Resume ==
  /\ Command("resume")
  /\ Rebuild
  /\ UNCHANGED <<runState, provider, convs, rollout, made, compacted, messages>>

\* The next process, with a preset of its own, resumes the session.
Restart(newProvider) ==
  /\ pc = "down"
  /\ provider' = newProvider /\ intact' = (intact /\ newProvider = provider)
  /\ Rebuild
  /\ UNCHANGED <<runState, convs, rollout, made, compacted, messages, commands, steady>>

GoDown ==
  /\ commands < MaxCommands /\ commands' = commands + 1
  /\ Rest("down") /\ steady' = FALSE /\ intact' = (intact /\ pc = "idle")
  /\ ForgetContext
  /\ after' = "idle" /\ compacted' = None
  /\ UNCHANGED <<provider, convs, rollout, made, resetAt, messages>>

Exit == pc = "idle" /\ "exit" \in Commands /\ GoDown
Crash == pc # "down" /\ "crash" \in Faults /\ GoDown

-----------------------------------------------------------------------------
ChatInit ==
  /\ provider \in Providers /\ conv = None /\ convs = [c \in Convs |-> <<>>]
  /\ history = <<>> /\ seeded = 0 /\ handle = None /\ delivered = 0 /\ Fresh
  /\ rollout = <<>> /\ made = 0
  /\ pc = "ensure" /\ after = "idle"
  /\ chatHistory = <<>> /\ chatHandle = None /\ chatDelivered = 0
  /\ convTried = FALSE /\ compacted = None /\ resetAt = 0
  /\ messages = 0 /\ commands = 0 /\ steady = TRUE /\ intact = TRUE

ChatNext ==
  \/ Message \/ RunStep \/ EndRun
  \/ \E c \in Unused \cup {None} : EnsureConversation(c) \/ CompactConversation(c)
  \/ \E p \in Providers : Restart(p) \/ \E name \in {"new", "switch"} : Reset(name, p)
  \/ Clear \/ Compact \/ CompactInstall \/ Resume \/ Exit \/ Crash

ChatSpec == ChatInit /\ [][ChatNext]_allVars

-----------------------------------------------------------------------------
\* From message to message, over resets, failures and retries further down the
\* ladder, each request shows the model the whole history, with its tool calls
\* answered at once: as long as no stream breaks off and no run reaches its turn
\* limit, nothing is cleared or compacted and the session is not resumed.
SteadyReaches == steady => NothingLost /\ CallsAnswered

\* After /new or a switch of preset the model sees nothing from before, not
\* through a handle, a conversation or a fallback; until a /resume asks for it.
NothingLeaks ==
  Asking => \A i \in DOMAIN Seen(request) : Seen(request)[i].n > resetAt

\* Everything on file is before the model with the next request.
FileReachesModel ==
  Asking =>
    \A i \in DOMAIN ResponseItems(rollout) :
      \E j \in DOMAIN Seen(request) : Seen(request)[j] = ResponseItems(rollout)[i]

\* Over compactions, exits and resumes of one file after another, too, what the
\* user and the model said reaches the model: the history of this process, with
\* its tool calls answered at once, and all that is on file; as long as nothing
\* fails on the way, no process dies in a run and no context is given up.
ResumedReaches == intact => NothingLost /\ CallsAnswered /\ FileReachesModel
=============================================================================
