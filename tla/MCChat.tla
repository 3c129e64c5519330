------------------------------- MODULE MCChat -------------------------------
(***************************************************************************)
(* The line-mode chat and the conversation with the provider, for TLC.     *)
(* The chat is checked in three instances - every command, faults between  *)
(* deliveries, and resumes of one file after another - and the translators *)
(* beside it: a behaviour is one of a single part, chosen at the start.    *)
(***************************************************************************)
EXTENDS MCChatSession, Translation

VARIABLE part

Delivery == INSTANCE ChatSession WITH
  Faults <- {"error", "throw", "unavailable"}, Commands <- {"switch"}, MaxMessages <- 3
Resuming == INSTANCE ChatSession WITH
  Providers <- {"openai"}, Convs <- ThreeConvs, Faults <- {},
  Commands <- {"resume", "exit", "compact"}, MaxMessages <- 3, MaxCommands <- 3

PartsInit ==
  /\ \/ part = "commands" /\ ChatInit
     \/ part = "delivery" /\ Delivery!ChatInit
     \/ part = "resume" /\ Resuming!ChatInit
     \/ part = "wire" /\ ChatInit /\ provider = "openai"
  /\ WireInit /\ (part # "wire" => api = "openai")

InChat(own) == part = own /\ part' = part /\ UNCHANGED wireVars

PartsNext ==
  \/ InChat("commands") /\ ChatNext
  \/ InChat("delivery") /\ Delivery!ChatNext
  \/ InChat("resume") /\ Resuming!ChatNext
  \/ part = "wire" /\ part' = part /\ UNCHANGED allVars /\ WireNext

PartsSpec == PartsInit /\ [][PartsNext]_<<part, allVars, wireVars>>

\* The conversations two instances have in common are alike in all of them.
SharedSymmetry == Permutations(TwoConvs)
=============================================================================
