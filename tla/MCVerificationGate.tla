------------------------- MODULE MCVerificationGate -------------------------
(***************************************************************************)
(* VerificationGate for TLC: one probe of every kind, and the one that     *)
(* depends on another.                                                     *)
(***************************************************************************)
EXTENDS VerificationGate

MCProbes == {"openai.models", "openai.effort", "openai.phase", "openai.previous_response",
             "anthropic.thinking", "beta.compact"}
=============================================================================
