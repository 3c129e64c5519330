--------------------------- MODULE MCTranslation ---------------------------
(***************************************************************************)
(* Translation for TLC: streams that break after events of theirs were     *)
(* passed on, and are retried (LateBreaks in BrokenStream.cfg).            *)
(***************************************************************************)
EXTENDS Translation
=============================================================================
