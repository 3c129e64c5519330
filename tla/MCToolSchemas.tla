--------------------------- MODULE MCToolSchemas ---------------------------
(***************************************************************************)
(* ToolSchemas for TLC: the counts of optional parameters a manifest may   *)
(* hold, none, at the limit of the bound and below it.                     *)
(***************************************************************************)
EXTENDS ToolSchemas

Counts == {0, 2, 3}
=============================================================================
