---------------------------- MODULE MCWorkspace ----------------------------
(***************************************************************************)
(* What works on the workspace and around it, for TLC: the checkpoint      *)
(* store, the editing tools, the symbol index, the argument schemas and    *)
(* the verification gate.  They share no state, so a behaviour is one of a *)
(* single part, chosen at the start; the others stay in an initial state.  *)
(***************************************************************************)
EXTENDS Checkpoint, FileEdits, SymbolIndex, MCVerificationGate

CONSTANTS code, secret, deps, c1, link, a   \* paths, contents, a line

VARIABLES
  part,
  builder, tool, manifest, lifted, strict, chosen, call, at        \* ToolSchemas

schemaVars == <<builder, tool, manifest, lifted, strict, chosen, call, at>>

Schemas == INSTANCE ToolSchemas WITH
  MaxStrictTools <- 2, MaxStrictOptional <- 3, OptionalCounts <- {0, 2, 3}

\* One path of every class the checked question needs, texts with and without a
\* repeated line.
MCClass == [p \in Paths |->
  CASE p = code -> "plain" [] p = secret -> "ignored" [] p = deps -> "excluded"]
MCDrafts == {<<a, Blank>>, <<a, a, Blank>>}

NoSchema ==
  /\ builder = "none" /\ tool = <<>> /\ manifest = <<>> /\ lifted = <<>>
  /\ strict = FALSE /\ chosen = {} /\ call = <<>> /\ at = "none"

Parts == {"checkpoint", "edits", "index", "schemas", "gate"}
PartsInit ==
  /\ part \in Parts
  /\ Init /\ (part # "checkpoint" => files = [p \in Paths |-> Absent])
  /\ EditsInit /\ (part # "edits" => docs = [n \in Names |-> Gone])
  /\ GateInit /\ (part # "gate" => keys = {})
  /\ IndexInit /\ (part # "index" => \A f \in DOMAIN onDisk : onDisk[f].size = "none")
  /\ \/ part = "schemas" /\ (Schemas!SchemaInit \/ Schemas!ManifestInit)
     \/ part # "schemas" /\ NoSchema

PartsNext ==
  /\ part' = part
  /\ part # "checkpoint" => UNCHANGED vars
  /\ part # "edits" => UNCHANGED editVars
  /\ part # "gate" => UNCHANGED gateVars
  /\ part # "index" => UNCHANGED indexVars
  /\ part # "schemas" => UNCHANGED schemaVars
  /\ \/ part = "checkpoint" /\ Next
     \/ part = "edits" /\ EditsNext
     \/ part = "gate" /\ GateNext
     \/ part = "index" /\ IndexNext
     \/ part = "schemas" /\ Schemas!SchemaNext

PartsSpec ==
  /\ PartsInit /\ [][PartsNext]_<<part, vars, editVars, gateVars, indexVars,
                                  schemaVars>>

\* Promises of ToolSchemas, with the limits on strict tools.
StrictFits == Schemas!StrictFits /\ Schemas!StrictBudget
NothingExcluded == Schemas!NothingExcluded
=============================================================================
