---------------------------- MODULE SymbolIndex ----------------------------
(***************************************************************************)
(* symbol_lookup and the index it keeps of a workspace: a lookup walks the *)
(* workspace, indexes again every file whose size or modification time is  *)
(* not the one it recorded, drops what is gone, and searches.  Files       *)
(* change under it, and lookups of one batch share the index.              *)
(*                                                                         *)
(* A file is [version, size]: every change gives it a version of its own,  *)
(* which stands for its text, its symbols and its modification time.       *)
(***************************************************************************)
EXTENDS Naturals, FiniteSets

CONSTANTS
  Files,
  Lookups,      \* lookups that may be under way at once
  MaxVersions,  \* bound on changes of files
  MaxLookups,   \* bound on lookups
  NoText        \* null

VARIABLES
  onDisk,
  symbols,   \* index.symbols: the version a file's symbols come from
  stats,     \* index.fileStats
  lookups,   \* the lookups under way
  begun,     \* lookups begun so far
  versions   \* versions so far

indexVars == <<onDisk, symbols, stats, lookups, begun, versions>>

Sizes == {"none", "empty", "fits", "large"}
TextOnDisk == [version : Nat, size : Sizes]
ASSUME NoTextAssumption == NoText \notin TextOnDisk

NoLookup ==
  [at |-> "idle", live |-> {}, todo |-> {}, file |-> NoText, stat |-> NoText, text |-> NoText,
   since |-> NoText, alone |-> FALSE, aborted |-> FALSE, found |-> NoText]

IndexInit ==
  /\ onDisk \in [Files -> [version : {0}, size : {"none", "fits"}]]
  /\ symbols = [f \in Files |-> NoText] /\ stats = [f \in Files |-> NoText]
  /\ lookups = [l \in Lookups |-> NoLookup]
  /\ begun = 0 /\ versions = 0

Now(l, r) == lookups' = [lookups EXCEPT ![l] = r]
Looking(l) == lookups[l].at \notin {"idle", "answered"}
----------------------------------------------------------------------------
\* Somebody writes, empties, grows or removes a file.
Change(f) ==
  /\ versions < MaxVersions /\ versions' = versions + 1
  /\ \E size \in Sizes : onDisk' = [onDisk EXCEPT ![f] = [version |-> versions', size |-> size]]
  /\ UNCHANGED <<symbols, stats, lookups, begun>>

\* symbolLookupTool.execute; one of several calls of a batch perhaps.
Look(l) ==
  /\ ~Looking(l) /\ begun < MaxLookups /\ begun' = begun + 1
  /\ lookups' =
       [k \in Lookups |->
          IF k = l THEN [NoLookup EXCEPT !.at = "walk", !.since = onDisk,
                           !.alone = \A o \in Lookups : ~Looking(o)]
          ELSE [lookups[k] EXCEPT !.alone = @ /\ ~Looking(k)]]
  /\ UNCHANGED <<onDisk, symbols, stats, versions>>

Abort(l) ==
  /\ Looking(l) /\ ~lookups[l].aborted
  /\ Now(l, [lookups[l] EXCEPT !.aborted = TRUE])
  /\ UNCHANGED <<onDisk, symbols, stats, begun, versions>>

\* buildRepoMap throws when aborted; an empty file is listed, a missing one not.
Walk(l) ==
  /\ lookups[l].at = "walk"
  /\ LET found == {f \in Files : onDisk[f].size # "none"} IN
     Now(l, IF lookups[l].aborted THEN NoLookup
            ELSE [lookups[l] EXCEPT !.at = "next", !.live = found, !.todo = found])
  /\ UNCHANGED <<onDisk, symbols, stats, begun, versions>>

\* indexBatch goes on to the next file, whatever indexFile did; it stops at an abort.
Skip(r) == [r EXCEPT !.at = "next", !.file = NoText, !.stat = NoText, !.text = NoText]

\* indexFile: a file that is gone, empty, too large or as recorded is left alone.
Stat(l, f) ==
  LET r == [lookups[l] EXCEPT !.todo = @ \ {f}] IN
  /\ lookups[l].at = "next" /\ f \in lookups[l].todo /\ ~lookups[l].aborted
  /\ Now(l, IF onDisk[f].size # "fits" \/ stats[f] = onDisk[f] THEN Skip(r)
            ELSE [r EXCEPT !.at = "read", !.file = f, !.stat = onDisk[f]])
  /\ UNCHANGED <<onDisk, symbols, stats, begun, versions>>

\* The read itself; the parsers are loaded before it.
Read(l) ==
  LET r == lookups[l] IN
  /\ r.at = "read"
  /\ Now(l, IF r.aborted \/ onDisk[r.file].size = "none" THEN Skip(r)
            ELSE [r EXCEPT !.at = "store", !.text = onDisk[r.file]])
  /\ UNCHANGED <<onDisk, symbols, stats, begun, versions>>

\* Mutant: the size and time the file has once its text is read.
StampNow(r) == onDisk[r.file]
\* The stat that preceded the read.
Stamp(r) == r.stat

\* What readFile gave is parsed and recorded in one go, or not at all.
Store(l) ==
  LET r == lookups[l] IN
  /\ r.at = "store"
  /\ Now(l, Skip(r))
  /\ IF r.aborted THEN UNCHANGED <<symbols, stats>>
     ELSE /\ symbols' = [symbols EXCEPT ![r.file] = r.text]
          /\ stats' = [stats EXCEPT ![r.file] = Stamp(r)]
  /\ UNCHANGED <<onDisk, begun, versions>>

\* getOrBuild drops what is gone or empty; findSymbols reads what is left.
Answer(l) ==
  LET r == lookups[l]
      Drop(f) == stats[f] # NoText /\ (f \notin r.live \/ onDisk[f].size \in {"none", "empty"})
      Kept(index) == [f \in Files |-> IF Drop(f) THEN NoText ELSE index[f]]
  IN
  /\ r.at = "next" /\ (r.todo = {} \/ r.aborted)
  /\ symbols' = Kept(symbols) /\ stats' = Kept(stats)
  /\ Now(l, [r EXCEPT !.at = "answered", !.found = Kept(symbols), !.live = {}, !.todo = {}])
  /\ UNCHANGED <<onDisk, begun, versions>>

\* The tool result is taken.
Taken(l) ==
  /\ lookups[l].at = "answered"
  /\ Now(l, NoLookup)
  /\ UNCHANGED <<onDisk, symbols, stats, begun, versions>>

IndexNext ==
  \/ \E f \in Files : Change(f)
  \/ \E l \in Lookups :
       \/ Look(l) \/ Abort(l) \/ Walk(l) \/ Read(l) \/ Store(l) \/ Answer(l) \/ Taken(l)
       \/ \E f \in Files : Stat(l, f)

IndexSpec == IndexInit /\ [][IndexNext]_indexVars
----------------------------------------------------------------------------
\* A lookup that ran alone to its end answers with the symbols of the text on
\* disk for every file that is unchanged since it began and not too large to
\* be parsed, and with none of a file that is gone or empty: also when earlier
\* lookups overlapped, were aborted or read a file while it was written
\* (indexFile, getOrBuild).
LookupFresh ==
  \A l \in Lookups, f \in Files :
    LET r == lookups[l] IN
    r.at = "answered" /\ r.alone /\ ~r.aborted /\ onDisk[f] = r.since[f] /\ onDisk[f].size # "large"
      => r.found[f] = IF onDisk[f].size = "fits" THEN onDisk[f] ELSE NoText
=============================================================================
