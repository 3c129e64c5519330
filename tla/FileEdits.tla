------------------------------ MODULE FileEdits ------------------------------
\* The tools that read and edit files, the map of what was read, and whoever else
\* writes to the workspace meanwhile.  A text is what split("\n") makes of it: the
\* last segment is Blank when the file ends in a newline.  A call that is refused
\* changes nothing, so refusals are not steps.
EXTENDS Naturals, Sequences, FiniteSets, SequencesExt

CONSTANTS Names, Line, Blank, Gone, Readers,
          Drafts,             \* the texts others write, and new files start with
          Window,             \* how far a hunk may be from where it says
          MaxLines, MaxStamp, MaxTorn  \* bounds

ASSUME EditAssumption ==
  /\ Blank \in Line /\ Drafts \subseteq Seq(Line) /\ <<>> \notin Drafts
  /\ Gone \notin Seq(Line)
  /\ Window \in Nat /\ MaxStamp \in Nat /\ MaxTorn \in Nat
  /\ IsFiniteSet(Names)

VARIABLES
  docs,     \* per name Gone, or its text and the mtime of its last write
  clock,    \* the last mtime given to a write
  recorded, \* FileStateMap: the mtime a read recorded, and the text it showed
  reads,    \* reads under way: the mtime taken first, then the text
  torn      \* patches that broke off half way

editVars == <<docs, clock, recorded, reads, torn>>

Nothing == [name |-> Gone, stamp |-> 0, text |-> <<>>]
Doc(text, stamp) == [text |-> text, stamp |-> stamp]
Exists(n) == docs[n] # Gone
Tidy(text) == text # <<>> /\ Len(text) <= MaxLines

-----------------------------------------------------------------------------
\* Patches.  A hunk is its declared line, the lines it expects there (context and
\* removed) and the lines it leaves (context and added).

\* The lines of a text: a last newline ends a line, it does not start one.
EndsInNewline(text) == Len(text) > 1 /\ Last(text) = Blank
LinesOf(text) == IF EndsInNewline(text) THEN Front(text) ELSE text
TextOf(lines, newline) ==
  (IF lines = <<>> THEN <<Blank>> ELSE lines) \o IF newline THEN <<Blank>> ELSE <<>>

FitsAt(lines, hunk, i) ==
  /\ i >= 1 /\ i + Len(hunk.old) <= Len(lines) + 1
  /\ SubSeq(lines, i, i + Len(hunk.old) - 1) = hunk.old

\* Where it says, else one below, one above, two below ...; 0 for nowhere.
PlacesFrom(start) ==
  <<start>> \o [k \in 1..2 * Window |->
                  IF k % 2 = 1 THEN start + (k + 1) \div 2
                  ELSE IF start > k \div 2 THEN start - k \div 2 ELSE 0]
PlaceOf(lines, hunk) ==
  LET places == PlacesFrom(hunk.start)
      k == SelectInSeq(places, LAMBDA i : FitsAt(lines, hunk, i))
  IN IF k = 0 THEN 0 ELSE places[k]

Misfit == <<>>  \* no file has no segment at all

\* The lines after a hunk, Gone once one fits nowhere.
Applied(lines, hunk) ==
  IF lines = Gone \/ PlaceOf(lines, hunk) = 0 THEN Gone
  ELSE ReplaceSubSeqAt(PlaceOf(lines, hunk), hunk.new, hunk.old, lines)

\* The hunks one after the other, each to the lines the one before has left.
Patched(text, hunks) ==
  LET lines[k \in 0..Len(hunks)] ==
        IF k = 0 THEN LinesOf(text) ELSE Applied(lines[k - 1], hunks[k])
      last == lines[Len(hunks)]
  IN IF last = Gone THEN Misfit ELSE TextOf(last, EndsInNewline(text))

\* A mutant: the segment after the last newline is a line too.
AllSegments(text) == text

\* The reverse patch of a modified file names every line of it.
ShownLines(text) == IF Last(text) = Blank THEN Front(text) ELSE text
Reversed(before, after) ==
  <<[start |-> 1, old |-> ShownLines(after), new |-> ShownLines(before)]>>

\* The hunks of a diff of the text: what they expect is there, where they say.
Changes == {<<>>} \cup {<<l>> : l \in Line} \cup {<<Blank, l>> : l \in Line}
HunksOf(text) ==
  LET lines == LinesOf(text) IN
  UNION {{[start |-> i, old |-> SubSeq(lines, i, j), new |-> new] :
            j \in i..Len(lines), new \in Changes} : i \in DOMAIN lines}

\* What a diff of two hunks means: the lower one first, so that nothing moves.
Meant(text, upper, lower) ==
  TextOf(ReplaceSubSeqAt(upper.start, upper.new, upper.old,
           ReplaceSubSeqAt(lower.start, lower.new, lower.old, LinesOf(text))),
         EndsInNewline(text))

-----------------------------------------------------------------------------
\* search_replace: oldText as a run of lines.

OccursAt(text, old) == {i \in DOMAIN text : FitsAt(text, [old |-> old], i)}

\* split(old).join(new): from the left, without overlaps.
AllReplaced(text, old, new) ==
  LET from[i \in 1..Len(text) + 1] ==
        IF i > Len(text) THEN <<>>
        ELSE IF i \in OccursAt(text, old) THEN new \o from[i + Len(old)]
        ELSE <<text[i]>> \o from[i + 1]
  IN from[1]

Replaced(text, old, new, all) ==
  CASE all /\ OccursAt(text, old) # {} -> AllReplaced(text, old, new)
    [] ~all /\ Cardinality(OccursAt(text, old)) = 1 ->
         ReplaceSubSeqAt(CHOOSE i \in OccursAt(text, old) : TRUE, new, old, text)
    [] OTHER -> Misfit

-----------------------------------------------------------------------------
EditsInit ==
  /\ clock = Cardinality(Names) /\ torn = 0
  /\ \E stamps \in Bijection(Names, 1..clock) :
       docs \in {d \in [Names -> {Gone} \cup [text : Drafts, stamp : 1..clock]] :
                  \A n \in Names : d[n] # Gone => d[n].stamp = stamps[n]}
  /\ recorded = [n \in Names |-> Nothing]
  /\ reads = [r \in Readers |-> Nothing]

\* No record is no drift; a record of a file that is gone is.
Stale(n) ==
  /\ recorded[n] # Nothing
  /\ Exists(n) => docs[n].stamp # recorded[n].stamp

Written(n, text) ==
  /\ clock < MaxStamp /\ clock' = clock + 1
  /\ docs' = [docs EXCEPT ![n] = Doc(text, clock + 1)]
Forget(n) == recorded' = [recorded EXCEPT ![n] = Nothing]

\* Somebody else: an editor, a job, a command.
OtherWrites(n) ==
  /\ \E text \in Drafts : Written(n, text)
  /\ UNCHANGED <<recorded, reads, torn>>

\* A file put back under its old mtime between the two halves of a read of its
\* name would defeat any check of mtimes: renames come between reads.
OtherMoves(n, m) ==
  /\ Exists(n) /\ n # m /\ \A r \in Readers : reads[r].name \notin {n, m}
  /\ docs' = [docs EXCEPT ![n] = Gone, ![m] = docs[n]]
  /\ UNCHANGED <<clock, recorded, reads, torn>>

OtherDeletes(n) ==
  /\ Exists(n) /\ docs' = [docs EXCEPT ![n] = Gone]
  /\ UNCHANGED <<clock, recorded, reads, torn>>

\* read_file: the mtime, then the bytes (an await), then the record of the mtime.
StatFile(r, n) ==
  /\ reads[r] = Nothing /\ Exists(n)
  /\ reads' = [reads EXCEPT ![r] = [name |-> n, stamp |-> docs[n].stamp, text |-> <<>>]]
  /\ UNCHANGED <<docs, clock, recorded, torn>>

ReadBytes(r) ==
  LET n == reads[r].name IN
  /\ n # Gone /\ reads[r].text = <<>>
  /\ reads' = IF Exists(n) THEN [reads EXCEPT ![r].text = docs[n].text]
                           ELSE [reads EXCEPT ![r] = Nothing]
  /\ UNCHANGED <<docs, clock, recorded, torn>>

RecordNow(read) ==
  [read EXCEPT !.stamp = IF Exists(read.name) THEN docs[read.name].stamp ELSE 0]
Recorded(read) == read

Record(r) ==
  /\ reads[r].text # <<>>
  /\ recorded' = [recorded EXCEPT ![reads[r].name] = Recorded(reads[r])]
  /\ reads' = [reads EXCEPT ![r] = Nothing]
  /\ UNCHANGED <<docs, clock, torn>>

\* The scheduler runs the editing tools alone: no read is under way.
Alone == \A r \in Readers : reads[r] = Nothing

\* A new file, or with the recovery flag any file; the record stays as it is.
WriteFile(n, recovery) ==
  /\ Alone /\ (~Exists(n) \/ recovery)
  /\ \E text \in Drafts : Written(n, text)
  /\ UNCHANGED <<recorded, reads, torn>>

SearchReplace(n) ==
  /\ Alone /\ Exists(n) /\ ~Stale(n)
  /\ \E i, j \in DOMAIN docs[n].text, new \in Changes, all \in BOOLEAN :
       LET text == Replaced(docs[n].text, SubSeq(docs[n].text, i, j), new, all)
       IN i <= j /\ Tidy(text) /\ Written(n, text)
  /\ Forget(n) /\ UNCHANGED <<reads, torn>>

DeleteFile(n) ==
  /\ Alone /\ Exists(n) /\ ~Stale(n)
  /\ docs' = [docs EXCEPT ![n] = Gone]
  /\ Forget(n) /\ UNCHANGED <<clock, reads, torn>>

\* The record of the new name, if a file of that name was read, stays.
MoveFile(n, m) ==
  /\ Alone /\ Exists(n) /\ ~Exists(m) /\ ~Stale(n)
  /\ docs' = [docs EXCEPT ![n] = Gone, ![m] = docs[n]]
  /\ Forget(n) /\ UNCHANGED <<clock, reads, torn>>

\* What a section of a patch makes of its file: every section is planned from the
\* disk before the first is written, and a section that creates asks nothing.
Planned(section) ==
  IF section.action = "create" THEN section.new
  ELSE Patched(docs[section.name].text, section.hunks)

Sections ==
  {[action |-> "create", name |-> n, new |-> text, hunks |-> <<>>] :
     n \in Names, text \in Drafts} \cup
  UNION {{[action |-> "modify", name |-> n, new |-> <<>>, hunks |-> <<hunk>>] :
            hunk \in {h \in HunksOf(docs[n].text) : Len(h.old) = 1 /\ Len(h.new) <= 1}} :
           n \in {m \in Names : Exists(m)}}

\* Nothing is written before every section is planned and no target is stale.
Accepted(patch) ==
  \A k \in DOMAIN patch :
    /\ patch[k].action = "modify" => Exists(patch[k].name) /\ ~Stale(patch[k].name)
    /\ Tidy(Planned(patch[k]))

\* The last of the first k sections that is for a name, 0 for none.
LastFor(n, patch, k) == SelectLastInSubSeq(patch, 1, k, LAMBDA section : section.name = n)

\* The first k sections are on disk; a name twice has its later section.
WritePatch(patch, k) ==
  /\ clock + k <= MaxStamp /\ clock' = clock + k
  /\ docs' = [n \in Names |->
       LET l == LastFor(n, patch, k)
       IN IF l = 0 THEN docs[n] ELSE Doc(Planned(patch[l]), clock + l)]
  /\ recorded' = [n \in Names |-> IF LastFor(n, patch, k) = 0 THEN recorded[n] ELSE Nothing]
  /\ UNCHANGED reads

\* One section, two of one file, or two files.
Patches == {<<s>> : s \in Sections} \cup {<<s, t>> : s, t \in Sections}

ApplyPatch ==
  /\ Alone
  /\ \E patch \in Patches : Accepted(patch) /\ WritePatch(patch, Len(patch))
  /\ UNCHANGED torn

\* A write fails, or the second section deletes: the first stays written.
PatchBreaks ==
  /\ Alone /\ torn < MaxTorn /\ torn' = torn + 1
  /\ \E s \in Sections : Accepted(<<s>>) /\ WritePatch(<<s>>, 1)

EditsNext ==
  \/ \E n \in Names : OtherWrites(n) \/ OtherDeletes(n) \/ SearchReplace(n) \/ DeleteFile(n)
  \/ \E n, m \in Names : OtherMoves(n, m) \/ MoveFile(n, m)
  \/ \E n \in Names, recovery \in BOOLEAN : WriteFile(n, recovery)
  \/ \E r \in Readers : (\E n \in Names : StatFile(r, n)) \/ ReadBytes(r) \/ Record(r)
  \/ ApplyPatch \/ PatchBreaks

EditsSpec == EditsInit /\ [][EditsNext]_editVars

-----------------------------------------------------------------------------
Reading(names, texts) == [name : names, stamp : 0..clock, text : texts]

\* A file the map does not call stale is, to the letter, the text the model was
\* shown: however reads, edits, moves and the writes of others interleave.
FreshIsShown ==
  \A n \in Names :
    recorded[n] # Nothing /\ Exists(n) /\ ~Stale(n) => docs[n].text = recorded[n].text

\* The reverse patch takes back a patch of one file that ends in a newline.
ReverseRestores ==
  \A n \in Names : Exists(n) /\ EndsInNewline(docs[n].text) =>
    \A hunk \in HunksOf(docs[n].text) :
      LET before == docs[n].text
          after  == Patched(before, <<hunk>>)
      IN Patched(after, Reversed(before, after)) = before

\* A diff of the file on disk changes the lines it names.
\* apply.ts: "for M1 we enforce strict equality and fail on mismatch".  It does not
\* hold: a hunk is looked for around the line it names, in lines already shifted.
AppliesAsWritten ==
  \A n \in Names : Exists(n) =>
    \A upper, lower \in HunksOf(docs[n].text) :
      upper.start + Len(upper.old) <= lower.start =>
        Patched(docs[n].text, <<upper, lower>>) = Meant(docs[n].text, upper, lower)
=============================================================================
