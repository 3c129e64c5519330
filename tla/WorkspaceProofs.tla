--------------------------- MODULE WorkspaceProofs ---------------------------
(***************************************************************************)
(* Proofs about what works on the workspace and around it: the editing     *)
(* tools of FileEdits, VerificationGate, SymbolIndex and Checkpoint.       *)
(***************************************************************************)
EXTENDS FileEdits, VerificationGate, SymbolIndex, Checkpoint, FiniteSetTheorems,
        SequenceTheorems, WellFoundedInduction, NaturalsInduction, TLAPS

(***************************************************************************)
(* FileEdits for any files, texts, readers and bounds.  That a file which  *)
(* is not stale is the text that was shown is no invariant of one file:    *)
(* files move, and a read takes the mtime before the text.  What lasts is  *)
(* that an mtime is given once (Unique), that a record never disagrees     *)
(* with a file of its mtime under whatever name (Agree), and that what a   *)
(* read under way has seen, if it still exists, is where it was (Undisturbed). *)
(***************************************************************************)
Shape ==
  /\ clock \in Nat
  /\ docs = [n \in Names |-> docs[n]]
  /\ recorded = [n \in Names |-> recorded[n]]
  /\ reads = [r \in Readers |-> reads[r]]
  /\ \A n \in Names : Exists(n) => docs[n].stamp \in Nat /\ docs[n].stamp <= clock
  /\ \A n \in Names : recorded[n].stamp \in Nat /\ recorded[n].stamp <= clock
  /\ \A r \in Readers :
       /\ reads[r] = [name |-> reads[r].name, stamp |-> reads[r].stamp, text |-> reads[r].text]
       /\ reads[r] # Nothing => reads[r].name \in Names
       /\ reads[r].stamp \in Nat /\ reads[r].stamp <= clock

Unique ==
  \A n, m \in Names : Exists(n) /\ Exists(m) /\ docs[n].stamp = docs[m].stamp => n = m

Agree ==
  \A n, m \in Names :
    recorded[m] # Nothing /\ Exists(n) /\ docs[n].stamp = recorded[m].stamp =>
      docs[n].text = recorded[m].text

Undisturbed ==
  \A r \in Readers, n \in Names :
    reads[r] # Nothing /\ Exists(n) /\ docs[n].stamp = reads[r].stamp =>
      /\ n = reads[r].name
      /\ reads[r].text # <<>> => docs[n].text = reads[r].text

EditsInv == Shape /\ Unique /\ Agree /\ Undisturbed

LEMMA EditsInvInit == EditsInit => EditsInv
<1> SUFFICES ASSUME EditsInit PROVE EditsInv
  OBVIOUS
<1>1. clock \in Nat
  BY EditAssumption, FS_CardinalityType DEF EditsInit
<1>2. PICK stamps \in Bijection(Names, 1..clock) :
        docs \in {d \in [Names -> {Gone} \cup [text : Drafts, stamp : 1..clock]] :
                   \A n \in Names : d[n] # Gone => d[n].stamp = stamps[n]}
  BY DEF EditsInit
<1>3. /\ stamps \in [Names -> 1..clock]
      /\ \A n, m \in Names : stamps[n] = stamps[m] => n = m
  BY DEF Bijection, Injection, IsInjective
<1>4. /\ recorded = [n \in Names |-> Nothing]
      /\ reads = [r \in Readers |-> Nothing]
  BY DEF EditsInit
<1>5. Shape
  BY <1>1, <1>2, <1>3, <1>4 DEF Shape, Exists, Nothing
<1> QED BY <1>2, <1>3, <1>4, <1>5 DEF EditsInv, Unique, Agree, Undisturbed, Exists

\* A write gives the file an mtime that nothing has been seen with.
LEMMA WriteInv ==
  ASSUME EditsInv, NEW n \in Names, NEW text, Written(n, text),
         UNCHANGED recorded \/ Forget(n), UNCHANGED reads
  PROVE  EditsInv'
<1> USE DEF EditsInv, Shape, Exists
<1>1. /\ clock' = clock + 1
      /\ docs' = [m \in Names |-> IF m = n THEN Doc(text, clock + 1) ELSE docs[m]]
      /\ recorded' = [m \in Names |-> IF m = n THEN recorded'[m] ELSE recorded[m]]
      /\ recorded'[n] \in {recorded[n], Nothing}
  BY DEF Written, Forget
<1>2. Doc(text, clock + 1).stamp = clock + 1 /\ Nothing.stamp = 0
  BY DEF Doc, Nothing
<1>3. Shape'
  BY <1>1, <1>2
<1>4. Unique'
  BY <1>1, <1>2 DEF Unique
<1>5. Agree'
  BY <1>1, <1>2 DEF Agree
<1>6. Undisturbed'
  BY <1>1, <1>2 DEF Undisturbed
<1> QED BY <1>3, <1>4, <1>5, <1>6

\* A file goes, and with it perhaps the record of it.
LEMMA DeleteInv ==
  ASSUME EditsInv, NEW n \in Names, docs' = [docs EXCEPT ![n] = Gone],
         UNCHANGED recorded \/ Forget(n), UNCHANGED <<clock, reads>>
  PROVE  EditsInv'
<1> USE DEF EditsInv, Shape, Exists
<1>1. /\ docs' = [m \in Names |-> IF m = n THEN Gone ELSE docs[m]]
      /\ recorded' = [m \in Names |-> IF m = n THEN recorded'[m] ELSE recorded[m]]
      /\ recorded'[n] \in {recorded[n], Nothing}
  BY DEF Forget
<1>2. Nothing.stamp = 0
  BY DEF Nothing
<1>3. Shape'
  BY <1>1, <1>2
<1>4. Unique' /\ Agree' /\ Undisturbed'
  BY <1>1, <1>2 DEF Unique, Agree, Undisturbed
<1> QED BY <1>3, <1>4

\* A file moves while nobody reads it or what it replaces.
LEMMA MoveInv ==
  ASSUME EditsInv, NEW n \in Names, NEW m \in Names, n # m, Exists(n),
         docs' = [docs EXCEPT ![n] = Gone, ![m] = docs[n]],
         \A r \in Readers : reads[r] = Nothing \/ reads[r].name \notin {n, m},
         UNCHANGED recorded \/ Forget(n), UNCHANGED <<clock, reads>>
  PROVE  EditsInv'
<1> USE DEF EditsInv, Shape, Exists
<1>1. /\ docs' = [k \in Names |-> IF k = m THEN docs[n] ELSE IF k = n THEN Gone ELSE docs[k]]
      /\ recorded' = [k \in Names |-> IF k = n THEN recorded'[k] ELSE recorded[k]]
      /\ recorded'[n] \in {recorded[n], Nothing}
  BY DEF Forget
<1>2. Nothing.stamp = 0
  BY DEF Nothing
<1>3. Shape'
  <2>1. \A k \in Names : Exists(k)' => docs'[k].stamp \in Nat /\ docs'[k].stamp <= clock
    BY <1>1
  <2>2. \A k \in Names : recorded'[k].stamp \in Nat /\ recorded'[k].stamp <= clock
    BY <1>1, <1>2
  <2>3. docs' = [k \in Names |-> docs'[k]] /\ recorded' = [k \in Names |-> recorded'[k]]
    BY <1>1
  <2> QED BY <2>1, <2>2, <2>3
<1>4. Unique'
  BY <1>1 DEF Unique
<1>5. Agree'
  BY <1>1 DEF Agree
<1>6. Undisturbed'
  BY <1>1 DEF Undisturbed
<1> QED BY <1>3, <1>4, <1>5, <1>6

\* The three steps of read_file.
LEMMA StatInv ==
  ASSUME EditsInv, NEW r \in Readers, NEW n \in Names, StatFile(r, n)
  PROVE  EditsInv'
<1> USE DEF EditsInv, Shape, Exists
<1>1. /\ UNCHANGED <<docs, clock, recorded>> /\ Exists(n)
      /\ reads' = [q \in Readers |->
                     IF q = r THEN [name |-> n, stamp |-> docs[n].stamp, text |-> <<>>]
                     ELSE reads[q]]
  BY DEF StatFile
<1>2. Shape' /\ Unique' /\ Agree'
  BY <1>1 DEF Unique, Agree
<1>3. Undisturbed'
  BY <1>1 DEF Unique, Undisturbed
<1> QED BY <1>2, <1>3

LEMMA BytesInv ==
  ASSUME EditsInv, NEW r \in Readers, ReadBytes(r)
  PROVE  EditsInv'
<1> USE DEF EditsInv, Shape, Exists
<1> DEFINE n == reads[r].name
<1>1. UNCHANGED <<docs, clock, recorded>> /\ n # Gone
  BY DEF ReadBytes
<1>2. CASE Exists(n)
  <2>1. reads' = [q \in Readers |->
                    IF q = r THEN [name |-> n, stamp |-> reads[r].stamp, text |-> docs[n].text]
                    ELSE reads[q]]
    BY <1>2 DEF ReadBytes
  <2>2. reads[r] # Nothing
    BY <1>1 DEF Nothing
  <2>3. Shape' /\ Unique' /\ Agree'
    BY <1>1, <2>1, <2>2 DEF Unique, Agree
  <2>4. Undisturbed'
    BY <1>1, <2>1, <2>2 DEF Undisturbed
  <2> QED BY <2>3, <2>4
<1>3. CASE ~Exists(n)
  <2>1. reads' = [q \in Readers |-> IF q = r THEN Nothing ELSE reads[q]]
    BY <1>3 DEF ReadBytes
  <2>2. Shape' /\ Unique' /\ Agree'
    BY <1>1, <2>1 DEF Unique, Agree, Nothing
  <2>3. Undisturbed'
    BY <1>1, <2>1 DEF Undisturbed
  <2> QED BY <2>2, <2>3
<1> QED BY <1>2, <1>3

LEMMA RecordInv ==
  ASSUME EditsInv, NEW r \in Readers, Record(r)
  PROVE  EditsInv'
<1> USE DEF EditsInv, Shape, Exists
<1> DEFINE n == reads[r].name
<1>1. /\ UNCHANGED <<docs, clock>> /\ reads[r].text # <<>>
      /\ reads[r] # Nothing /\ n \in Names
  BY DEF Record, Nothing
<1>2. /\ recorded' = [m \in Names |-> IF m = n THEN reads[r] ELSE recorded[m]]
      /\ reads' = [q \in Readers |-> IF q = r THEN Nothing ELSE reads[q]]
  BY <1>1 DEF Record, Recorded
<1>3. Shape' /\ Unique'
  BY <1>1, <1>2 DEF Unique, Nothing
<1>4. Agree'
  BY <1>1, <1>2 DEF Agree, Undisturbed
<1>5. Undisturbed'
  BY <1>1, <1>2 DEF Undisturbed
<1> QED BY <1>3, <1>4, <1>5

\* The section a file of a patch ends up with is a section for that file.
LEMMA LastForType ==
  ASSUME NEW n, NEW patch, NEW k \in {1, 2}
  PROVE  /\ LastFor(n, patch, k) \in 0..k
         /\ LastFor(n, patch, k) # 0 => patch[LastFor(n, patch, k)].name = n
<1> DEFINE I == {i \in 1..k : patch[i].name = n}
<1>1. LastFor(n, patch, k) = IF I # {} THEN Max(I) ELSE 0
  BY DEF LastFor, SelectLastInSubSeq
<1>2. I # {} => \E x \in I : \A y \in I : x >= y
  OBVIOUS
<1>3. I # {} => Max(I) \in I
  BY <1>2 DEF Max
<1> QED BY <1>1, <1>3

LEMMA Cancel == \A a, b, c \in Nat : c + a = c + b => a = b
  OBVIOUS

LEMMA PatchInv ==
  ASSUME EditsInv, Alone, NEW patch, NEW k \in {1, 2}, WritePatch(patch, k)
  PROVE  EditsInv'
<1> USE DEF EditsInv, Shape, Exists
<1> DEFINE L(n) == LastFor(n, patch, k)
<1>1. \A n \in Names : L(n) \in 0..k /\ (L(n) # 0 => patch[L(n)].name = n)
  BY LastForType
<1>2. /\ clock' = clock + k /\ UNCHANGED reads
      /\ recorded' = [n \in Names |-> IF L(n) = 0 THEN recorded[n] ELSE Nothing]
      /\ docs' = [n \in Names |-> IF L(n) = 0 THEN docs[n]
                                  ELSE Doc(Planned(patch[L(n)]), clock + L(n))]
  BY DEF WritePatch
<1>3. \A n \in Names : L(n) # 0 => docs'[n].stamp = clock + L(n)
  BY <1>2 DEF Doc
<1>4. Nothing.stamp = 0
  BY DEF Nothing
<1> HIDE DEF L
<1>5. Shape'
  BY <1>1, <1>2, <1>3, <1>4
<1>6. Unique'
  <2> SUFFICES ASSUME NEW n \in Names, NEW m \in Names, Exists(n)', Exists(m)',
                      docs'[n].stamp = docs'[m].stamp
               PROVE  n = m
    BY DEF Unique
  <2>1. CASE L(n) = 0 /\ L(m) = 0
    BY <2>1, <1>2 DEF Unique
  <2>2. CASE L(n) # 0 /\ L(m) # 0
    <3>1. clock + L(n) = clock + L(m)
      BY <2>2, <1>3
    <3>2. clock \in Nat /\ L(n) \in Nat /\ L(m) \in Nat
      BY <1>1
    <3>3. L(n) = L(m)
      BY ONLY <3>1, <3>2, Cancel
    <3> QED BY <3>3, <2>2, <1>1
  <2>3. CASE (L(n) = 0) # (L(m) = 0)
    BY <2>3, <1>1, <1>2, <1>3
  <2> QED BY <2>1, <2>2, <2>3
<1>7. Agree'
  BY <1>1, <1>2, <1>3 DEF Agree
<1>8. Undisturbed'
  BY <1>2 DEF Undisturbed, Alone
<1> QED BY <1>5, <1>6, <1>7, <1>8

\* A step of any tool, or of anybody else, keeps the invariant.
LEMMA EditsInvStep == EditsInv /\ [EditsNext]_editVars => EditsInv'
<1> SUFFICES ASSUME EditsInv, [EditsNext]_editVars PROVE EditsInv'
  OBVIOUS
<1>1. CASE UNCHANGED editVars
  BY <1>1 DEF editVars, EditsInv, Shape, Unique, Agree, Undisturbed, Exists
<1>2. ASSUME NEW n \in Names,
             OtherWrites(n) \/ SearchReplace(n) \/ (\E b \in BOOLEAN : WriteFile(n, b))
      PROVE  EditsInv'
  BY <1>2, WriteInv DEF OtherWrites, SearchReplace, WriteFile
<1>3. ASSUME NEW n \in Names, OtherDeletes(n) \/ DeleteFile(n)
      PROVE  EditsInv'
  BY <1>3, DeleteInv DEF OtherDeletes, DeleteFile
<1>4. ASSUME NEW n \in Names, NEW m \in Names, OtherMoves(n, m) \/ MoveFile(n, m)
      PROVE  EditsInv'
  <2>1. CASE OtherMoves(n, m)
    BY <2>1, MoveInv DEF OtherMoves
  <2>2. CASE MoveFile(n, m)
    <3>1. n # m
      BY <2>2 DEF MoveFile
    <3> QED BY <2>2, <3>1, MoveInv DEF MoveFile, Alone
  <2> QED BY <1>4, <2>1, <2>2
<1>5. ASSUME NEW r \in Readers, (\E n \in Names : StatFile(r, n)) \/ ReadBytes(r) \/ Record(r)
      PROVE  EditsInv'
  BY <1>5, StatInv, BytesInv, RecordInv
<1>6. CASE ApplyPatch
  <2>1. PICK patch \in Patches : WritePatch(patch, Len(patch))
    BY <1>6 DEF ApplyPatch
  <2>2. Len(patch) \in {1, 2}
    BY DEF Patches
  <2>3. Alone
    BY <1>6 DEF ApplyPatch
  <2> QED BY <2>1, <2>2, <2>3, PatchInv
<1>7. CASE PatchBreaks
  BY <1>7, PatchInv DEF PatchBreaks
<1> QED BY <1>1, <1>2, <1>3, <1>4, <1>5, <1>6, <1>7 DEF EditsNext

LEMMA EditsInvariant == EditsSpec => []EditsInv
BY EditsInvInit, EditsInvStep, PTL DEF EditsSpec

\* What read_file has shown of a file and the drift check still lets the editing
\* tools use is the file as it is, whoever else writes, moves or deletes meanwhile.
THEOREM ShownIsFresh == EditsSpec => []FreshIsShown
<1>1. EditsInv => FreshIsShown
  BY DEF EditsInv, Agree, FreshIsShown, Stale
<1> QED BY EditsInvariant, <1>1, PTL

(***************************************************************************)
(* Patches of FileEdits.  A patch is a list of hunks, each tried at the    *)
(* line it names and around it, on the lines the hunks before have left;   *)
(* what the reverse patch undoes is the result, wherever the hunks went.   *)
(* That the files are texts at all needs what each tool writes (Texts):    *)
(* replacing every occurrence is a recursion over the text.                *)
(***************************************************************************)
\* Induction up to a bound, and the existence of functions defined by recursion.
LEMMA Induction ==
  ASSUME NEW N \in Nat, NEW P, 0 \in P, \A n \in 0..N - 1 : n \in P => n + 1 \in P
  PROVE  0..N \subseteq P
<1> DEFINE Bad == {n \in 0..N : n \notin P}
<1> SUFFICES ASSUME Bad # {} PROVE FALSE
  OBVIOUS
<1> DEFINE Less == OpToRel(<, Nat)
<1>1. Bad \subseteq Nat /\ \A x, y \in Nat : y < x => <<y, x>> \in Less
  BY DEF OpToRel
<1>2. IsWellFoundedOn(Less, Nat)
  BY NatLessThanWellFounded
<1> HIDE DEF Less, Bad
<1>3. PICK x \in Bad : \A y \in Bad : ~(<<y, x>> \in Less)
  BY <1>1, <1>2, WFMin
<1>4. \A y \in Bad : ~(y < x)
  BY <1>1, <1>3
<1> USE DEF Bad
<1>5. x \in 1..N /\ x - 1 \in 0..N - 1 /\ x - 1 \notin Bad
  BY <1>4
<1> QED BY <1>5

\* g is what the recursion from a by the functions F comes to.
Iterates(g, N, S, a, F) ==
  g[0] = a /\ \A n \in 1..N : g[n - 1] \in S => g[n] = F[n][g[n - 1]]

LEMMA Recursion ==
  ASSUME NEW N \in Nat, NEW S, NEW a \in S, NEW F \in [1..N -> [S -> S]]
  PROVE  \E f \in [0..N -> S] : Iterates(f, N, S, a, F)
<1> DEFINE Obeys(f, m) == f[0] = a /\ \A n \in 1..m : f[n] = F[n][f[n - 1]]
           P == {m \in 0..N : \E f \in [0..m -> S] : Obeys(f, m)}
<1>1. 0 \in P
  <2> DEFINE g == [n \in 0..0 |-> a]
  <2>1. g \in [0..0 -> S] /\ Obeys(g, 0)
    OBVIOUS
  <2> HIDE DEF g
  <2> QED BY <2>1
<1>2. ASSUME NEW m \in 0..N - 1, m \in P
      PROVE  m + 1 \in P
  <2>1. PICK f \in [0..m -> S] : Obeys(f, m)
    BY <1>2
  <2> DEFINE g == [n \in 0..m + 1 |-> IF n = m + 1 THEN F[m + 1][f[m]] ELSE f[n]]
  <2>2. f[m] \in S /\ m + 1 \in 1..N
    OBVIOUS
  <2>3. F[m + 1][f[m]] \in S
    BY <2>2
  <2>4. g \in [0..m + 1 -> S]
    BY <2>3
  <2>5. Obeys(g, m + 1)
    BY <2>1
  <2> HIDE DEF g
  <2> QED BY <2>4, <2>5, SMTT(20)
<1>3. N \in P
  <2> HIDE DEF P
  <2>1. 0..N \subseteq P
    BY <1>1, <1>2, Induction
  <2> QED BY <2>1
<1> QED BY <1>3 DEF Iterates

LEMMA Unrolled ==
  ASSUME NEW N \in Nat, NEW S, NEW a \in S, NEW F \in [1..N -> [S -> S]],
         NEW g, Iterates(g, N, S, a, F)
  PROVE  \A n \in 0..N : g[n] \in S
<1> DEFINE P == {n \in 0..N : g[n] \in S}
<1>1. 0 \in P
  BY DEF Iterates
<1>2. ASSUME NEW n \in 0..N - 1, n \in P
      PROVE  n + 1 \in P
  <2>1. n + 1 \in 1..N /\ (n + 1) - 1 = n
    OBVIOUS
  <2>2. g[n + 1] = F[n + 1][g[n]]
    BY <1>2, <2>1 DEF Iterates
  <2> QED BY <1>2, <2>1, <2>2
<1>3. 0..N \subseteq P
  <2> HIDE DEF P
  <2> QED BY <1>1, <1>2, Induction
<1> QED BY <1>3

\* The least of some numbers is one of them.
LEMMA MinIsLeast ==
  ASSUME NEW I \in SUBSET Nat, I # {}
  PROVE  Min(I) \in I /\ \A k \in I : Min(I) <= k
<1> DEFINE Less == OpToRel(<, Nat)
<1>1. \A x, y \in Nat : y < x => <<y, x>> \in Less
  BY DEF OpToRel
<1>2. IsWellFoundedOn(Less, Nat)
  BY NatLessThanWellFounded
<1> HIDE DEF Less
<1>3. PICK x \in I : \A y \in I : ~(<<y, x>> \in Less)
  BY <1>2, WFMin
<1>4. \A y \in I : x <= y
  <2> TAKE y \in I
  <2>1. x \in Nat /\ y \in Nat /\ ~(y < x)
    BY <1>1, <1>3
  <2> QED BY <2>1
<1>5. \E y \in I : \A z \in I : y <= z
  BY <1>4
<1> QED BY <1>5 DEF Min

Hunk == [start : Nat, old : Seq(Line), new : Seq(Line)]

LEMMA PlacesAre ==
  ASSUME NEW start \in Nat
  PROVE  /\ Len(PlacesFrom(start)) \in Nat \ {0}
         /\ \A k \in 1..Len(PlacesFrom(start)) : PlacesFrom(start)[k] \in Nat
         /\ PlacesFrom(start)[1] = start
<1> DEFINE W == 2 * Window
           next == [k \in 1..W |->
                      IF k % 2 = 1 THEN start + (k + 1) \div 2
                      ELSE IF start > k \div 2 THEN start - k \div 2 ELSE 0]
<1>1. W \in Nat
  BY EditAssumption
<1>2. \A k \in 1..W : /\ start + (k + 1) \div 2 \in Nat
                      /\ start > k \div 2 => start - k \div 2 \in Nat
  BY <1>1
<1>3. next \in Seq(Nat)
  BY <1>1, <1>2
<1> HIDE DEF next
<1>4. /\ <<start>> \o next \in Seq(Nat) /\ Len(<<start>> \o next) \in Nat \ {0}
      /\ (<<start>> \o next)[1] = start
  BY <1>3
<1>5. PlacesFrom(start) = <<start>> \o next
  BY DEF PlacesFrom, next
<1> QED BY <1>4, <1>5

\* A hunk goes where it fits, and where it says if it fits there.
LEMMA PlaceIs ==
  ASSUME NEW lines, NEW hunk, hunk.start \in Nat
  PROVE  /\ PlaceOf(lines, hunk) \in Nat
         /\ PlaceOf(lines, hunk) # 0 => FitsAt(lines, hunk, PlaceOf(lines, hunk))
         /\ FitsAt(lines, hunk, hunk.start) => PlaceOf(lines, hunk) = hunk.start
<1> DEFINE places == PlacesFrom(hunk.start)
           I == {k \in 1..Len(places) : FitsAt(lines, hunk, places[k])}
           k == IF I # {} THEN Min(I) ELSE 0
<1>1. /\ Len(places) \in Nat \ {0} /\ places[1] = hunk.start
      /\ \A l \in 1..Len(places) : places[l] \in Nat
  BY PlacesAre
<1>2. PlaceOf(lines, hunk) = IF k = 0 THEN 0 ELSE places[k]
  BY DEF PlaceOf, SelectInSeq
<1> HIDE DEF places
<1>3. I \subseteq Nat /\ \A l \in I : l # 0
  BY <1>1
<1>4. I # {} => k \in I /\ \A l \in I : k <= l
  BY <1>3, MinIsLeast
<1>5. ASSUME FitsAt(lines, hunk, hunk.start)
      PROVE  k = 1
  <2>1. 1 \in I
    BY <1>1, <1>5
  <2>2. k \in I /\ k <= 1
    BY <1>4, <2>1
  <2> QED BY <1>1, <2>2
<1>6. k # 0 => k \in I
  BY <1>4
<1> HIDE DEF k
<1>7. k # 0 => k \in 1..Len(places) /\ FitsAt(lines, hunk, places[k])
  BY <1>6
<1> QED BY <1>1, <1>2, <1>5, <1>7

\* One part of a text, or the text with a part replaced.
LEMMA PartOf ==
  ASSUME NEW t \in Seq(Line), NEW i \in 1..Len(t) + 1, NEW j \in 0..Len(t)
  PROVE  SubSeq(t, i, j) \in Seq(Line) /\ (i <= j => Len(SubSeq(t, i, j)) = j - i + 1)
<1>1. \A k \in i..j : t[k] \in Line
  OBVIOUS
<1>2. i \in Int /\ j \in Int
  OBVIOUS
<1> QED BY <1>1, <1>2, SubSeqProperties

LEMMA ReplacedPart ==
  ASSUME NEW t \in Seq(Line), NEW old \in Seq(Line), NEW new \in Seq(Line), NEW i \in Nat,
         FitsAt(t, [old |-> old], i)
  PROVE  ReplaceSubSeqAt(i, new, old, t) \in Seq(Line)
<1>1. Len(t) \in Nat /\ Len(old) \in Nat /\ i >= 1 /\ i + Len(old) <= Len(t) + 1
  BY DEF FitsAt
<1>2. SubSeq(t, 1, i - 1) \in Seq(Line)
  BY <1>1, PartOf
<1>3. SubSeq(t, i + Len(old), Len(t)) \in Seq(Line)
  BY <1>1, PartOf
<1>4. \A u, v, w \in Seq(Line) : u \o v \o w \in Seq(Line)
  BY ConcatProperties
<1> QED BY <1>2, <1>3, <1>4 DEF ReplaceSubSeqAt

LEMMA AppliedType ==
  ASSUME NEW lines \in Seq(Line) \cup {Gone}, NEW hunk \in Hunk
  PROVE  Applied(lines, hunk) \in Seq(Line) \cup {Gone}
<1> DEFINE i == PlaceOf(lines, hunk)
<1>1. hunk.start \in Nat /\ hunk.old \in Seq(Line) /\ hunk.new \in Seq(Line)
  BY DEF Hunk
<1>2. i \in Nat /\ (i # 0 => FitsAt(lines, hunk, i))
  BY <1>1, PlaceIs
<1>3. FitsAt(lines, hunk, i) => FitsAt(lines, [old |-> hunk.old], i)
  BY DEF FitsAt
<1> HIDE DEF i
<1>4. ASSUME lines # Gone, i # 0
      PROVE  ReplaceSubSeqAt(i, hunk.new, hunk.old, lines) \in Seq(Line)
  BY <1>1, <1>2, <1>3, <1>4, ReplacedPart
<1> QED BY <1>4 DEF Applied, i

\* The whole of a text replaced.
LEMMA WholeReplaced ==
  ASSUME NEW t \in Seq(Line), NEW new \in Seq(Line)
  PROVE  /\ FitsAt(t, [start |-> 1, old |-> t, new |-> new], 1)
         /\ ReplaceSubSeqAt(1, new, t, t) = new
<1>1. Len(t) \in Nat /\ SubSeq(t, 1, Len(t)) = t
  BY SubSeqFull
<1>2. SubSeq(t, 1, 1 - 1) = <<>> /\ SubSeq(t, 1 + Len(t), Len(t)) = <<>>
  BY <1>1, SubSeqEmpty
<1>3. (<<>> \o new) \o <<>> = new
  BY ConcatEmptySeq
<1>4. 1 + Len(t) - 1 = Len(t) /\ 1 + Len(t) <= Len(t) + 1
  BY <1>1
<1> QED BY <1>1, <1>2, <1>3, <1>4 DEF FitsAt, ReplaceSubSeqAt

\* The lines of a text, and the text of some lines.
LEMMA LinesAre ==
  ASSUME NEW text \in Seq(Line), text # <<>>
  PROVE  /\ LinesOf(text) \in Seq(Line)
         /\ EndsInNewline(text) => /\ LinesOf(text) # <<>> /\ text = LinesOf(text) \o <<Blank>>
                                  /\ ShownLines(text) = LinesOf(text)
<1> DEFINE N == Len(text)
           front == SubSeq(text, 1, N - 1)
<1>1. N \in Nat \ {0}
  BY EmptySeq
<1>2. front \in Seq(Line) /\ Len(front) = N - 1
  <2>1. front \in Seq(Line) /\ (1 <= N - 1 => Len(front) = (N - 1) - 1 + 1)
    <3>1. 1 \in 1..N + 1 /\ N - 1 \in 0..N
      BY <1>1
    <3> QED BY <3>1, PartOf
  <2>2. ASSUME N = 1
        PROVE  front = <<>>
    BY <2>2, SubSeqEmpty
  <2>3. Len(<<>>) = 0
    OBVIOUS
  <2> HIDE DEF front
  <2>4. CASE N = 1
    BY <2>1, <2>2, <2>3, <2>4
  <2>5. CASE N # 1
    <3> HIDE DEF N
    <3>1. 1 <= N - 1 /\ (N - 1) - 1 + 1 = N - 1
      BY <1>1, <2>5
    <3> QED BY <2>1, <3>1
  <2> QED BY <2>4, <2>5
<1>3. ASSUME EndsInNewline(text)
      PROVE  front # <<>> /\ text = front \o <<Blank>>
  <2>1. N > 1 /\ text[N] = Blank
    BY <1>3 DEF EndsInNewline, Last
  <2>2. SubSeq(text, 1, N) = SubSeq(text, 1, N - 1) \o <<text[N]>>
    BY <1>1, SubSeqRecursiveSecond
  <2>3. SubSeq(text, 1, N) = text
    BY SubSeqFull
  <2>4. front # <<>>
    <3>1. Len(<<>>) = 0 /\ Len(front) # 0
      BY <1>1, <1>2, <2>1
    <3> QED BY <3>1
  <2> HIDE DEF front
  <2>5. text = SubSeq(text, 1, N - 1) \o <<Blank>>
    BY <2>1, <2>2, <2>3
  <2> QED BY <2>4, <2>5 DEF front
<1> QED BY <1>2, <1>3 DEF LinesOf, ShownLines, EndsInNewline, Last, Front

LEMMA TextIs ==
  ASSUME NEW lines \in Seq(Line), NEW newline \in BOOLEAN
  PROVE  /\ TextOf(lines, newline) \in Seq(Line) /\ TextOf(lines, newline) # <<>>
         /\ newline => EndsInNewline(TextOf(lines, newline))
<1> DEFINE u == IF lines = <<>> THEN <<Blank>> ELSE lines
<1>1. u \in Seq(Line) /\ Len(u) \in Nat \ {0}
  BY EditAssumption, EmptySeq
<1>2. TextOf(lines, newline) = u \o (IF newline THEN <<Blank>> ELSE <<>>)
  BY DEF TextOf
<1>3. <<Blank>> \in Seq(Line) /\ Len(<<Blank>>) = 1 /\ <<Blank>>[1] = Blank
  BY EditAssumption
<1> HIDE DEF u
<1>4. /\ u \o <<Blank>> \in Seq(Line) /\ Len(u \o <<Blank>>) = Len(u) + 1
      /\ (u \o <<Blank>>)[Len(u) + 1] = Blank
  BY <1>1, <1>3
<1>5. u \o <<>> = u /\ Len(<<>>) = 0
  BY <1>1, ConcatEmptySeq
<1>6. Len(u \o <<Blank>>) > 1 /\ Len(u \o <<Blank>>) # 0
  BY <1>1, <1>4
<1> QED BY <1>1, <1>2, <1>4, <1>5, <1>6 DEF EndsInNewline, Last

\* The recursive function inside Patched.
Stages(text, hunks) ==
  CHOOSE lines : lines = [k \in 0..Len(hunks) |->
                            IF k = 0 THEN LinesOf(text) ELSE Applied(lines[k - 1], hunks[k])]

\* The hunks of a patch, one after the other.
LEMMA PatchedIs ==
  ASSUME NEW text \in Seq(Line), text # <<>>, NEW hunks \in Seq(Hunk)
  PROVE  LET last == Stages(text, hunks)[Len(hunks)] IN
         /\ last \in Seq(Line) \cup {Gone}
         /\ Patched(text, hunks) = IF last = Gone THEN Misfit ELSE TextOf(last, EndsInNewline(text))
         /\ Len(hunks) = 1 => last = Applied(LinesOf(text), hunks[1])
<1> DEFINE N == Len(hunks)
           S == Seq(Line) \cup {Gone}
           a == LinesOf(text)
           F == [n \in 1..N |-> [s \in S |-> Applied(s, hunks[n])]]
           Obeys(f) == f = [k \in 0..N |-> IF k = 0 THEN a ELSE Applied(f[k - 1], hunks[k])]
<1>1. N \in Nat /\ a \in S /\ \A n \in 1..N : hunks[n] \in Hunk
  BY LinesAre
<1>2. F \in [1..N -> [S -> S]]
  BY <1>1, AppliedType
<1>3. \A n \in 1..N, s \in S : F[n][s] = Applied(s, hunks[n])
  OBVIOUS
<1>4. Stages(text, hunks) = CHOOSE f : Obeys(f)
  BY DEF Stages
<1> HIDE DEF N, S, a, F
<1>5. PICK g \in [0..N -> S] : Iterates(g, N, S, a, F)
  BY <1>1, <1>2, Recursion
<1>6. Obeys(g)
  <2>1. \A n \in 1..N : n - 1 \in 0..N /\ n \in 0..N /\ n # 0
    BY <1>1
  <2>2. g[0] = a /\ \A n \in 1..N : g[n] = Applied(g[n - 1], hunks[n])
    BY <1>3, <1>5, <2>1 DEF Iterates
  <2>3. \A k \in 0..N : k = 0 \/ k \in 1..N
    BY <1>1
  <2>4. g = [k \in 0..N |-> g[k]]
    BY <1>5
  <2> QED BY <2>2, <2>3, <2>4
<1>7. Obeys(Stages(text, hunks))
  BY <1>4, <1>6
<1> DEFINE f == Stages(text, hunks)
<1>8. f[0] = a /\ \A n \in 1..N : f[n] = Applied(f[n - 1], hunks[n])
  <2>1. \A n \in 1..N : n \in 0..N /\ n # 0
    BY <1>1
  <2>2. 0 \in 0..N
    BY <1>1
  <2> HIDE DEF f
  <2>3. Obeys(f)
    BY <1>7 DEF f
  <2> QED BY <2>1, <2>2, <2>3
<1>9. Iterates(f, N, S, a, F)
  BY <1>3, <1>8 DEF Iterates
<1>10. f[N] \in S
  <2>1. \A n \in 0..N : f[n] \in S
    <3> HIDE DEF f
    <3> QED BY <1>1, <1>2, <1>9, Unrolled
  <2> QED BY <1>1, <2>1
<1>11. Patched(text, hunks) = IF f[N] = Gone THEN Misfit ELSE TextOf(f[N], EndsInNewline(text))
  BY DEF Patched, Stages, N
<1>12. N = 1 => f[N] = Applied(a, hunks[1])
  <2>1. ASSUME N = 1
        PROVE  1 \in 1..N /\ 1 - 1 = 0
    BY <2>1
  <2> HIDE DEF f
  <2> QED BY <1>8, <2>1
<1> QED BY <1>10, <1>11, <1>12 DEF N, S, a

\* The reverse patch takes back a patch of any number of hunks, wherever in the file
\* they went, if the file ended in a newline (generateReversePatch, applyHunks).
THEOREM ReverseTakesBack ==
  ASSUME NEW before \in Seq(Line), EndsInNewline(before), NEW hunks \in Seq(Hunk),
         Patched(before, hunks) # Misfit
  PROVE  Patched(Patched(before, hunks), Reversed(before, Patched(before, hunks))) = before
<1> DEFINE after == Patched(before, hunks)
           last == Stages(before, hunks)[Len(hunks)]
           back == [start |-> 1, old |-> LinesOf(after), new |-> LinesOf(before)]
<1>1. before # <<>>
  BY EmptySeq DEF EndsInNewline
<1>2. last \in Seq(Line) \cup {Gone} /\ last # Gone /\ after = TextOf(last, TRUE)
  BY <1>1, PatchedIs
<1> HIDE DEF after, last
<1>3. after \in Seq(Line) /\ after # <<>> /\ EndsInNewline(after)
  BY <1>2, TextIs
<1>4. /\ LinesOf(after) \in Seq(Line) /\ ShownLines(after) = LinesOf(after)
      /\ LinesOf(before) \in Seq(Line) /\ ShownLines(before) = LinesOf(before)
      /\ LinesOf(before) # <<>> /\ before = LinesOf(before) \o <<Blank>>
  BY <1>1, <1>3, LinesAre
<1>5. Reversed(before, after) = <<back>>
  BY <1>4 DEF Reversed
<1>6. /\ FitsAt(LinesOf(after), back, 1)
      /\ ReplaceSubSeqAt(1, LinesOf(before), LinesOf(after), LinesOf(after)) = LinesOf(before)
  BY <1>4, WholeReplaced
<1>7. /\ back \in Hunk /\ back.start = 1 /\ back.new = LinesOf(before) /\ back.old = LinesOf(after)
  BY <1>4 DEF Hunk
<1> HIDE DEF back
<1>8. <<back>> \in Seq(Hunk) /\ Len(<<back>>) = 1 /\ <<back>>[1] = back
  BY <1>7
<1>9. PlaceOf(LinesOf(after), back) = 1
  BY <1>6, <1>7, PlaceIs
<1>10. LinesOf(after) # Gone /\ LinesOf(before) # Gone
  BY <1>4, EditAssumption
<1>11. Applied(LinesOf(after), back) = LinesOf(before)
  BY <1>6, <1>7, <1>9, <1>10 DEF Applied
<1>12. Patched(after, <<back>>) = TextOf(LinesOf(before), EndsInNewline(after))
  <2> DEFINE hs == <<back>>
             end == Stages(after, hs)[Len(hs)]
  <2>1. hs \in Seq(Hunk) /\ Len(hs) = 1 /\ hs[1] = back
    BY <1>8
  <2> HIDE DEF hs
  <2>2. /\ Patched(after, hs) = IF end = Gone THEN Misfit ELSE TextOf(end, EndsInNewline(after))
        /\ Len(hs) = 1 => end = Applied(LinesOf(after), hs[1])
    BY <1>3, <2>1, PatchedIs
  <2> HIDE DEF end
  <2>3. end = LinesOf(before)
    BY <1>11, <2>1, <2>2
  <2>4. Patched(after, hs) = TextOf(LinesOf(before), EndsInNewline(after))
    BY <1>10, <2>2, <2>3
  <2> QED BY <2>4 DEF hs
<1>13. TextOf(LinesOf(before), TRUE) = before
  BY <1>4 DEF TextOf
<1> QED BY <1>3, <1>5, <1>12, <1>13 DEF after

\* The recursive function inside AllReplaced.
Rests(text, old, new) ==
  CHOOSE from : from = [i \in 1..Len(text) + 1 |->
                          IF i > Len(text) THEN <<>>
                          ELSE IF i \in OccursAt(text, old) THEN new \o from[i + Len(old)]
                          ELSE <<text[i]>> \o from[i + 1]]

LEMMA AllReplacedType ==
  ASSUME NEW text \in Seq(Line), NEW old \in Seq(Line), old # <<>>, NEW new \in Seq(Line)
  PROVE  AllReplaced(text, old, new) \in Seq(Line)
<1> DEFINE N == Len(text)
           M == Len(old)
           Here == OccursAt(text, old)
           Rest(f, i) == IF i > N THEN <<>> ELSE IF i \in Here THEN new \o f[i + M] ELSE <<text[i]>> \o f[i + 1]
           Obeys(f) == f = [i \in 1..N + 1 |-> Rest(f, i)]
           P == {n \in 0..N : \E f : /\ \A i \in N + 1 - n..N + 1 : f[i] = Rest(f, i)
                                    /\ f = [i \in N + 1 - n..N + 1 |-> f[i]]}
           Q == {n \in 0..N : \A i \in N + 1 - n..N + 1 : Rests(text, old, new)[i] \in Seq(Line)}
<1>1. N \in Nat /\ M \in Nat \ {0} /\ \A i \in 1..N : text[i] \in Line
  BY EmptySeq
<1>2. \A i \in Here : i + M <= N + 1
  BY DEF OccursAt, FitsAt
<1> HIDE DEF N, M, Here
<1>3. 0 \in P
  <2> DEFINE f == [i \in N + 1 - 0..N + 1 |-> <<>>]
  <2>1. \A i \in N + 1 - 0..N + 1 : i > N
    BY <1>1
  <2>2. \A i \in N + 1 - 0..N + 1 : f[i] = Rest(f, i)
    BY <2>1
  <2>3. f = [i \in N + 1 - 0..N + 1 |-> f[i]] /\ 0 \in 0..N
    BY <1>1
  <2> HIDE DEF f
  <2> QED BY <2>2, <2>3
<1>4. ASSUME NEW n \in 0..N - 1, n \in P
      PROVE  n + 1 \in P
  <2>1. PICK f : /\ \A i \in N + 1 - n..N + 1 : f[i] = Rest(f, i)
                 /\ f = [i \in N + 1 - n..N + 1 |-> f[i]]
    BY <1>4
  <2> DEFINE j == N + 1 - (n + 1)
             x == Rest(f, j)
             g == [i \in j..N + 1 |-> IF i = j THEN x ELSE f[i]]
  <2>2. n \in Nat /\ j \in Nat /\ j < N + 1 - n /\ n + 1 \in 0..N
    BY <1>1
  <2>3. \A i \in j..N + 1 : i = j \/ (i \in N + 1 - n..N + 1 /\ i # j)
    BY <1>1, <2>2
  <2>4. \A i \in j..N + 1 : i <= N => i + 1 \in N + 1 - n..N + 1
    BY <1>1, <2>2
  <2>5. \A i \in j..N + 1 : i \in Here => i + M \in N + 1 - n..N + 1
    BY <1>1, <1>2, <2>2
  <2>6. \A i \in N + 1 - n..N + 1 : g[i] = f[i]
    BY <1>1, <2>2
  <2>7. j \in j..N + 1 /\ g[j] = x
    BY <1>1, <2>2
  <2>8. g = [i \in j..N + 1 |-> g[i]]
    OBVIOUS
  <2> HIDE DEF g
  <2>9. \A i \in j..N + 1 : Rest(g, i) = Rest(f, i)
    <3> HIDE DEF j
    <3> TAKE i \in j..N + 1
    <3>1. i <= N => g[i + 1] = f[i + 1]
      BY <2>4, <2>6
    <3>2. i \in Here => g[i + M] = f[i + M]
      BY <2>5, <2>6
    <3>3. i > N \/ i <= N
      BY <1>1, <2>2
    <3> QED BY <3>1, <3>2, <3>3
  <2>10. \A i \in j..N + 1 : g[i] = Rest(g, i)
    <3> HIDE DEF j, Rest
    <3> QED BY <2>1, <2>3, <2>6, <2>7, <2>9
  <2> HIDE DEF Rest
  <2> QED BY <2>2, <2>8, <2>10
<1>5. N \in P
  <2> HIDE DEF P
  <2>1. 0..N \subseteq P
    BY <1>1, <1>3, <1>4, Induction
  <2> QED BY <1>1, <2>1
<1>6. Obeys(Rests(text, old, new))
  <2>1. N + 1 - N = 1
    BY <1>1
  <2>2. \E f : Obeys(f)
    <3> HIDE DEF Rest
    <3>1. PICK f : /\ \A i \in N + 1 - N..N + 1 : f[i] = Rest(f, i)
                   /\ f = [i \in N + 1 - N..N + 1 |-> f[i]]
      BY <1>5
    <3> QED BY <2>1, <3>1
  <2>3. Rests(text, old, new) = CHOOSE f : Obeys(f)
    BY DEF Rests, N, M, Here
  <2> HIDE DEF Obeys
  <2> QED BY <2>2, <2>3
<1> DEFINE f == Rests(text, old, new)
<1>7. \A i \in 1..N + 1 : f[i] = Rest(f, i)
  <2> HIDE DEF f, Rest
  <2>1. Obeys(f)
    BY <1>6 DEF f
  <2> QED BY <2>1
<1>8. 0 \in Q
  <2>1. \A i \in N + 1 - 0..N + 1 : i \in 1..N + 1 /\ i > N
    BY <1>1
  <2>2. <<>> \in Seq(Line) /\ 0 \in 0..N
    BY <1>1
  <2> HIDE DEF f
  <2>3. \A i \in N + 1 - 0..N + 1 : f[i] \in Seq(Line)
    BY <1>7, <2>1, <2>2
  <2> QED BY <2>2, <2>3 DEF f
<1>9. ASSUME NEW n \in 0..N - 1, n \in Q
      PROVE  n + 1 \in Q
  <2> DEFINE j == N + 1 - (n + 1)
  <2>1. n \in Nat /\ j \in 1..N /\ j \in 1..N + 1 /\ j < N + 1 - n /\ n + 1 \in 0..N
    BY <1>1
  <2>2. \A i \in j..N + 1 : i = j \/ i \in N + 1 - n..N + 1
    BY <1>1, <2>1
  <2>3. j + 1 \in N + 1 - n..N + 1
    BY <1>1, <2>1
  <2>4. j \in Here => j + M \in N + 1 - n..N + 1
    BY <1>1, <1>2, <2>1
  <2>5. \A i \in N + 1 - n..N + 1 : f[i] \in Seq(Line)
    BY <1>9
  <2>6. ~(j > N) /\ text[j] \in Line
    BY <1>1, <2>1
  <2> HIDE DEF f, j
  <2>7. f[j] = IF j \in Here THEN new \o f[j + M] ELSE <<text[j]>> \o f[j + 1]
    BY <1>7, <2>1, <2>6
  <2>8. \A u, v \in Seq(Line) : u \o v \in Seq(Line)
    BY ConcatProperties
  <2>9. <<text[j]>> \in Seq(Line)
    BY <2>6
  <2>10. f[j] \in Seq(Line)
    BY <2>3, <2>4, <2>5, <2>7, <2>8, <2>9
  <2>11. \A i \in j..N + 1 : f[i] \in Seq(Line)
    BY <2>2, <2>5, <2>10
  <2> QED BY <2>1, <2>11 DEF f, j
<1>10. f[1] \in Seq(Line)
  <2> HIDE DEF Q
  <2>1. 0..N \subseteq Q
    BY <1>1, <1>8, <1>9, Induction
  <2>2. N \in Q /\ N + 1 - N = 1 /\ 1 \in 1..N + 1
    BY <1>1, <2>1
  <2> QED BY <2>2 DEF Q
<1> QED BY <1>10 DEF AllReplaced, Rests, N, M, Here

LEMMA ReplacedType ==
  ASSUME NEW text \in Seq(Line), NEW old \in Seq(Line), old # <<>>, NEW new \in Seq(Line),
         NEW all \in BOOLEAN
  PROVE  Replaced(text, old, new, all) \in Seq(Line)
<1> DEFINE Here == OccursAt(text, old)
           i == CHOOSE i \in Here : TRUE
<1>1. ASSUME Cardinality(Here) = 1
      PROVE  ReplaceSubSeqAt(i, new, old, text) \in Seq(Line)
  <2>1. Here # {}
    <3> HIDE DEF Here
    <3>1. Cardinality({}) = 0
      BY FS_EmptySet
    <3>2. Cardinality({}) # 1
      BY <3>1
    <3> QED BY <1>1, <3>2, Zenon
  <2>2. i \in Here
    BY <2>1
  <2>3. i \in Nat /\ FitsAt(text, [old |-> old], i)
    BY <2>2 DEF OccursAt
  <2> HIDE DEF i
  <2> QED BY <2>3, ReplacedPart
<1>2. AllReplaced(text, old, new) \in Seq(Line)
  BY AllReplacedType
<1>3. Misfit \in Seq(Line)
  BY EmptySeq DEF Misfit
<1> HIDE DEF Here, i
<1>4. \/ Replaced(text, old, new, all) = AllReplaced(text, old, new)
      \/ Cardinality(Here) = 1 /\ Replaced(text, old, new, all) = ReplaceSubSeqAt(i, new, old, text)
      \/ Replaced(text, old, new, all) = Misfit
  BY DEF Replaced, Here, i
<1> QED BY <1>1, <1>2, <1>3, <1>4

LEMMA ChangesType == Changes \subseteq Seq(Line)
<1>1. <<>> \in Seq(Line) /\ \A l \in Line : <<l>> \in Seq(Line) /\ <<Blank, l>> \in Seq(Line)
  BY EditAssumption
<1> QED BY <1>1 DEF Changes

LEMMA HunksType ==
  ASSUME NEW text \in Seq(Line), text # <<>>
  PROVE  HunksOf(text) \subseteq Hunk
<1> DEFINE lines == LinesOf(text)
<1>1. lines \in Seq(Line)
  BY LinesAre
<1> HIDE DEF lines
<1>2. ASSUME NEW i \in DOMAIN lines, NEW j \in i..Len(lines), NEW new \in Changes
      PROVE  [start |-> i, old |-> SubSeq(lines, i, j), new |-> new] \in Hunk
  <2>1. i \in Nat /\ i \in 1..Len(lines) + 1 /\ j \in 0..Len(lines)
    BY <1>1
  <2>2. SubSeq(lines, i, j) \in Seq(Line)
    BY <1>1, <2>1, PartOf
  <2> QED BY <2>1, <2>2, ChangesType DEF Hunk
<1> QED BY <1>2 DEF HunksOf, lines

LEMMA PatchedType ==
  ASSUME NEW text \in Seq(Line), text # <<>>, NEW hunks \in Seq(Hunk)
  PROVE  Patched(text, hunks) \in Seq(Line)
<1> DEFINE last == Stages(text, hunks)[Len(hunks)]
<1>1. /\ last \in Seq(Line) \cup {Gone}
      /\ Patched(text, hunks) = IF last = Gone THEN Misfit ELSE TextOf(last, EndsInNewline(text))
  BY PatchedIs
<1>2. EndsInNewline(text) \in BOOLEAN /\ Misfit \in Seq(Line)
  BY EmptySeq DEF EndsInNewline, Misfit
<1> HIDE DEF last
<1> QED BY <1>1, <1>2, TextIs

\* A hunk of a diff of the text applies to it.
LEMMA OwnHunkApplies ==
  ASSUME NEW text \in Seq(Line), text # <<>>, NEW hunk \in HunksOf(text)
  PROVE  Patched(text, <<hunk>>) # Misfit
<1> DEFINE lines == LinesOf(text)
           last == Stages(text, <<hunk>>)[Len(<<hunk>>)]
<1>1. lines \in Seq(Line) /\ hunk \in Hunk
  BY LinesAre, HunksType
<1>2a. PICK i \in DOMAIN lines :
         \E j \in i..Len(lines) : hunk.start = i /\ hunk.old = SubSeq(lines, i, j)
  BY DEF HunksOf
<1>2. PICK j \in i..Len(lines) : hunk.start = i /\ hunk.old = SubSeq(lines, i, j)
  BY <1>2a
<1>3. <<hunk>> \in Seq(Hunk) /\ Len(<<hunk>>) = 1 /\ <<hunk>>[1] = hunk
  BY <1>1
<1>4. /\ last \in Seq(Line) \cup {Gone} /\ last = Applied(lines, hunk)
      /\ Patched(text, <<hunk>>) = IF last = Gone THEN Misfit ELSE TextOf(last, EndsInNewline(text))
  BY <1>3, PatchedIs
<1> HIDE DEF lines, last
<1>5. i \in Nat \ {0} /\ i \in 1..Len(lines) + 1 /\ j \in 0..Len(lines) /\ i <= j /\ Len(lines) \in Nat
  BY <1>1
<1>6. Len(hunk.old) = j - i + 1
  BY <1>1, <1>2, <1>5, PartOf
<1>7. FitsAt(lines, hunk, hunk.start)
  <2>0. i \in Nat /\ j \in Nat
    BY <1>5
  <2>a. \A l : l = j - i + 1 => i + l = j + 1 /\ i + l - 1 = j
    BY <2>0
  <2>1. i + Len(hunk.old) = j + 1 /\ i + Len(hunk.old) - 1 = j
    BY <1>6, <2>a, Zenon
  <2>2. i >= 1 /\ j + 1 <= Len(lines) + 1
    BY <1>5
  <2> QED BY <1>2, <2>1, <2>2 DEF FitsAt
<1>8. PlaceOf(lines, hunk) = i /\ hunk.start \in Nat
  BY <1>2, <1>5, <1>7, PlaceIs
<1>9. ReplaceSubSeqAt(i, hunk.new, hunk.old, lines) \in Seq(Line)
  <2>1. FitsAt(lines, [old |-> hunk.old], i)
    BY <1>2, <1>7 DEF FitsAt
  <2>2. hunk.new \in Seq(Line) /\ hunk.old \in Seq(Line)
    BY <1>1 DEF Hunk
  <2> QED BY <1>1, <1>5, <2>1, <2>2, ReplacedPart
<1>10. lines # Gone /\ i # 0
  BY <1>1, <1>5, EditAssumption
<1>11. last = ReplaceSubSeqAt(i, hunk.new, hunk.old, lines)
  BY <1>4, <1>8, <1>10 DEF Applied
<1>12. last \in Seq(Line) /\ last # Gone
  BY <1>9, <1>11, EditAssumption
<1>13. EndsInNewline(text) \in BOOLEAN
  BY DEF EndsInNewline
<1> QED BY <1>4, <1>12, <1>13, TextIs DEF Misfit

Texts == \A n \in Names : Exists(n) => docs[n].text \in Seq(Line) /\ docs[n].text # <<>>

LEMMA TextsRestored == Texts => ReverseRestores
<1> SUFFICES ASSUME Texts, NEW n \in Names, Exists(n), EndsInNewline(docs[n].text),
                    NEW hunk \in HunksOf(docs[n].text)
             PROVE  LET before == docs[n].text
                        after  == Patched(before, <<hunk>>)
                    IN Patched(after, Reversed(before, after)) = before
  BY DEF ReverseRestores
<1>1. docs[n].text \in Seq(Line) /\ docs[n].text # <<>>
  BY DEF Texts
<1>2. hunk \in Hunk /\ Patched(docs[n].text, <<hunk>>) # Misfit
  BY <1>1, HunksType, OwnHunkApplies
<1>3. <<hunk>> \in Seq(Hunk)
  BY <1>2
<1> QED BY <1>1, <1>2, <1>3, ReverseTakesBack

\* What each section of a patch writes, and what is written over the sections.
LEMMA PlannedType ==
  ASSUME Texts, NEW patch \in Patches, Accepted(patch), NEW k \in DOMAIN patch
  PROVE  Planned(patch[k]) \in Seq(Line) /\ Planned(patch[k]) # <<>>
<1> DEFINE s == patch[k]
<1>1. s \in Sections /\ Tidy(Planned(s)) /\ (s.action = "modify" => Exists(s.name))
  <2>1. \A t, u : DOMAIN <<t>> = {1} /\ DOMAIN <<t, u>> = {1, 2} /\ <<t>>[1] = t
                 /\ <<t, u>>[1] = t /\ <<t, u>>[2] = u
    OBVIOUS
  <2>2. patch[k] \in Sections
    BY <2>1 DEF Patches
  <2> QED BY <2>2 DEF Accepted
<1>2. Planned(s) # <<>>
  BY <1>1 DEF Tidy
<1> HIDE DEF s
<1>3. ASSUME s.action = "create", s.new \in Drafts
      PROVE  Planned(s) \in Seq(Line)
  <2>1. Planned(s) = s.new
    BY <1>3 DEF Planned
  <2>2. Drafts \subseteq Seq(Line)
    BY EditAssumption
  <2> QED BY <1>3, <2>1, <2>2
<1>4. ASSUME NEW n \in Names, NEW h \in HunksOf(docs[n].text), Exists(n), s.action = "modify",
             s.name = n, s.hunks = <<h>>
      PROVE  Planned(s) \in Seq(Line)
  <2>1. docs[n].text \in Seq(Line) /\ docs[n].text # <<>>
    BY <1>4 DEF Texts
  <2>2. h \in Hunk
    BY <2>1, HunksType
  <2>3. <<h>> \in Seq(Hunk)
    BY <2>2
  <2>4. Patched(docs[n].text, <<h>>) \in Seq(Line)
    BY <2>1, <2>3, PatchedType
  <2> QED BY <1>4, <2>4 DEF Planned
<1>5. \/ s.action = "create" /\ s.new \in Drafts
      \/ \E n \in Names : Exists(n) /\ \E h \in HunksOf(docs[n].text) :
           s.action = "modify" /\ s.name = n /\ s.hunks = <<h>>
  BY <1>1 DEF Sections
<1> QED BY <1>2, <1>3, <1>4, <1>5 DEF s

LEMMA WrittenTexts ==
  ASSUME Texts, Shape, NEW n \in Names, NEW text \in Seq(Line), text # <<>>, Written(n, text)
  PROVE  Texts'
<1>1. docs' = [m \in Names |-> IF m = n THEN Doc(text, clock + 1) ELSE docs[m]]
  BY DEF Written, Shape
<1>2. Doc(text, clock + 1).text = text
  BY DEF Doc
<1> QED BY <1>1, <1>2 DEF Texts, Exists

LEMMA WrittenPatchTexts ==
  ASSUME Texts, Shape, NEW patch \in Patches, Accepted(patch), NEW k \in DOMAIN patch, WritePatch(patch, k)
  PROVE  Texts'
<1> DEFINE L(n) == LastFor(n, patch, k)
<1>1. DOMAIN patch \in {{1}, {1, 2}}
  <2>1. \A t, u : DOMAIN <<t>> = {1} /\ DOMAIN <<t, u>> = {1, 2}
    OBVIOUS
  <2> QED BY <2>1 DEF Patches
<1>2. \A n \in Names : L(n) \in {0} \cup DOMAIN patch
  <2> TAKE n \in Names
  <2> DEFINE I == {i \in 1..k : patch[i].name = n}
  <2>1. L(n) = IF I # {} THEN Max(I) ELSE 0
    BY DEF LastFor, SelectLastInSubSeq
  <2>2. I \subseteq 1..k /\ 1..k \subseteq DOMAIN patch /\ (k = 1 \/ k = 2)
    BY <1>1
  <2>3. 1..1 = {1} /\ 1..2 = {1, 2}
    OBVIOUS
  <2> HIDE DEF I
  <2>4. I # {} => \E i \in I : \A j \in I : j <= i
    <3>1. I \subseteq {1, 2}
      BY <2>2, <2>3
    <3>2. CASE 2 \in I
      BY <3>1, <3>2
    <3>3. CASE 2 \notin I
      <4>1. I \subseteq {1}
        BY <3>1, <3>3
      <4>2. \A j \in I : j = 1 /\ j <= 1
        BY <4>1
      <4>3. I # {} => 1 \in I
        BY <4>2
      <4> QED BY <4>2, <4>3
    <3> QED BY <3>2, <3>3
  <2>5. I # {} => Max(I) \in I
    BY <2>4 DEF Max
  <2> QED BY <2>1, <2>2, <2>5
<1>3. docs' = [n \in Names |-> IF L(n) = 0 THEN docs[n] ELSE Doc(Planned(patch[L(n)]), clock + L(n))]
  BY DEF WritePatch
<1> HIDE DEF L
<1>4. \A text, stamp : Doc(text, stamp).text = text
  BY DEF Doc
<1>5. \A l \in DOMAIN patch : Planned(patch[l]) \in Seq(Line) /\ Planned(patch[l]) # <<>>
  BY PlannedType
<1>6. ASSUME NEW n \in Names, Exists(n)'
      PROVE  docs'[n].text \in Seq(Line) /\ docs'[n].text # <<>>
  <2>1. CASE L(n) = 0
    BY <1>3, <1>6, <2>1 DEF Texts, Exists
  <2>2. CASE L(n) # 0
    BY <1>2, <1>3, <1>4, <1>5, <2>2
  <2> QED BY <2>1, <2>2
<1> QED BY <1>6 DEF Texts

\* What is at a name is what was there or at another name.
LEMMA MovedTexts ==
  ASSUME Texts, \A n \in Names : docs'[n] \in {docs[m] : m \in Names} \cup {Gone}
  PROVE  Texts'
BY DEF Texts, Exists

LEMMA TextsStep == Shape /\ Texts /\ [EditsNext]_editVars => Texts'
<1> SUFFICES ASSUME Shape, Texts, [EditsNext]_editVars PROVE Texts'
  OBVIOUS
<1>1. Drafts \subseteq Seq(Line) /\ <<>> \notin Drafts
  BY EditAssumption
<1>2. ASSUME NEW n \in Names, \E text \in Drafts : Written(n, text)
      PROVE  Texts'
  BY <1>1, <1>2, WrittenTexts
<1>3. ASSUME NEW n \in Names, SearchReplace(n)
      PROVE  Texts'
  <2> DEFINE t == docs[n].text
  <2>1. t \in Seq(Line) /\ t # <<>>
    BY <1>3 DEF SearchReplace, Texts
  <2>2. PICK i \in DOMAIN t : \E j \in DOMAIN t, new \in Changes, all \in BOOLEAN :
          LET text == Replaced(t, SubSeq(t, i, j), new, all)
          IN i <= j /\ Tidy(text) /\ Written(n, text)
    BY <1>3 DEF SearchReplace
  <2>3. PICK j \in DOMAIN t, new \in Changes, all \in BOOLEAN :
          LET text == Replaced(t, SubSeq(t, i, j), new, all)
          IN i <= j /\ Tidy(text) /\ Written(n, text)
    BY <2>2
  <2> DEFINE old == SubSeq(t, i, j)
             text == Replaced(t, old, new, all)
  <2> HIDE DEF t
  <2>4. i \in 1..Len(t) + 1 /\ j \in 0..Len(t) /\ i <= j /\ i \in Nat /\ j \in Nat
    BY <2>1, <2>3
  <2>5. old \in Seq(Line) /\ Len(old) = j - i + 1
    BY <2>1, <2>4, PartOf
  <2>6. old # <<>>
    <3>1. Len(<<>>) = 0 /\ j - i + 1 # 0
      BY <2>4
    <3> QED BY <2>5, <3>1
  <2> HIDE DEF old
  <2>7. new \in Seq(Line)
    BY ChangesType
  <2>8. text \in Seq(Line)
    BY <2>1, <2>5, <2>6, <2>7, ReplacedType
  <2>9. Written(n, text) /\ text # <<>>
    BY <2>3 DEF Tidy, old
  <2> HIDE DEF text
  <2> QED BY <2>8, <2>9, WrittenTexts
<1>4. ASSUME NEW n \in Names, OtherDeletes(n) \/ DeleteFile(n)
      PROVE  Texts'
  <2>1. docs' = [docs EXCEPT ![n] = Gone]
    BY <1>4 DEF OtherDeletes, DeleteFile
  <2>2. \A m \in Names : docs'[m] = IF m = n THEN Gone ELSE docs[m]
    BY <2>1 DEF Shape
  <2> QED BY <2>2, MovedTexts
<1>5. ASSUME NEW n \in Names, NEW m \in Names, OtherMoves(n, m) \/ MoveFile(n, m)
      PROVE  Texts'
  <2>1. docs' = [docs EXCEPT ![n] = Gone, ![m] = docs[n]]
    BY <1>5 DEF OtherMoves, MoveFile
  <2>2. \A k \in Names : docs'[k] = IF k = m THEN docs[n] ELSE IF k = n THEN Gone ELSE docs[k]
    BY <2>1 DEF Shape
  <2> QED BY <2>2, MovedTexts
<1>6. CASE ApplyPatch
  <2>1. PICK patch \in Patches : Accepted(patch) /\ WritePatch(patch, Len(patch))
    BY <1>6 DEF ApplyPatch
  <2>2. Len(patch) \in DOMAIN patch
    <3>1. \A t, u : /\ Len(<<t>>) = 1 /\ DOMAIN <<t>> = {1}
                   /\ Len(<<t, u>>) = 2 /\ DOMAIN <<t, u>> = {1, 2}
      OBVIOUS
    <3> QED BY <3>1 DEF Patches
  <2> QED BY <2>1, <2>2, WrittenPatchTexts
<1>7. CASE PatchBreaks
  <2>1. PICK s \in Sections : Accepted(<<s>>) /\ WritePatch(<<s>>, 1)
    BY <1>7 DEF PatchBreaks
  <2>2. <<s>> \in Patches /\ 1 \in DOMAIN <<s>>
    BY DEF Patches
  <2> QED BY <2>1, <2>2, WrittenPatchTexts
<1>8. CASE UNCHANGED docs
  BY <1>8 DEF Texts, Exists
<1>9. ASSUME NEW r \in Readers, (\E n \in Names : StatFile(r, n)) \/ ReadBytes(r) \/ Record(r)
      PROVE  UNCHANGED docs
  BY <1>9 DEF StatFile, ReadBytes, Record
<1>10. UNCHANGED editVars => UNCHANGED docs
  BY DEF editVars
<1> QED BY <1>2, <1>3, <1>4, <1>5, <1>6, <1>7, <1>8, <1>9, <1>10 DEF EditsNext, OtherWrites, WriteFile

LEMMA TextsInit == EditsInit => Texts
<1> SUFFICES ASSUME EditsInit, NEW n \in Names, Exists(n)
             PROVE  docs[n].text \in Seq(Line) /\ docs[n].text # <<>>
  BY DEF Texts
<1>1. docs[n] \in [text : Drafts, stamp : 1..clock]
  BY DEF EditsInit, Exists
<1> QED BY <1>1, EditAssumption

\* The reverse patch of any file that ends in a newline takes back any one-hunk
\* patch of it, wherever the file has been through (generateReversePatch against
\* applyHunks): for any lines, texts, window and bounds.
THEOREM ReversesRestore == EditsSpec => []ReverseRestores
<1>1. EditsInv => Shape
  BY DEF EditsInv
<1>2. EditsSpec => []Texts
  BY EditsInvariant, TextsInit, TextsStep, <1>1, PTL DEF EditsSpec
<1> QED BY <1>2, TextsRestored, PTL

-----------------------------------------------------------------------------
(***************************************************************************)
(* VerificationGate for any probes and any number of retries.  The gate    *)
(* looks at outcomes; what was answered on the way to them is remembered   *)
(* in the invariant: a probe that is still under way has its earlier turn  *)
(* behind it and nothing else, one that is "available" has had exactly the *)
(* answers it needs.                                                       *)
(***************************************************************************)
ProbeState ==
  [turn : {1, 2}, attempt : Nat, outcome : {"none", "unavailable", "untested", "available"},
   answers : Seq(Nat)]

\* openai.phase is left out: a 401 passes for a proof there.
Honest == Probed \ {"openai.phase"}

\* So many answers, all of them 200.
Good(answers, n) == Len(answers) = n /\ \A i \in 1..n : answers[i] = 200

UnderWayInv(p, state) ==
  state.outcome = "none" =>
    \/ state.turn = 1 /\ Good(state.answers, 0)
    \/ state.turn = 2 /\ p \in TwoTurns /\ Good(state.answers, 1)

AvailableInv(p, state) ==
  state.outcome = "available" => Good(state.answers, IF p \in TwoTurns THEN 2 ELSE 1)

GateInv ==
  /\ probes \in [Probed -> ProbeState]
  /\ \A p \in Honest : UnderWayInv(p, probes[p]) /\ AvailableInv(p, probes[p])
  /\ verdict = "pass" => \A p \in Probed : ~Blocks(p)

LEMMA GateInvInit == GateInit => GateInv
  BY DEF GateInit, GateInv, ProbeState, Honest, UnderWayInv, AvailableInv, Good

\* Whatever a probe asks of the body, it asks for a 200.
LEMMA ProofIsSuccess ==
  ASSUME NEW p \in Honest, NEW turn, NEW r, Proves(p, turn, r)
  PROVE  r.status = 200
  BY DEF Honest, Proves, Succeeds, EffortHigh, AdaptiveThinking, PreviousResponse,
         SignatureRoundtrip

\* A step that gives one probe a state that is in order, while there is no verdict.
LEMMA NoteInv ==
  ASSUME GateInv, NEW p \in Probed, NEW state \in ProbeState, Note(p, state),
         p \in Honest => UnderWayInv(p, state) /\ AvailableInv(p, state),
         verdict' # "pass"
  PROVE  GateInv'
<1>1. probes' = [q \in Probed |-> IF q = p THEN state ELSE probes[q]]
  BY DEF Note, GateInv
<1>2. Honest \subseteq Probed
  BY DEF Honest
<1> QED BY <1>1, <1>2 DEF GateInv

LEMMA NoKeyInv ==
  ASSUME GateInv, NEW p \in Probed, NoKey(p)
  PROVE  GateInv'
<1> DEFINE to == IF p \in Models THEN "unavailable" ELSE "untested"
           state == [probes[p] EXCEPT !.outcome = to]
<1>1. Note(p, state) /\ verdict' = "none"
  BY DEF NoKey, Runs
<1>2. state \in ProbeState /\ state.outcome \in {"unavailable", "untested"}
  BY DEF GateInv, ProbeState
<1> QED BY <1>1, <1>2, NoteInv DEF UnderWayInv, AvailableInv

LEMMA RetryInv ==
  ASSUME GateInv, NEW p \in Probed, Runs(p), Retry(p), UNCHANGED verdict
  PROVE  GateInv'
<1> DEFINE state == [probes[p] EXCEPT !.attempt = @ + 1]
<1>1. Note(p, state) /\ verdict' = "none"
  BY DEF Retry, Runs
<1>2. /\ state \in ProbeState /\ state.outcome = probes[p].outcome
      /\ state.turn = probes[p].turn /\ state.answers = probes[p].answers
  <2>1. probes[p] \in ProbeState
    BY DEF GateInv
  <2> QED BY <2>1 DEF ProbeState
<1> HIDE DEF state
<1>3. p \in Honest => UnderWayInv(p, state) /\ AvailableInv(p, state)
  BY <1>2 DEF GateInv, UnderWayInv, AvailableInv
<1> QED BY <1>1, <1>2, <1>3, NoteInv

LEMMA ResponseStatus ==
  ASSUME NEW r \in Responses
  PROVE  r.status \in Nat
<1>1. CASE r \in [status : {200}, body : BOOLEAN, phase : {FALSE}]
  BY <1>1
<1>2. CASE r \in [status : {400}, body : {FALSE}, phase : BOOLEAN]
  BY <1>2
<1>3. CASE r \in [status : {401, 429}, body : {FALSE}, phase : {FALSE}]
  BY <1>3
<1>4. \/ r \in [status : {200}, body : BOOLEAN, phase : {FALSE}]
      \/ r \in [status : {400}, body : {FALSE}, phase : BOOLEAN]
      \/ r \in [status : {401, 429}, body : {FALSE}, phase : {FALSE}]
  BY Zenon DEF Responses
<1> QED BY <1>1, <1>2, <1>3, <1>4

LEMMA OneMore ==
  ASSUME NEW s \in Seq(Nat), NEW n \in Nat, Good(s, n), NEW x \in Nat
  PROVE  Append(s, x) \in Seq(Nat) /\ (x = 200 => Good(Append(s, x), n + 1))
  BY DEF Good

\* An answer that counts: the turn before it, if there is one, had its own.
LEMMA RespondInv ==
  ASSUME GateInv, NEW p \in Probed, Respond(p)
  PROVE  GateInv'
<1>1. PICK r \in Responses :
        LET seen == [probes[p] EXCEPT !.answers = Append(@, r.status), !.attempt = 0] IN
        IF Retryable(r) /\ MayRetry(p) THEN Retry(p)
        ELSE Note(p, IF ~Proves(p, seen.turn, r) THEN [seen EXCEPT !.outcome = "unavailable"]
                     ELSE IF p \in TwoTurns /\ seen.turn = 1 THEN [seen EXCEPT !.turn = 2]
                     ELSE [seen EXCEPT !.outcome = "available"])
  BY DEF Respond
<1>2. /\ Runs(p) /\ UNCHANGED verdict /\ verdict' # "pass"
      /\ probes[p].outcome = "none" /\ probes[p] \in ProbeState
  BY DEF Respond, Runs, GateInv
<1>3. r.status \in Nat
  BY ResponseStatus
<1> DEFINE now == Append(probes[p].answers, r.status)
           seen == [probes[p] EXCEPT !.answers = now, !.attempt = 0]
<1>4. /\ seen \in ProbeState /\ seen.answers = now
      /\ seen.turn = probes[p].turn /\ seen.outcome = "none"
  <2>1. now \in Seq(Nat)
    BY <1>2, <1>3 DEF ProbeState
  <2> HIDE DEF now
  <2> DEFINE half == [probes[p] EXCEPT !.answers = now]
  <2>2. /\ half \in ProbeState /\ half.answers = now
        /\ half.turn = probes[p].turn /\ half.outcome = "none"
    BY <2>1, <1>2 DEF ProbeState
  <2>3. seen = [half EXCEPT !.attempt = 0]
    BY <1>2 DEF ProbeState
  <2> HIDE DEF half, seen
  <2> QED BY <2>2, <2>3 DEF ProbeState
<1>5. p \in Honest =>
        IF seen.turn = 1 THEN r.status = 200 => Good(now, 1)
        ELSE p \in TwoTurns /\ (r.status = 200 => Good(now, 2))
  <2> SUFFICES ASSUME p \in Honest
               PROVE  IF seen.turn = 1 THEN r.status = 200 => Good(now, 1)
                      ELSE p \in TwoTurns /\ (r.status = 200 => Good(now, 2))
    OBVIOUS
  <2>1. probes[p].answers \in Seq(Nat)
    BY <1>2 DEF ProbeState
  <2>2. \/ probes[p].turn = 1 /\ Good(probes[p].answers, 0)
        \/ probes[p].turn = 2 /\ p \in TwoTurns /\ Good(probes[p].answers, 1)
    BY <1>2 DEF GateInv, UnderWayInv
  <2>3. 0 + 1 = 1 /\ 1 + 1 = 2
    OBVIOUS
  <2> HIDE DEF seen
  <2> QED BY <2>1, <2>2, <2>3, <1>3, <1>4, OneMore
<1> HIDE DEF seen, now
<1>6. CASE Retryable(r) /\ MayRetry(p)
  BY <1>1, <1>2, <1>6, RetryInv
<1>7. CASE ~(Retryable(r) /\ MayRetry(p)) /\ ~Proves(p, seen.turn, r)
  <2> DEFINE state == [seen EXCEPT !.outcome = "unavailable"]
  <2>1. Note(p, state)
    BY <1>1, <1>7 DEF seen, now
  <2>2. state \in ProbeState /\ state.outcome = "unavailable"
    BY <1>4 DEF ProbeState
  <2> QED BY <2>1, <2>2, <1>2, NoteInv DEF UnderWayInv, AvailableInv
<1>8. CASE /\ ~(Retryable(r) /\ MayRetry(p)) /\ Proves(p, seen.turn, r)
           /\ p \in TwoTurns /\ seen.turn = 1
  <2> DEFINE state == [seen EXCEPT !.turn = 2]
  <2>1. Note(p, state)
    BY <1>1, <1>8 DEF seen, now
  <2>2. /\ state \in ProbeState /\ state.outcome = "none" /\ state.turn = 2
        /\ state.answers = now
    BY <1>4 DEF ProbeState
  <2>3. p \in Honest => Good(now, 1)
    BY <1>5, <1>8, ProofIsSuccess
  <2> QED BY <2>1, <2>2, <2>3, <1>2, <1>8, NoteInv DEF UnderWayInv, AvailableInv
<1>9. CASE /\ ~(Retryable(r) /\ MayRetry(p)) /\ Proves(p, seen.turn, r)
           /\ ~(p \in TwoTurns /\ seen.turn = 1)
  <2> DEFINE state == [seen EXCEPT !.outcome = "available"]
  <2>1. Note(p, state)
    BY <1>1, <1>9 DEF seen, now
  <2>2. /\ state \in ProbeState /\ state.outcome = "available" /\ state.answers = now
    BY <1>4 DEF ProbeState
  <2>3. p \in Honest => Good(now, IF p \in TwoTurns THEN 2 ELSE 1)
    BY <1>5, <1>9, ProofIsSuccess
  <2> QED BY <2>1, <2>2, <2>3, <1>2, NoteInv DEF UnderWayInv, AvailableInv
<1> QED BY <1>6, <1>7, <1>8, <1>9

LEMMA LostInv ==
  ASSUME GateInv, NEW p \in Probed, Lost(p)
  PROVE  GateInv'
<1>1. CASE Retry(p) /\ UNCHANGED verdict
  BY <1>1, RetryInv DEF Lost
<1>2. CASE Note(p, [probes[p] EXCEPT !.outcome = "unavailable"]) /\ UNCHANGED verdict
  <2> DEFINE state == [probes[p] EXCEPT !.outcome = "unavailable"]
  <2>1. state \in ProbeState /\ state.outcome = "unavailable"
    BY DEF GateInv, ProbeState
  <2>2. verdict' # "pass"
    BY <1>2 DEF Lost, Runs
  <2> QED BY <1>2, <2>1, <2>2, NoteInv DEF UnderWayInv, AvailableInv
<1>3. CASE verdict' = "threw" /\ UNCHANGED probes
  BY <1>3 DEF GateInv
<1> QED BY <1>1, <1>2, <1>3 DEF Lost

\* A gate that passes has called the provider for every required capability, all
\* turns of its probe, and was answered 200 each time: after any retries, lost
\* requests and missing keys.
THEOREM CertifiedIsProven == GateSpec => []CertifiesProven
<1>1. GateInv /\ [GateNext]_gateVars => GateInv'
  <2> SUFFICES ASSUME GateInv, [GateNext]_gateVars PROVE GateInv'
    OBVIOUS
  <2>1. CASE UNCHANGED gateVars
    BY <2>1 DEF gateVars, GateInv, Blocks
  <2>2. CASE NextGroup
    BY <2>2 DEF NextGroup, GateInv
  <2>3. CASE Certify
    BY <2>3 DEF Certify, GateInv, Blocks
  <2>4. ASSUME NEW p \in Probed, NoKey(p) \/ Respond(p) \/ Lost(p)
        PROVE  GateInv'
    BY <2>4, NoKeyInv, RespondInv, LostInv
  <2> QED BY <2>1, <2>2, <2>3, <2>4 DEF GateNext
<1>2. GateInv => CertifiesProven
  <2> SUFFICES ASSUME GateInv, verdict = "pass",
                      NEW p \in (Probed \cap Required) \ {"openai.phase"}
               PROVE  Proven(p)
    BY DEF CertifiesProven
  <2>1. Good(probes[p].answers, IF p \in TwoTurns THEN 2 ELSE 1)
    BY DEF GateInv, Blocks, Honest, AvailableInv
  <2>2. probes[p].answers \in Seq(Nat)
    BY DEF GateInv, ProbeState
  <2> QED BY <2>1, <2>2 DEF Proven, Good
<1> QED BY GateInvInit, <1>1, <1>2, PTL DEF GateSpec

-----------------------------------------------------------------------------
(***************************************************************************)
(* SymbolIndex for any files and any number of lookups and changes.  What  *)
(* the index says of a file can be trusted while the file is as its stat   *)
(* was (Trusted), since the stat preceded the read and no change gives a   *)
(* version twice.  A lookup that is alone has every file that has not      *)
(* changed since it began still to do, at hand, or in the index (Covered). *)
(***************************************************************************)
MaybeText == TextOnDisk \cup {NoText}
Lookup ==
  [at : {"idle", "walk", "next", "read", "store", "answered"}, live : SUBSET Files,
   todo : SUBSET Files, file : Files \cup {NoText}, stat : MaybeText, text : MaybeText,
   since : [Files -> TextOnDisk] \cup {NoText}, alone : BOOLEAN, aborted : BOOLEAN,
   found : [Files -> MaybeText] \cup {NoText}]

Known(text, v) == text \in TextOnDisk /\ text.version <= v
Active(r) == r.at \notin {"idle", "answered"}

IndexTypes ==
  /\ versions \in Nat /\ lookups \in [Lookups -> Lookup]
  /\ onDisk \in [Files -> TextOnDisk] /\ \A f \in Files : Known(onDisk[f], versions)
  /\ symbols \in [Files -> MaybeText] /\ stats \in [Files -> MaybeText]
  /\ \A f \in Files : stats[f] = NoText \/ Known(stats[f], versions)

Trusted ==
  \A f \in Files :
    /\ stats[f] = NoText => symbols[f] = NoText
    /\ stats[f] = onDisk[f] => symbols[f] = onDisk[f]

\* Of a lookup r, when the disk, the stats and the versions are these.
Begun(r, v) == r.at # "idle" => r.since \in [Files -> TextOnDisk] /\ \A f \in Files : Known(r.since[f], v)
AtHand(r, held, v) ==
  /\ r.at \in {"read", "store"} =>
       /\ r.file \in Files /\ Known(r.stat, v)
       /\ held[r.file] = r.since[r.file] => r.stat = held[r.file]
  /\ r.at = "store" => r.text \in TextOnDisk /\ (r.stat = held[r.file] => r.text = held[r.file])
Covered(r, f, held, st) ==
  r.at \in {"next", "read", "store"} /\ r.alone /\ ~r.aborted /\ held[f] = r.since[f]
    /\ held[f].size = "fits"
  => /\ f \in r.live
     /\ f \in r.todo \/ st[f] = held[f] \/ (r.at # "next" /\ r.file = f)
Fresh(r, f, held) ==
  r.at = "answered" /\ r.alone /\ ~r.aborted /\ held[f] = r.since[f] /\ held[f].size # "large"
    => r.found[f] = IF held[f].size = "fits" THEN held[f] ELSE NoText

Sound(r, held, st, v) ==
  /\ Begun(r, v) /\ AtHand(r, held, v)
  /\ \A f \in Files : Covered(r, f, held, st) /\ Fresh(r, f, held)

OneAlone ==
  \A l, o \in Lookups : lookups[l].alone /\ Active(lookups[l]) /\ Active(lookups[o]) => l = o

IndexInv ==
  /\ IndexTypes /\ Trusted /\ OneAlone
  /\ \A l \in Lookups : Sound(lookups[l], onDisk, stats, versions)

LEMMA IndexInvInit == IndexInit => IndexInv
<1> SUFFICES ASSUME IndexInit PROVE IndexInv
  OBVIOUS
<1>1. /\ onDisk \in [Files -> [version : {0}, size : {"none", "fits"}]]
      /\ symbols = [f \in Files |-> NoText] /\ stats = [f \in Files |-> NoText]
      /\ lookups = [l \in Lookups |-> NoLookup] /\ versions = 0
  BY DEF IndexInit
<1>2. NoLookup \in Lookup /\ NoLookup.at = "idle"
  BY DEF NoLookup, Lookup, MaybeText
<1>3. onDisk \in [Files -> TextOnDisk] /\ \A f \in Files : Known(onDisk[f], versions)
  BY <1>1 DEF TextOnDisk, Known, Sizes
<1>4. IndexTypes
  BY <1>1, <1>2, <1>3 DEF IndexTypes, MaybeText
<1>5. Trusted /\ OneAlone
  BY <1>1, <1>2, <1>3 DEF Trusted, OneAlone, Active
<1>6. ASSUME NEW l \in Lookups PROVE Sound(lookups[l], onDisk, stats, versions)
  BY <1>1, <1>2 DEF Sound, Begun, AtHand, Covered, Fresh
<1> QED BY <1>4, <1>5, <1>6 DEF IndexInv

\* A file changes: its new version is that of nothing known.
LEMMA ChangeInv ==
  ASSUME IndexInv, NEW f \in Files, Change(f)
  PROVE  IndexInv'
<1> USE DEF IndexInv
<1>1. PICK size \in Sizes :
        /\ onDisk' = [onDisk EXCEPT ![f] = [version |-> versions + 1, size |-> size]]
        /\ versions' = versions + 1 /\ UNCHANGED <<symbols, stats, lookups>>
  BY DEF Change
<1>2. /\ versions \in Nat /\ onDisk' \in [Files -> TextOnDisk]
      /\ onDisk'[f].version = versions + 1 /\ \A g \in Files : g # f => onDisk'[g] = onDisk[g]
  BY <1>1 DEF IndexTypes, TextOnDisk
<1>3. \A text : Known(text, versions) => Known(text, versions') /\ text # onDisk'[f]
  BY <1>1, <1>2 DEF Known, TextOnDisk
<1>4. \A g \in Files : Known(onDisk'[g], versions')
  BY <1>1, <1>2, <1>3 DEF IndexTypes, Known
<1>5. IndexTypes'
  BY <1>1, <1>2, <1>3, <1>4 DEF IndexTypes
<1>6. Trusted'
  <2> SUFFICES ASSUME NEW g \in Files PROVE
        (stats[g] = NoText => symbols[g] = NoText) /\ (stats[g] = onDisk'[g] => symbols[g] = onDisk'[g])
    BY <1>1 DEF Trusted
  <2>1. stats[g] = onDisk'[g] => g # f
    BY <1>2, <1>3, NoTextAssumption DEF IndexTypes
  <2> QED BY <1>2, <2>1 DEF Trusted
<1>7. OneAlone'
  BY <1>1 DEF OneAlone
<1>8. ASSUME NEW l \in Lookups PROVE Sound(lookups[l], onDisk', stats, versions')
  <2> DEFINE r == lookups[l]
  <2>1. Sound(r, onDisk, stats, versions)
    OBVIOUS
  <2> HIDE DEF r
  <2>2. Begun(r, versions')
    BY <1>2, <1>3, <2>1 DEF Sound, Begun
  <2>4. AtHand(r, onDisk', versions')
    <3>1. r.at # "idle" => r.since[f] # onDisk'[f]
      BY <1>3, <2>1 DEF Sound, Begun
    <3>2. r.at \in {"read", "store"} => r.file \in Files /\ Known(r.stat, versions) /\ r.stat # onDisk'[f]
      BY <1>3, <2>1 DEF Sound, AtHand
    <3>3. CASE r.file = f
      BY <1>3, <2>1, <3>1, <3>2, <3>3 DEF Sound, AtHand
    <3>4. CASE r.file # f
      BY <1>2, <1>3, <2>1, <3>2, <3>4 DEF Sound, AtHand
    <3> QED BY <3>3, <3>4
  <2>3. ASSUME NEW g \in Files PROVE Covered(r, g, onDisk', stats) /\ Fresh(r, g, onDisk')
    <3>1. r.at # "idle" => r.since[f] # onDisk'[f]
      BY <1>3, <2>1 DEF Sound, Begun
    <3>2. CASE g = f
      BY <3>1, <3>2 DEF Covered, Fresh
    <3>3. CASE g # f
      BY <1>2, <2>1, <3>3 DEF Sound, Covered, Fresh
    <3> QED BY <3>2, <3>3
  <2> QED BY <2>2, <2>3, <2>4 DEF Sound, r
<1> QED BY <1>1, <1>5, <1>6, <1>7, <1>8

\* A lookup goes on: it stays alone as long as it is, and only an active one writes.
LEMMA LookupMoves ==
  ASSUME IndexInv, NEW l \in Lookups, NEW r \in Lookup, Now(l, r),
         UNCHANGED <<onDisk, versions>>,
         Active(r) => Active(lookups[l]) /\ (r.alone => lookups[l].alone),
         Sound(r, onDisk, stats', versions),
         symbols' \in [Files -> MaybeText], stats' \in [Files -> MaybeText],
         \A f \in Files : stats'[f] = NoText \/ Known(stats'[f], versions),
         Trusted',
         UNCHANGED stats \/ Active(lookups[l])
  PROVE  IndexInv'
<1> USE DEF IndexInv
<1>1. lookups' \in [Lookups -> Lookup] /\ \A k \in Lookups : lookups'[k] = IF k = l THEN r ELSE lookups[k]
  BY DEF Now, IndexTypes
<1>2. IndexTypes'
  BY <1>1 DEF IndexTypes
<1>3. OneAlone'
  BY <1>1 DEF OneAlone
<1>4. ASSUME NEW k \in Lookups, k # l PROVE Sound(lookups[k], onDisk, stats', versions)
  <2> DEFINE s == lookups[k]
  <2>1. Sound(s, onDisk, stats, versions)
    OBVIOUS
  <2>2. UNCHANGED stats \/ ~(s.alone /\ Active(s))
    BY <1>4 DEF OneAlone
  <2> HIDE DEF s
  <2> QED BY <2>1, <2>2 DEF Sound, Covered, Active, s
<1>5. \A k \in Lookups : Sound(lookups'[k], onDisk', stats', versions')
  BY <1>1, <1>4
<1> QED BY <1>2, <1>3, <1>5

\* One that leaves the index alone.
LEMMA LookupReads ==
  ASSUME IndexInv, NEW l \in Lookups, NEW r \in Lookup, Now(l, r),
         UNCHANGED <<onDisk, versions, symbols, stats>>,
         Active(r) => Active(lookups[l]) /\ (r.alone => lookups[l].alone),
         Sound(r, onDisk, stats, versions)
  PROVE  IndexInv'
<1>1. Trusted'
  BY DEF IndexInv, Trusted
<1>2. Sound(r, onDisk, stats', versions)
  OBVIOUS
<1> QED BY <1>1, <1>2, LookupMoves DEF IndexInv, IndexTypes

LEMMA IdleSound == NoLookup \in Lookup /\ ~Active(NoLookup) /\ Sound(NoLookup, onDisk, stats, versions)
<1>1. NoLookup \in Lookup /\ NoLookup.at = "idle"
  BY DEF NoLookup, Lookup, MaybeText
<1> QED BY <1>1 DEF Active, Sound, Begun, AtHand, Covered, Fresh

\* A lookup begins: alone if no other is active, and none is alone beside it.
LEMMA LookInv ==
  ASSUME IndexInv, NEW l \in Lookups, Look(l)
  PROVE  IndexInv'
<1> USE DEF IndexInv
<1> DEFINE new == [NoLookup EXCEPT !.at = "walk", !.since = onDisk, !.alone = \A o \in Lookups : ~Looking(o)]
           old(k) == [lookups[k] EXCEPT !.alone = @ /\ ~Looking(k)]
<1>1. /\ ~Active(lookups[l]) /\ UNCHANGED <<onDisk, symbols, stats, versions>>
      /\ lookups' = [k \in Lookups |-> IF k = l THEN new ELSE old(k)]
      /\ \A k \in Lookups : Looking(k) <=> Active(lookups[k])
  BY DEF Look, Looking, Active
<1>2. /\ new \in Lookup /\ new.at = "walk" /\ new.since = onDisk
      /\ new.alone = \A o \in Lookups : ~Active(lookups[o])
  <2>1. /\ NoLookup \in Lookup /\ onDisk \in [Files -> TextOnDisk]
        /\ (\A o \in Lookups : ~Looking(o)) \in BOOLEAN
    BY IdleSound DEF IndexTypes
  <2> QED BY <1>1, <2>1 DEF Lookup
<1>3. ASSUME NEW k \in Lookups
      PROVE  /\ old(k) \in Lookup /\ old(k).at = lookups[k].at /\ old(k).since = lookups[k].since
             /\ old(k).alone = (lookups[k].alone /\ ~Active(lookups[k]))
             /\ old(k).file = lookups[k].file /\ old(k).stat = lookups[k].stat
             /\ old(k).text = lookups[k].text /\ old(k).found = lookups[k].found
             /\ old(k).aborted = lookups[k].aborted
  <2>1. lookups[k] \in Lookup
    BY DEF IndexTypes
  <2> QED BY <1>1, <2>1 DEF Lookup
<1> HIDE DEF new, old
<1>4. lookups' \in [Lookups -> Lookup]
  BY <1>1, <1>2, <1>3
<1>5. IndexTypes'
  BY <1>1, <1>4 DEF IndexTypes
<1>6. Trusted'
  BY <1>1 DEF Trusted
<1>7. OneAlone'
  BY <1>1, <1>2, <1>3 DEF OneAlone, Active
<1>8. Sound(new, onDisk, stats, versions)
  BY <1>2 DEF IndexTypes, Sound, Begun, AtHand, Covered, Fresh
<1>9. ASSUME NEW k \in Lookups PROVE Sound(old(k), onDisk, stats, versions)
  <2>1. Sound(lookups[k], onDisk, stats, versions)
    OBVIOUS
  <2>2. Begun(old(k), versions) /\ AtHand(old(k), onDisk, versions)
    BY <1>3, <2>1 DEF Sound, Begun, AtHand
  <2>3. \A f \in Files : Covered(old(k), f, onDisk, stats)
    BY <1>3 DEF Covered, Active
  <2>4. ASSUME NEW f \in Files PROVE Fresh(old(k), f, onDisk)
    <3>1. Fresh(lookups[k], f, onDisk)
      BY <2>1 DEF Sound
    <3>2. /\ old(k).at = lookups[k].at /\ old(k).since = lookups[k].since
          /\ old(k).alone => lookups[k].alone
          /\ old(k).found = lookups[k].found /\ old(k).aborted = lookups[k].aborted
      BY <1>3
    <3> HIDE DEF IndexInv
    <3> QED BY <3>1, <3>2 DEF Fresh
  <2> QED BY <2>2, <2>3, <2>4 DEF Sound
<1> QED BY <1>1, <1>5, <1>6, <1>7, <1>8, <1>9

\* The abort, and the walk, which lists every file that is there.
LEMMA AbortWalkInv ==
  ASSUME IndexInv, NEW l \in Lookups, Abort(l) \/ Walk(l)
  PROVE  IndexInv'
<1> DEFINE s == lookups[l]
<1>1. s \in Lookup /\ Sound(s, onDisk, stats, versions)
  BY DEF IndexInv, IndexTypes
<1>2. CASE Abort(l)
  <2>1. PICK r : r = [s EXCEPT !.aborted = TRUE]
    OBVIOUS
  <2>2. Now(l, r) /\ UNCHANGED <<onDisk, symbols, stats, versions>> /\ Active(s)
    BY <1>2, <2>1 DEF Abort, Looking, Active
  <2> HIDE DEF s
  <2>3. /\ r \in Lookup /\ r.at = s.at /\ r.since = s.since /\ r.alone = s.alone /\ r.aborted = TRUE
        /\ r.file = s.file /\ r.stat = s.stat /\ r.text = s.text
    BY <1>1, <2>1 DEF Lookup
  <2>4. Sound(r, onDisk, stats, versions)
    BY <1>1, <2>3 DEF Sound, Begun, AtHand, Covered, Fresh
  <2> QED BY <2>2, <2>3, <2>4, LookupReads DEF Active, s
<1>3. CASE Walk(l)
  <2> DEFINE found == {f \in Files : onDisk[f].size # "none"}
  <2>1. PICK r : r = IF s.aborted THEN NoLookup
                     ELSE [s EXCEPT !.at = "next", !.live = found, !.todo = found]
    OBVIOUS
  <2>2. Now(l, r) /\ UNCHANGED <<onDisk, symbols, stats, versions>> /\ s.at = "walk"
    BY <1>3, <2>1 DEF Walk
  <2>3. CASE s.aborted
    BY <2>1, <2>2, <2>3, IdleSound, LookupReads
  <2>4. CASE ~s.aborted
    <3>1. /\ r \in Lookup /\ r.at = "next" /\ r.since = s.since /\ r.alone = s.alone
          /\ r.live = found /\ r.todo = found
      <4> HIDE DEF s
      <4> QED BY <1>1, <2>1, <2>4 DEF Lookup
    <3>2. Sound(r, onDisk, stats, versions)
      BY <1>1, <2>2, <3>1 DEF Sound, Begun, AtHand, Covered, Fresh
    <3> QED BY <2>2, <3>1, <3>2, LookupReads DEF Active
  <2> QED BY <2>3, <2>4
<1> QED BY <1>2, <1>3

\* Going on to the next file.
LEMMA SkipFields ==
  ASSUME NEW s \in Lookup
  PROVE  LET r == Skip(s) IN
         /\ r \in Lookup /\ r.at = "next" /\ r.since = s.since /\ r.alone = s.alone
         /\ r.aborted = s.aborted /\ r.live = s.live /\ r.todo = s.todo
  BY DEF Skip, Lookup, MaybeText

\* The stat of a file, or of one that need not be read.
LEMMA StatFileInv ==
  ASSUME IndexInv, NEW l \in Lookups, NEW f \in Files, Stat(l, f)
  PROVE  IndexInv'
<1> DEFINE s == lookups[l]
           rest == [s EXCEPT !.todo = @ \ {f}]
<1>1. s \in Lookup /\ Sound(s, onDisk, stats, versions) /\ s.at = "next" /\ Known(onDisk[f], versions)
  BY DEF IndexInv, IndexTypes, Stat
<1>2. PICK r : r = IF onDisk[f].size # "fits" \/ stats[f] = onDisk[f] THEN Skip(rest)
                   ELSE [rest EXCEPT !.at = "read", !.file = f, !.stat = onDisk[f]]
  OBVIOUS
<1>3. Now(l, r) /\ UNCHANGED <<onDisk, symbols, stats, versions>>
  BY <1>2 DEF Stat
<1> HIDE DEF s
<1>4. /\ rest \in Lookup /\ rest.since = s.since /\ rest.alone = s.alone /\ rest.aborted = s.aborted
      /\ rest.live = s.live /\ rest.todo = s.todo \ {f}
  BY <1>1 DEF Lookup
<1> HIDE DEF rest
<1>5. CASE onDisk[f].size # "fits" \/ stats[f] = onDisk[f]
  <2>1. /\ r \in Lookup /\ r.at = "next" /\ r.since = s.since /\ r.alone = s.alone
        /\ r.aborted = s.aborted /\ r.live = s.live /\ r.todo = s.todo \ {f}
    BY <1>2, <1>4, <1>5, SkipFields
  <2>2. Begun(r, versions) /\ AtHand(r, onDisk, versions) /\ \A g \in Files : Fresh(r, g, onDisk)
    BY <1>1, <2>1 DEF Sound, Begun, AtHand, Fresh
  <2>3. \A g \in Files : Covered(r, g, onDisk, stats)
    BY <1>1, <1>5, <2>1 DEF Sound, Covered
  <2>4. Sound(r, onDisk, stats, versions)
    BY <2>2, <2>3 DEF Sound
  <2> QED BY <1>1, <1>3, <2>1, <2>4, LookupReads DEF Active, s
<1>6. CASE ~(onDisk[f].size # "fits" \/ stats[f] = onDisk[f])
  <2>1. /\ r \in Lookup /\ r.at = "read" /\ r.since = s.since /\ r.alone = s.alone
        /\ r.aborted = s.aborted /\ r.live = s.live /\ r.todo = s.todo \ {f}
        /\ r.file = f /\ r.stat = onDisk[f]
    BY <1>1, <1>2, <1>4, <1>6 DEF Lookup, MaybeText, Known
  <2>2. Begun(r, versions) /\ AtHand(r, onDisk, versions) /\ \A g \in Files : Fresh(r, g, onDisk)
    BY <1>1, <2>1 DEF Sound, Begun, AtHand, Fresh
  <2>3. \A g \in Files : Covered(r, g, onDisk, stats)
    BY <1>1, <2>1 DEF Sound, Covered
  <2>4. Sound(r, onDisk, stats, versions)
    BY <2>2, <2>3 DEF Sound
  <2> QED BY <1>1, <1>3, <2>1, <2>4, LookupReads DEF Active, s
<1> QED BY <1>5, <1>6

\* The read: what is not there need not be covered, and what is has the stat's version
\* only if nothing came in between.
LEMMA ReadFileInv ==
  ASSUME IndexInv, NEW l \in Lookups, Read(l)
  PROVE  IndexInv'
<1> DEFINE s == lookups[l]
<1>1. s \in Lookup /\ Sound(s, onDisk, stats, versions) /\ s.at = "read"
      /\ s.file \in Files /\ onDisk[s.file] \in TextOnDisk
  BY DEF IndexInv, IndexTypes, Read, Sound, AtHand, Known
<1>2. PICK r : r = IF s.aborted \/ onDisk[s.file].size = "none" THEN Skip(s)
                   ELSE [s EXCEPT !.at = "store", !.text = onDisk[s.file]]
  OBVIOUS
<1>3. Now(l, r) /\ UNCHANGED <<onDisk, symbols, stats, versions>>
  BY <1>2 DEF Read
<1> HIDE DEF s
<1>4. CASE s.aborted \/ onDisk[s.file].size = "none"
  <2>1. /\ r \in Lookup /\ r.at = "next" /\ r.since = s.since /\ r.alone = s.alone
        /\ r.aborted = s.aborted /\ r.live = s.live /\ r.todo = s.todo
    BY <1>1, <1>2, <1>4, SkipFields
  <2>2. Begun(r, versions) /\ AtHand(r, onDisk, versions) /\ \A g \in Files : Fresh(r, g, onDisk)
    BY <1>1, <2>1 DEF Sound, Begun, AtHand, Fresh
  <2>3. \A g \in Files : Covered(r, g, onDisk, stats)
    BY <1>1, <1>4, <2>1 DEF Sound, Covered
  <2>4. Sound(r, onDisk, stats, versions)
    BY <2>2, <2>3 DEF Sound
  <2> QED BY <1>1, <1>3, <2>1, <2>4, LookupReads DEF Active, s
<1>5. CASE ~(s.aborted \/ onDisk[s.file].size = "none")
  <2>1. /\ r \in Lookup /\ r.at = "store" /\ r.since = s.since /\ r.alone = s.alone
        /\ r.aborted = s.aborted /\ r.live = s.live /\ r.todo = s.todo
        /\ r.file = s.file /\ r.stat = s.stat /\ r.text = onDisk[s.file]
    BY <1>1, <1>2, <1>5 DEF Lookup, MaybeText
  <2>2. Begun(r, versions) /\ AtHand(r, onDisk, versions) /\ \A g \in Files : Fresh(r, g, onDisk)
    BY <1>1, <2>1 DEF Sound, Begun, AtHand, Fresh
  <2>3. \A g \in Files : Covered(r, g, onDisk, stats)
    BY <1>1, <2>1 DEF Sound, Covered
  <2>4. Sound(r, onDisk, stats, versions)
    BY <2>2, <2>3 DEF Sound
  <2> QED BY <1>1, <1>3, <2>1, <2>4, LookupReads DEF Active, s
<1> QED BY <1>4, <1>5

\* What was read is put in the index under the stat that preceded the read.
LEMMA StoreInv ==
  ASSUME IndexInv, NEW l \in Lookups, Store(l)
  PROVE  IndexInv'
<1> DEFINE s == lookups[l]
<1>1. /\ s \in Lookup /\ Sound(s, onDisk, stats, versions) /\ s.at = "store"
      /\ s.file \in Files /\ Known(s.stat, versions) /\ s.stat \in TextOnDisk /\ s.text \in TextOnDisk
      /\ s.stat = onDisk[s.file] => s.text = onDisk[s.file]
      /\ onDisk[s.file] = s.since[s.file] => s.stat = onDisk[s.file]
  BY DEF IndexInv, IndexTypes, Store, Sound, AtHand, Known
<1>2. PICK r : r = Skip(s)
  OBVIOUS
<1>3. Now(l, r) /\ UNCHANGED <<onDisk, versions>>
  BY <1>2 DEF Store
<1>4. /\ s.aborted => UNCHANGED <<symbols, stats>>
      /\ ~s.aborted => symbols' = [symbols EXCEPT ![s.file] = s.text]
                       /\ stats' = [stats EXCEPT ![s.file] = s.stat]
  BY DEF Store, Stamp
<1>5. NoText \notin TextOnDisk /\ IndexTypes /\ Trusted
  BY NoTextAssumption DEF IndexInv
<1> HIDE DEF s
<1>6. /\ r \in Lookup /\ r.at = "next" /\ r.since = s.since /\ r.alone = s.alone
      /\ r.aborted = s.aborted /\ r.live = s.live /\ r.todo = s.todo
  BY <1>1, <1>2, SkipFields
<1>7. symbols' \in [Files -> MaybeText] /\ stats' \in [Files -> MaybeText]
  BY <1>1, <1>4, <1>5 DEF IndexTypes, MaybeText
<1>8. ASSUME NEW g \in Files
      PROVE  IF g = s.file /\ ~s.aborted THEN stats'[g] = s.stat /\ symbols'[g] = s.text
             ELSE stats'[g] = stats[g] /\ symbols'[g] = symbols[g]
  BY <1>1, <1>4, <1>5 DEF IndexTypes
<1>9. \A g \in Files : stats'[g] = NoText \/ Known(stats'[g], versions)
  BY <1>1, <1>5, <1>8 DEF IndexTypes
<1>10. Trusted'
  <2> SUFFICES ASSUME NEW g \in Files PROVE
        (stats'[g] = NoText => symbols'[g] = NoText) /\ (stats'[g] = onDisk[g] => symbols'[g] = onDisk[g])
    BY <1>3 DEF Trusted
  <2> QED BY <1>1, <1>5, <1>8 DEF Trusted
<1>11. \A g \in Files : Covered(r, g, onDisk, stats')
  <2> SUFFICES ASSUME NEW g \in Files PROVE Covered(r, g, onDisk, stats')
    OBVIOUS
  <2>1. Covered(s, g, onDisk, stats)
    BY <1>1 DEF Sound
  <2>2. CASE s.aborted
    BY <1>6, <2>2 DEF Covered
  <2>3. CASE ~s.aborted /\ g = s.file
    <3>1. stats'[g] = s.stat
      BY <1>8, <2>3
    <3> QED BY <1>1, <1>6, <2>1, <2>3, <3>1 DEF Covered
  <2>4. CASE ~s.aborted /\ g # s.file
    <3>1. stats'[g] = stats[g]
      BY <1>8, <2>4
    <3> QED BY <1>1, <1>6, <2>1, <2>4, <3>1 DEF Covered
  <2> QED BY <2>2, <2>3, <2>4
<1>12. Sound(r, onDisk, stats', versions)
  BY <1>1, <1>6, <1>11 DEF Sound, Begun, AtHand, Fresh
<1> QED BY <1>1, <1>3, <1>6, <1>7, <1>9, <1>10, <1>12, LookupMoves DEF Active, s

\* What is gone or empty is dropped, and the rest answers.
LEMMA AnswerInv ==
  ASSUME IndexInv, NEW l \in Lookups, Answer(l)
  PROVE  IndexInv'
<1> DEFINE s == lookups[l]
           Drop(f) == stats[f] # NoText /\ (f \notin s.live \/ onDisk[f].size \in {"none", "empty"})
           Left(st) == [f \in Files |-> IF Drop(f) THEN NoText ELSE st[f]]
<1>1. /\ s \in Lookup /\ Sound(s, onDisk, stats, versions) /\ s.at = "next"
      /\ s.todo = {} \/ s.aborted
  BY DEF IndexInv, IndexTypes, Answer
<1>2. PICK r : r = [s EXCEPT !.at = "answered", !.found = Left(symbols), !.live = {}, !.todo = {}]
  OBVIOUS
<1>3. /\ Now(l, r) /\ UNCHANGED <<onDisk, versions>>
      /\ symbols' = Left(symbols) /\ stats' = Left(stats)
  BY <1>2 DEF Answer
<1>4. NoText \notin TextOnDisk /\ IndexTypes /\ Trusted
  BY NoTextAssumption DEF IndexInv
<1>5. /\ symbols' \in [Files -> MaybeText] /\ stats' \in [Files -> MaybeText]
      /\ \A g \in Files : symbols'[g] = (IF Drop(g) THEN NoText ELSE symbols[g])
      /\ \A g \in Files : stats'[g] = (IF Drop(g) THEN NoText ELSE stats[g])
  BY <1>3, <1>4 DEF IndexTypes, MaybeText
<1>6. r = [s EXCEPT !.at = "answered", !.found = symbols', !.live = {}, !.todo = {}]
  BY <1>2, <1>3
<1> HIDE DEF s
<1>7. /\ r \in Lookup /\ r.at = "answered" /\ r.since = s.since /\ r.alone = s.alone
      /\ r.aborted = s.aborted /\ r.found = symbols'
  BY <1>1, <1>5, <1>6 DEF Lookup
<1>8. \A g \in Files : stats'[g] = NoText \/ Known(stats'[g], versions)
  BY <1>4, <1>5 DEF IndexTypes
<1>9. Trusted'
  <2> SUFFICES ASSUME NEW g \in Files PROVE
        (stats'[g] = NoText => symbols'[g] = NoText) /\ (stats'[g] = onDisk[g] => symbols'[g] = onDisk[g])
    BY <1>3 DEF Trusted
  <2>1. onDisk[g] # NoText
    BY <1>4 DEF IndexTypes
  <2> QED BY <1>4, <1>5, <2>1 DEF Trusted
<1>10. \A g \in Files : Fresh(r, g, onDisk)
  <2> SUFFICES ASSUME NEW g \in Files, r.alone, ~r.aborted, onDisk[g] = r.since[g], onDisk[g].size # "large"
               PROVE  symbols'[g] = IF onDisk[g].size = "fits" THEN onDisk[g] ELSE NoText
    BY <1>7 DEF Fresh
  <2>1. CASE onDisk[g].size = "fits"
    <3>1. g \in s.live /\ stats[g] = onDisk[g]
      BY <1>1, <1>7, <2>1 DEF Sound, Covered
    <3>2. ~Drop(g)
      BY <2>1, <3>1
    <3> QED BY <1>4, <1>5, <2>1, <3>1, <3>2 DEF Trusted
  <2>2. CASE onDisk[g].size \in {"none", "empty"}
    <3>1. Drop(g) \/ symbols[g] = NoText
      BY <1>4, <2>2 DEF Trusted
    <3> QED BY <1>5, <2>2, <3>1
  <2> QED BY <1>4, <2>1, <2>2 DEF IndexTypes, TextOnDisk, Sizes
<1>11. Sound(r, onDisk, stats', versions)
  BY <1>1, <1>7, <1>10 DEF Sound, Begun, AtHand, Covered
<1> QED BY <1>1, <1>3, <1>5, <1>7, <1>8, <1>9, <1>11, LookupMoves DEF Active, s

LEMMA TakenInv ==
  ASSUME IndexInv, NEW l \in Lookups, Taken(l)
  PROVE  IndexInv'
<1>1. PICK r : r = NoLookup
  OBVIOUS
<1> QED BY <1>1, IdleSound, LookupReads DEF Taken

LEMMA IndexStep == IndexInv /\ [IndexNext]_(indexVars) => IndexInv'
<1> SUFFICES ASSUME IndexInv, [IndexNext]_(indexVars) PROVE IndexInv'
  OBVIOUS
<1>1. CASE UNCHANGED indexVars
  BY <1>1 DEF indexVars, IndexInv, IndexTypes, Trusted, OneAlone
<1>2. ASSUME NEW f \in Files, Change(f) PROVE IndexInv'
  BY <1>2, ChangeInv
<1>3. ASSUME NEW l \in Lookups, Look(l) PROVE IndexInv'
  BY <1>3, LookInv
<1>4. ASSUME NEW l \in Lookups, Abort(l) \/ Walk(l) PROVE IndexInv'
  BY <1>4, AbortWalkInv
<1>5. ASSUME NEW l \in Lookups, NEW f \in Files, Stat(l, f) PROVE IndexInv'
  BY <1>5, StatFileInv
<1>6. ASSUME NEW l \in Lookups, Read(l) PROVE IndexInv'
  BY <1>6, ReadFileInv
<1>7. ASSUME NEW l \in Lookups, Store(l) PROVE IndexInv'
  BY <1>7, StoreInv
<1>8. ASSUME NEW l \in Lookups, Answer(l) PROVE IndexInv'
  BY <1>8, AnswerInv
<1>9. ASSUME NEW l \in Lookups, Taken(l) PROVE IndexInv'
  BY <1>9, TakenInv
<1> QED BY <1>1, <1>2, <1>3, <1>4, <1>5, <1>6, <1>7, <1>8, <1>9 DEF IndexNext

\* A lookup that ran alone to its end answers with the text on disk for every file that is
\* as it was when it began (symbolLookupTool.execute, indexFile and getOrBuild): for any
\* files and any lookups that overlapped, were aborted or read a file in mid-write before.
THEOREM LookupIsFresh == IndexSpec => []LookupFresh
<1>1. IndexInv => LookupFresh
  BY DEF IndexInv, Sound, Fresh, LookupFresh
<1> QED BY <1>1, IndexInvInit, IndexStep, PTL DEF IndexSpec
-----------------------------------------------------------------------------
(***************************************************************************)
(* Checkpoint implements Snapshots, for any paths, contents and bounds,    *)
(* any number of callers, failures, kills and crashes, as long as nobody   *)
(* edits while a call is under way.  What a call knows at each of its      *)
(* steps is CallInv; a restore is alone (RestoresAlone), and saves side by *)
(* side do each other no harm since they see the same files.               *)
(***************************************************************************)
SaveSteps == {"init", "gitinit", "config", "exclude", "add", "commit", "head", "manifest"}
Before == {"init", "gitinit", "config", "exclude", "add", "commit", "head", "manifest",
           "exists", "clean"}
After == {"head", "manifest", "exists", "clean", "reset", "verify", "rollback"}

Op == [call : {"none", "save", "restore"}, at : SaveSteps \cup After \cup {"idle"},
       target : Nat, id : Nat, before : Tree \cup {None}]

StoreShape ==
  /\ files \in Tree /\ index \in Tree /\ op \in [Callers -> Op] /\ answer \in Answers
  /\ commits \in Seq([tree : Tree, parent : Nat]) /\ head \in 0..Len(commits)

RestoresAlone ==
  \A c, d \in Callers : op[c].call = "restore" /\ c # d => op[d].call = "none"

SaveInv(o) ==
  /\ o.at \in SaveSteps
  /\ o.at = "commit" => Visible(index) = Visible(files)
  /\ o.at \in {"head", "manifest"} => Visible(files) \in Kept
  /\ o.at = "head" => head # 0
  /\ o.at = "manifest" => o.id \in 1..Len(commits)

RestoreInv(o) ==
  /\ o.at \in Before \cup After /\ o.before \in Tree /\ o.target \in 0..Len(commits)
  /\ o.at \in Before => Visible(files) = Visible(o.before)
  /\ o.at \in After => Visible(o.before) \in Kept
  /\ o.at = "commit" => Visible(index) = Visible(files)
  /\ o.at = "head" => head # 0
  /\ o.at \in {"manifest", "exists", "clean", "reset", "verify", "rollback"} =>
       o.id \in 1..Len(commits)
  /\ o.at \in {"clean", "reset", "verify", "rollback"} => o.target # 0
  /\ o.at = "reset" => \A p \in Plain : index[p] = Absent => files[p] = Absent
  /\ o.at = "verify" => Visible(files) = Visible(commits[o.target].tree)

CallInv(o) ==
  /\ o.call = "none" => o.at = "idle"
  /\ o.call = "save" => SaveInv(o)
  /\ o.call = "restore" => RestoreInv(o)

IInv == StoreShape /\ RestoresAlone /\ \A c \in Callers : CallInv(op[c])
-----------------------------------------------------------------------------
\* What a tree looks like to git.
LEMMA VisibleType == \A tree \in Tree : Visible(tree) \in Trees
BY DEF Visible, Trees, Tree, Plain

LEMMA StagedIsSeen ==
  ASSUME StoreShape
  PROVE  Staged \in Tree /\ Visible(Staged) = Visible(files)
BY ClassAssumption DEF StoreShape, Staged, Visible, Plain, Tree, Skipped, Classes

LEMMA ResetIsTree ==
  ASSUME StoreShape, NEW i \in 1..Len(commits)
  PROVE  ResetTo(commits[i].tree) \in Tree
<1>1. commits \in [1..Len(commits) -> [tree : Tree, parent : Nat]]
  BY LenProperties DEF StoreShape
<1> QED BY <1>1 DEF ResetTo, Tree, StoreShape

LEMMA CleanedIsTree == StoreShape => Cleaned \in Tree
BY DEF Cleaned, Tree, StoreShape

\* A commit adds what is staged to what is kept.
LEMMA CommittedKeeps ==
  ASSUME StoreShape, Committed
  PROVE  /\ commits' \in Seq([tree : Tree, parent : Nat]) /\ head' \in 1..Len(commits')
         /\ Len(commits') = Len(commits) + 1
         /\ \A i \in 1..Len(commits) : commits'[i] = commits[i]
         /\ Kept' = Kept \cup {Visible(index)}
<1> DEFINE new == [tree |-> index, parent |-> head]
<1>1. new \in [tree : Tree, parent : Nat] /\ commits \in Seq([tree : Tree, parent : Nat])
  BY DEF StoreShape
<1>2. commits' = Append(commits, new) /\ head' = Len(commits) + 1 /\ Len(commits) \in Nat
  BY <1>1, LenProperties DEF Committed
<1>3. /\ commits' \in Seq([tree : Tree, parent : Nat]) /\ Len(commits') = Len(commits) + 1
      /\ \A i \in 1..Len(commits) : commits'[i] = commits[i]
      /\ commits'[Len(commits) + 1] = new
  BY <1>1, <1>2, AppendProperties
<1>4. DOMAIN commits = 1..Len(commits) /\ DOMAIN commits' = 1..Len(commits) + 1
  BY <1>1, <1>3, LenProperties
<1>5. Kept' = {Visible(commits'[i].tree) : i \in 1..Len(commits) + 1}
  BY <1>4 DEF Kept, Visible, Plain
<1>6. Kept = {Visible(commits[i].tree) : i \in 1..Len(commits)}
  BY <1>4 DEF Kept
<1>7. 1..Len(commits) + 1 = 1..Len(commits) \cup {Len(commits) + 1}
  BY <1>2
<1>8. Kept' = Kept \cup {Visible(new.tree)}
  BY <1>3, <1>5, <1>6, <1>7
<1> QED BY <1>2, <1>3, <1>8
LEMMA InitInv == Init => IInv
<1> SUFFICES ASSUME Init PROVE IInv
  OBVIOUS
<1>1. Idle \in Op /\ op = [c \in Callers |-> Idle]
  BY DEF Init, Idle, Op
<1>2. commits \in Seq([tree : Tree, parent : Nat]) /\ Len(commits) = 0 /\ index \in Tree
  BY EmptySeq DEF Init, Tree
<1>3. StoreShape
  BY <1>1, <1>2 DEF Init, StoreShape, Answers
<1> QED BY <1>1, <1>3 DEF IInv, RestoresAlone, CallInv, Idle
-----------------------------------------------------------------------------
(* What a step of the call c may do, in terms of what others rely on and   *)
(* of what was promised.                                                   *)

SaveEffect(c) ==
  /\ Visible(files)' = Visible(files)
  /\ Visible(index)' \in {Visible(index), Visible(files)}
  /\ head # 0 => head' # 0
  /\ \/ answer' = answer
     \/ answer' \in Answers \ {"saved", "verified"}
     \/ answer' = "saved" /\ Visible(files) \in Kept

RestoreEffect(c) ==
  /\ \/ Visible(files)' = Visible(files)
     \/ Visible(op[c].before) \in Kept /\ (Kept' = Kept \/ op'[c].call = "none")
  /\ op'[c].call = "restore" =>
       op'[c].target = op[c].target /\ op'[c].before = op[c].before /\ answer' = answer
  /\ op'[c].call = "none" =>
       /\ answer' \in Answers \ {"saved"}
       /\ answer' = "verified" =>
            op[c].target # 0 /\ Visible(files)' = Visible(commits[op[c].target].tree)

Effect(c) ==
  /\ op[c].call # "none" /\ op'[c].call \in {op[c].call, "none"}
  /\ \A d \in Callers \ {c} : op'[d] = op[d]
  /\ Kept' \in {Kept, Kept \cup {Visible(files)}}
  /\ Len(commits) <= Len(commits') /\ \A i \in 1..Len(commits) : commits'[i] = commits[i]
  /\ op[c].call = "save" => SaveEffect(c)
  /\ op[c].call = "restore" => RestoreEffect(c)
  /\ StoreShape' /\ CallInv(op[c])'

\* A step of one call leaves the others what they know.
LEMMA EffectInv ==
  ASSUME IInv, NEW c \in Callers, Effect(c)
  PROVE  IInv'
<1>1. StoreShape' /\ RestoresAlone'
  BY DEF IInv, RestoresAlone, Effect
<1>2. ASSUME NEW d \in Callers, d # c PROVE CallInv(op[d])'
  <2>1. op'[d] = op[d] /\ CallInv(op[d])
    BY <1>2 DEF Effect, IInv
  <2>2. CASE op[d].call = "none"
    BY <2>1, <2>2 DEF CallInv
  <2>3. CASE op[d].call # "none"
    <3>1. op[d].call = "save" /\ op[c].call = "save"
      BY <1>2, <2>3 DEF IInv, RestoresAlone, Effect, StoreShape, Op
    <3>2. SaveInv(op[d]) /\ SaveEffect(c)
      BY <2>1, <3>1 DEF CallInv, Effect
    <3>3. Len(commits) \in Nat /\ Len(commits') \in Nat
      BY LenProperties DEF IInv, StoreShape, Effect
    <3>4. SaveInv(op[d])'
      <4>1. /\ Len(commits) <= Len(commits')
            /\ \A i \in 1..Len(commits) : commits'[i] = commits[i]
        BY DEF Effect
      <4>3. Kept \subseteq Kept'
        BY DEF Effect
      <4>4. op[d].at = "commit" => Visible(index)' = Visible(files)'
        BY <3>2 DEF SaveInv, SaveEffect
      <4>5. op[d].at \in {"head", "manifest"} => Visible(files)' \in Kept'
        BY <3>2, <4>3 DEF SaveInv, SaveEffect
      <4>6. op[d].at = "head" => head' # 0
        BY <3>2 DEF SaveInv, SaveEffect
      <4>7. op[d].at = "manifest" => op[d].id \in 1..Len(commits')
        BY <3>2, <3>3, <4>1 DEF SaveInv
      <4> QED BY <2>1, <3>2, <4>4, <4>5, <4>6, <4>7 DEF SaveInv
    <3> QED BY <2>1, <3>1, <3>4 DEF CallInv
  <2> QED BY <2>2, <2>3
<1> QED BY <1>1, <1>2 DEF IInv, Effect
-----------------------------------------------------------------------------
\* What is asked of the store: nothing, while no restore is under way.
LEMMA NothingAsked == Restoring = {} => Run = None
BY DEF Run

LEMMA Asks ==
  ASSUME IInv, NEW c \in Callers, op[c].call = "restore"
  PROVE  Run = Asked(op[c]) /\ Run # None
<1>1. Restoring = {c}
  BY DEF IInv, RestoresAlone, Restoring
<1>2. (CHOOSE d \in {c} : TRUE) = c
  OBVIOUS
<1>3. Run = Asked(op[c])
  BY <1>1, <1>2 DEF Run
<1>4. op[c].before \in Tree /\ op[c].target \in 0..Len(commits)
  BY DEF IInv, CallInv, RestoreInv
<1>5. commits \in [1..Len(commits) -> [tree : Tree, parent : Nat]] /\ Len(commits) \in Nat
  BY LenProperties DEF IInv, StoreShape
<1>6. op[c].target # 0 => commits[op[c].target].tree \in Tree
  BY <1>4, <1>5
<1>7. Asked(op[c]) \in [before : Trees, goal : Trees \cup {None}]
  BY <1>4, <1>6, VisibleType DEF Asked
<1> QED BY <1>3, <1>7, AskedAssumption

LEMMA SaveMaps ==
  ASSUME IInv, NEW c \in Callers, Effect(c), op[c].call = "save"
  PROVE  Promise!Next \/ UNCHANGED Promise!vars
<1>1. Restoring = {} /\ Restoring' = {}
  BY DEF IInv, RestoresAlone, Restoring, Effect
<1>2. Run = None /\ Run' = None
  BY <1>1, NothingAsked DEF Run
<1>3. SaveEffect(c) /\ Kept' \in {Kept, Kept \cup {Visible(files)}}
  BY DEF Effect
<1>4. CASE answer' = answer
  BY <1>2, <1>3, <1>4 DEF SaveEffect, Promise!Next, Promise!Keep, Promise!MayKeep
<1>5. CASE answer' # answer
  <2>1. answer' \in Answers \ {"verified"} /\ (answer' = "saved" => Visible(files) \in Kept)
    BY <1>3, <1>5 DEF SaveEffect, Answers
  <2> QED BY <1>2, <1>3, <2>1 DEF SaveEffect, Promise!Next, Promise!Answer, Promise!MayKeep
<1> QED BY <1>4, <1>5

LEMMA RestoreMaps ==
  ASSUME IInv, NEW c \in Callers, Effect(c), op[c].call = "restore"
  PROVE  Promise!Next \/ UNCHANGED Promise!vars
<1>1. Run = Asked(op[c]) /\ Run # None
  BY Asks
<1>2. RestoreEffect(c) /\ Kept' \in {Kept, Kept \cup {Visible(files)}}
  BY DEF Effect
<1>3. op[c].target \in 0..Len(commits) /\ op[c].before \in Tree
  BY DEF IInv, CallInv, RestoreInv
<1>4. Run.before = Visible(op[c].before)
  BY <1>1 DEF Asked
<1>5. Visible(files)' \in Trees
  BY VisibleType DEF Effect, StoreShape, Visible, Trees, Tree, Plain
<1>6. CASE op'[c].call = "restore"
  <2>1. IInv'
    BY EffectInv
  <2>2. Run' = Asked(op[c])'
    <3>1. Restoring' = {c}
      BY <1>6, <2>1 DEF IInv, RestoresAlone, Restoring
    <3>2. (CHOOSE d \in {c} : TRUE) = c
      OBVIOUS
    <3> QED BY <3>1, <3>2 DEF Run
  <2>3. op[c].target # 0 => commits'[op[c].target] = commits[op[c].target]
    <3>1. Len(commits) \in Nat /\ \A i \in 1..Len(commits) : commits'[i] = commits[i]
      <4>1. StoreShape
        BY DEF IInv
      <4>2. Len(commits) \in Nat
        BY <4>1, LenProperties DEF StoreShape
      <4>3. \A i \in 1..Len(commits) : commits'[i] = commits[i]
        BY DEF Effect
      <4> QED BY <4>2, <4>3
    <3>2. op[c].target # 0 => op[c].target \in 1..Len(commits)
      BY <1>3, <3>1
    <3> QED BY <3>1, <3>2
  <2>4. Run' = Run
    BY <1>1, <1>2, <1>6, <2>2, <2>3 DEF Asked, RestoreEffect, Visible
  <2>5. CASE Visible(files)' = Visible(files)
    BY <1>2, <1>6, <2>4, <2>5 DEF RestoreEffect, Promise!Next, Promise!Keep, Promise!MayKeep
  <2>6. CASE Visible(op[c].before) \in Kept /\ Kept' = Kept
    BY <1>1, <1>2, <1>4, <1>5, <1>6, <2>4, <2>6 DEF RestoreEffect, Promise!Next, Promise!Change
  <2> QED BY <1>2, <1>6, <2>5, <2>6 DEF RestoreEffect
<1>7. CASE op'[c].call = "none"
  <2>1. Restoring' = {}
    BY <1>7 DEF IInv, RestoresAlone, Restoring, Effect
  <2>2. Run' = None
    BY <2>1 DEF Run
  <2>3. answer' = "verified" => Visible(files)' = Run.goal
    BY <1>1, <1>2, <1>7 DEF RestoreEffect, Asked
  <2>4. Visible(files)' = Visible(files) \/ Run.before \in Kept
    BY <1>2, <1>4 DEF RestoreEffect
  <2> QED BY <1>1, <1>2, <1>5, <1>7, <2>2, <2>3, <2>4
          DEF RestoreEffect, Promise!Next, Promise!End, Promise!MayKeep
<1> QED BY <1>6, <1>7 DEF Effect

\* Whatever a step of a call does, it does as promised.
LEMMA EffectMaps ==
  ASSUME IInv, NEW c \in Callers, Effect(c)
  PROVE  Promise!Next \/ UNCHANGED Promise!vars
<1>1. op[c].call \in {"save", "restore"}
  BY DEF IInv, StoreShape, Op, Effect
<1> QED BY <1>1, SaveMaps, RestoreMaps
-----------------------------------------------------------------------------
\* What is seen of a state whose files and commits stay.
LEMMA Still ==
  ASSUME UNCHANGED <<files, index, commits, head>>
  PROVE  /\ Visible(files)' = Visible(files) /\ Visible(index)' = Visible(index)
         /\ Kept' = Kept
BY DEF Visible, Kept, Plain

\* A call that is at one of its steps is under way.
LEMMA AtStep ==
  ASSUME IInv, NEW c \in Callers, op[c].at # "idle"
  PROVE  op[c].call \in {"save", "restore"} /\ op[c] \in Op /\ Len(commits) \in Nat
BY LenProperties DEF IInv, CallInv, StoreShape, Op

LEMMA Returns ==
  ASSUME IInv, NEW c \in Callers, op[c].at # "idle",
         NEW result \in Answers \ {"saved"}, Return(c, result),
         UNCHANGED <<files, index, commits, head>>,
         result = "verified" => op[c].call = "restore" /\ op[c].at = "verify"
  PROVE  Effect(c)
<1>1. op[c].call \in {"save", "restore"} /\ Len(commits) \in Nat
  BY AtStep
<1>2. /\ op'[c] = Idle /\ answer' = result /\ op' \in [Callers -> Op]
      /\ \A d \in Callers \ {c} : op'[d] = op[d]
  BY DEF Return, IInv, StoreShape, Idle, Op
<1>3. StoreShape' /\ CallInv(op[c])'
  BY <1>2 DEF IInv, StoreShape, CallInv, Idle
<1>4. op[c].call = "restore" /\ op[c].at = "verify" =>
        op[c].target # 0 /\ Visible(files) = Visible(commits[op[c].target].tree)
  BY DEF IInv, CallInv, RestoreInv
<1>5. RestoreEffect(c)
  BY <1>1, <1>2, <1>4, Still DEF RestoreEffect, Idle
<1>6. op[c].call = "save" => SaveEffect(c)
  BY <1>2, Still DEF SaveEffect
<1> QED BY <1>1, <1>2, <1>3, <1>5, <1>6, Still DEF Effect, Idle

LEMMA Goes ==
  ASSUME IInv, NEW c \in Callers, op[c].at # "idle",
         NEW step \in SaveSteps \cup After, Goto(c, step),
         CallInv([op[c] EXCEPT !.at = step]),
         UNCHANGED <<files, index, commits, head, answer>>
  PROVE  Effect(c)
<1>1. op[c].call \in {"save", "restore"} /\ op[c] \in Op /\ Len(commits) \in Nat
  BY AtStep
<1>2. /\ op'[c] = [op[c] EXCEPT !.at = step] /\ op' \in [Callers -> Op]
      /\ \A d \in Callers \ {c} : op'[d] = op[d]
  BY <1>1 DEF Goto, IInv, StoreShape, Op
<1>3. StoreShape'
  BY <1>2 DEF IInv, StoreShape
<1>4. CallInv(op[c])'
  BY <1>2, Still DEF CallInv, SaveInv, RestoreInv, Visible
<1>5. SaveEffect(c) /\ RestoreEffect(c)
  BY <1>1, <1>2, Still DEF SaveEffect, RestoreEffect, Op
<1> QED BY <1>1, <1>2, <1>3, <1>4, <1>5, Still DEF Effect, Op
-----------------------------------------------------------------------------
(* The steps of a call.                                                    *)

LEMMA FailEffect ==
  ASSUME IInv, NEW c \in Callers, InitDisabled(c) \/ TargetMissing(c) \/ Refused(c) \/ StepFails(c)
  PROVE  Effect(c)
<1>1. op[c].at # "idle"
  BY DEF InitDisabled, TargetMissing, Refused, StepFails, Locks, GitSteps
<1>2. UNCHANGED <<files, index, commits, head>>
  BY DEF InitDisabled, TargetMissing, Refused, StepFails, disk
<1>3. PICK result \in {"disabled", "unverified", "failed"} : Return(c, result)
  BY DEF InitDisabled, TargetMissing, Refused, StepFails, Failed
<1>4. result \in Answers \ {"saved"} /\ result # "verified"
  BY DEF Answers
<1> QED BY <1>1, <1>2, <1>3, <1>4, Returns

LEMMA InitEffect ==
  ASSUME IInv, NEW c \in Callers,
         InitCheck(c) \/ GitInit(c) \/ WriteConfig(c) \/ WriteExclude(c) \/ TargetFound(c)
  PROVE  Effect(c)
<1>1. /\ UNCHANGED <<files, index, commits, head, answer>>
      /\ \/ op[c].at \in {"init", "gitinit", "config", "exclude"} /\ \E step \in SaveSteps \ {"commit", "head", "manifest"} : Goto(c, step)
         \/ op[c].at = "exists" /\ op[c].target # 0 /\ Goto(c, "clean")
  BY DEF InitCheck, GitInit, WriteConfig, WriteExclude, TargetFound, disk, SaveSteps
<1>2. op[c].at # "idle" /\ CallInv(op[c]) /\ op[c] \in Op
  BY <1>1, AtStep DEF IInv
<1>3. CASE op[c].at = "exists" /\ op[c].target # 0 /\ Goto(c, "clean")
  <2>1. CallInv([op[c] EXCEPT !.at = "clean"])
    BY <1>2, <1>3 DEF CallInv, SaveInv, RestoreInv, Op, SaveSteps, Before, After
  <2> QED BY <1>1, <1>2, <1>3, <2>1, Goes DEF SaveSteps, After
<1>4. ASSUME op[c].at \in {"init", "gitinit", "config", "exclude"},
             NEW step \in SaveSteps \ {"commit", "head", "manifest"}, Goto(c, step)
      PROVE  Effect(c)
  <2>1. CallInv([op[c] EXCEPT !.at = step])
    BY <1>2, <1>4 DEF CallInv, SaveInv, RestoreInv, Op, SaveSteps, Before, After
  <2> QED BY <1>1, <1>2, <1>4, <2>1, Goes
<1> QED BY <1>1, <1>3, <1>4

LEMMA VerifyEffect ==
  ASSUME IInv, NEW c \in Callers, VerifyRestored(c)
  PROVE  Effect(c)
<1>1. op[c].at = "verify" /\ UNCHANGED <<files, index, commits, head>>
  BY DEF VerifyRestored, disk
<1>2. op[c].call = "restore" /\ op[c] \in Op /\ CallInv(op[c])
  BY <1>1, AtStep DEF IInv, CallInv, SaveInv, SaveSteps
<1>3. CASE Return(c, "verified")
  BY <1>1, <1>2, <1>3, Returns DEF Answers
<1>4. CASE Goto(c, "rollback") /\ UNCHANGED answer
  <2>1. CallInv([op[c] EXCEPT !.at = "rollback"])
    BY <1>1, <1>2 DEF CallInv, RestoreInv, Op, Before, After
  <2> QED BY <1>1, <1>4, <2>1, Goes DEF After
<1> QED BY <1>3, <1>4 DEF VerifyRestored

LEMMA AddEffect ==
  ASSUME IInv, NEW c \in Callers, Add(c)
  PROVE  Effect(c)
<1>1. op[c].at = "add" /\ Goto(c, "commit") /\ UNCHANGED <<files, commits, head, answer>>
  BY DEF Add
<1>2. op[c].call \in {"save", "restore"} /\ op[c] \in Op /\ CallInv(op[c]) /\ Len(commits) \in Nat
  BY <1>1, AtStep DEF IInv
<1>3. /\ op'[c] = [op[c] EXCEPT !.at = "commit"] /\ op' \in [Callers -> Op]
      /\ \A d \in Callers \ {c} : op'[d] = op[d]
  BY <1>1, <1>2 DEF Goto, IInv, StoreShape, Op, SaveSteps
<1>4. index' \in Tree /\ Visible(index)' = Visible(files)
  BY StagedIsSeen DEF Add, IInv, Visible
<1>5. Visible(files)' = Visible(files) /\ Kept' = Kept
  BY <1>1 DEF Visible, Kept
<1>6. StoreShape'
  BY <1>1, <1>3, <1>4 DEF IInv, StoreShape
<1>7. CallInv(op[c])'
  BY <1>1, <1>2, <1>3, <1>4, <1>5
     DEF CallInv, SaveInv, RestoreInv, Op, SaveSteps, Before, After
<1>8. SaveEffect(c) /\ RestoreEffect(c)
  BY <1>1, <1>2, <1>3, <1>4, <1>5 DEF SaveEffect, RestoreEffect, Op
<1> QED BY <1>1, <1>2, <1>3, <1>5, <1>6, <1>7, <1>8 DEF Effect, Op

LEMMA CommitEffect ==
  ASSUME IInv, NEW c \in Callers, Commit(c)
  PROVE  Effect(c)
<1>1. op[c].at = "commit" /\ Goto(c, "head") /\ Committed /\ UNCHANGED <<files, index, answer>>
  BY DEF Commit
<1>2. op[c].call \in {"save", "restore"} /\ op[c] \in Op /\ CallInv(op[c]) /\ Len(commits) \in Nat
  BY <1>1, AtStep DEF IInv
<1>3. /\ op'[c] = [op[c] EXCEPT !.at = "head"] /\ op' \in [Callers -> Op]
      /\ \A d \in Callers \ {c} : op'[d] = op[d]
  BY <1>1, <1>2 DEF Goto, IInv, StoreShape, Op, SaveSteps
<1>4. /\ commits' \in Seq([tree : Tree, parent : Nat]) /\ head' \in 1..Len(commits')
      /\ Len(commits') = Len(commits) + 1
      /\ \A i \in 1..Len(commits) : commits'[i] = commits[i]
      /\ Kept' = Kept \cup {Visible(index)}
  BY <1>1, CommittedKeeps DEF IInv
<1>5. Visible(files)' = Visible(files) /\ Visible(index)' = Visible(index)
  BY <1>1 DEF Visible
<1>6. Visible(index) = Visible(files)
  BY <1>1, <1>2 DEF CallInv, SaveInv, RestoreInv
<1>7. StoreShape'
  BY <1>1, <1>2, <1>3, <1>4 DEF IInv, StoreShape
<1>8. CallInv(op[c])'
  BY <1>1, <1>2, <1>3, <1>4, <1>5, <1>6
     DEF CallInv, SaveInv, RestoreInv, Op, SaveSteps, Before, After
<1>9. SaveEffect(c) /\ RestoreEffect(c)
  BY <1>1, <1>2, <1>3, <1>4, <1>5 DEF SaveEffect, RestoreEffect, Op
<1> QED BY <1>1, <1>2, <1>3, <1>4, <1>6, <1>7, <1>8, <1>9 DEF Effect, Op

LEMMA HeadEffect ==
  ASSUME IInv, NEW c \in Callers, ReadHead(c)
  PROVE  Effect(c)
<1>1. op[c].at = "head" /\ UNCHANGED <<files, index, commits, head, answer>>
  BY DEF ReadHead, disk
<1>2. op[c].call \in {"save", "restore"} /\ op[c] \in Op /\ CallInv(op[c]) /\ Len(commits) \in Nat
  BY <1>1, AtStep DEF IInv
<1>3. head \in 1..Len(commits)
  BY <1>1, <1>2 DEF IInv, StoreShape, CallInv, SaveInv, RestoreInv
<1>4. /\ op'[c] = [op[c] EXCEPT !.at = "manifest", !.id = head] /\ op' \in [Callers -> Op]
      /\ \A d \in Callers \ {c} : op'[d] = op[d]
  <2> DEFINE new == [op[c] EXCEPT !.at = "manifest", !.id = head]
  <2>1. head \in Nat /\ op \in [Callers -> Op]
    BY <1>2, <1>3 DEF IInv, StoreShape
  <2>2. new \in Op
    BY <1>2, <2>1 DEF Op, SaveSteps
  <2>3. op' = [op EXCEPT ![c] = new]
    BY <2>1 DEF ReadHead
  <2> QED BY <2>1, <2>2, <2>3
<1>5. StoreShape'
  BY <1>1, <1>4 DEF IInv, StoreShape
<1>6. CallInv(op[c])'
  BY <1>1, <1>2, <1>3, <1>4, Still
     DEF CallInv, SaveInv, RestoreInv, Op, SaveSteps, Before, After
<1>7. SaveEffect(c) /\ RestoreEffect(c)
  BY <1>1, <1>2, <1>4, Still DEF SaveEffect, RestoreEffect, Op
<1> QED BY <1>1, <1>2, <1>4, <1>5, <1>6, <1>7, Still DEF Effect, Op

LEMMA ManifestEffect ==
  ASSUME IInv, NEW c \in Callers, WriteManifest(c)
  PROVE  Effect(c)
<1>1. op[c].at = "manifest" /\ UNCHANGED <<files, index, commits, head>>
  BY DEF WriteManifest
<1>2. op[c].call \in {"save", "restore"} /\ op[c] \in Op /\ CallInv(op[c]) /\ Len(commits) \in Nat
  BY <1>1, AtStep DEF IInv
<1>3. CASE op[c].call = "save"
  <2>1. Return(c, "saved") /\ Visible(files) \in Kept
    BY <1>1, <1>2, <1>3 DEF WriteManifest, CallInv, SaveInv
  <2>2. /\ op'[c] = Idle /\ answer' = "saved" /\ op' \in [Callers -> Op]
        /\ \A d \in Callers \ {c} : op'[d] = op[d]
    BY <2>1 DEF Return, IInv, StoreShape, Idle, Op
  <2>3. StoreShape' /\ CallInv(op[c])'
    BY <1>1, <2>2 DEF IInv, StoreShape, CallInv, Idle, Answers
  <2>4. SaveEffect(c)
    BY <1>1, <2>1, <2>2, Still DEF SaveEffect
  <2> QED BY <1>1, <1>2, <1>3, <2>2, <2>3, <2>4, Still DEF Effect, Idle
<1>4. CASE op[c].call = "restore"
  <2>1. Goto(c, "exists") /\ UNCHANGED answer
    BY <1>4 DEF WriteManifest
  <2>2. CallInv([op[c] EXCEPT !.at = "exists"])
    BY <1>1, <1>2, <1>4 DEF CallInv, RestoreInv, Op, SaveSteps, Before, After
  <2> QED BY <1>1, <2>1, <2>2, Goes DEF After
<1> QED BY <1>2, <1>3, <1>4
\* A step that changes files once what was there is kept.
LEMMA ChangeEffect ==
  ASSUME IInv, NEW c \in Callers, op[c].at \in {"clean", "reset", "rollback"},
         files' \in Tree, index' \in Tree, head' \in 0..Len(commits), UNCHANGED commits,
         NEW step \in {"reset", "verify"},
         \/ Goto(c, step) /\ CallInv(op[c])' /\ UNCHANGED answer
         \/ \E result \in Answers \ {"saved", "verified"} : Return(c, result)
  PROVE  Effect(c)
<1>1. op[c].call \in {"save", "restore"} /\ op[c] \in Op /\ CallInv(op[c]) /\ Len(commits) \in Nat
  BY AtStep DEF IInv
<1>2. op[c].call = "restore" /\ Visible(op[c].before) \in Kept
  BY <1>1 DEF CallInv, SaveInv, SaveSteps, RestoreInv, After
<1>3. Kept' = Kept
  BY DEF Kept, Visible
<1>4. CASE Goto(c, step) /\ CallInv(op[c])' /\ UNCHANGED answer
  <2>1. /\ op'[c] = [op[c] EXCEPT !.at = step] /\ op' \in [Callers -> Op]
        /\ \A d \in Callers \ {c} : op'[d] = op[d]
    BY <1>1, <1>4 DEF Goto, IInv, StoreShape, Op, After
  <2>2. StoreShape'
    BY <1>4, <2>1 DEF IInv, StoreShape
  <2>3. RestoreEffect(c)
    BY <1>1, <1>2, <1>3, <1>4, <2>1 DEF RestoreEffect, Op
  <2> QED BY <1>1, <1>2, <1>3, <1>4, <2>1, <2>2, <2>3 DEF Effect, Op
<1>5. ASSUME NEW result \in Answers \ {"saved", "verified"}, Return(c, result)
      PROVE  Effect(c)
  <2>1. /\ op'[c] = Idle /\ answer' = result /\ op' \in [Callers -> Op]
        /\ \A d \in Callers \ {c} : op'[d] = op[d]
    BY <1>5 DEF Return, IInv, StoreShape, Idle, Op
  <2>2. StoreShape' /\ CallInv(op[c])'
    BY <2>1 DEF IInv, StoreShape, CallInv, Idle
  <2>3. RestoreEffect(c)
    BY <1>2, <1>3, <2>1 DEF RestoreEffect, Idle
  <2> QED BY <1>1, <1>2, <1>3, <2>1, <2>2, <2>3 DEF Effect, Idle
<1> QED BY <1>4, <1>5

LEMMA CleanEffect ==
  ASSUME IInv, NEW c \in Callers, Clean(c)
  PROVE  Effect(c)
<1>1. /\ op[c].at = "clean" /\ Goto(c, "reset") /\ files' = Cleaned
      /\ UNCHANGED <<index, commits, head, answer>>
  BY DEF Clean, disk
<1>2. op[c].call \in {"save", "restore"} /\ op[c] \in Op /\ CallInv(op[c]) /\ op'[c] = [op[c] EXCEPT !.at = "reset"]
  BY <1>1, AtStep DEF IInv, Goto, StoreShape
<1>3. files' \in Tree
  BY <1>1, CleanedIsTree DEF IInv
<1>4. \A p \in Plain : index'[p] = Absent => files'[p] = Absent
  BY <1>1 DEF Cleaned, Plain
<1>5. Kept' = Kept
  BY <1>1 DEF Kept, Visible
<1>6. CallInv(op[c])'
  BY <1>1, <1>2, <1>4, <1>5
     DEF CallInv, SaveInv, RestoreInv, Op, SaveSteps, Before, After
<1> QED BY <1>1, <1>3, <1>6, ChangeEffect DEF IInv, StoreShape

LEMMA ResetEffect ==
  ASSUME IInv, NEW c \in Callers, Reset(c)
  PROVE  Effect(c)
<1> DEFINE tree == commits[op[c].target].tree
<1>1. /\ op[c].at = "reset" /\ Goto(c, "verify") /\ files' = ResetTo(tree)
      /\ index' = tree /\ head' = op[c].target /\ UNCHANGED <<commits, answer>>
  BY DEF Reset, HardReset
<1>2. op[c].call \in {"save", "restore"} /\ op[c] \in Op /\ CallInv(op[c]) /\ op'[c] = [op[c] EXCEPT !.at = "verify"]
  BY <1>1, AtStep DEF IInv, Goto, StoreShape
<1>3. /\ op[c].target \in 1..Len(commits)
      /\ \A p \in Plain : index[p] = Absent => files[p] = Absent
  BY <1>1, <1>2, LenProperties
     DEF CallInv, SaveInv, SaveSteps, RestoreInv, IInv, StoreShape
<1>4. tree \in Tree
  <2>1. commits \in [1..Len(commits) -> [tree : Tree, parent : Nat]]
    BY LenProperties DEF IInv, StoreShape
  <2> QED BY <1>3, <2>1
<1>5. files' \in Tree
  BY <1>1, <1>3, ResetIsTree DEF IInv
<1>6. Visible(files)' = Visible(tree)
  BY <1>1, <1>3 DEF Visible, ResetTo, Plain
<1>7. Kept' = Kept /\ Visible(commits[op[c].target].tree)' = Visible(commits'[op'[c].target].tree)
  BY <1>1 DEF Kept, Visible
<1>8. CallInv(op[c])'
  BY <1>1, <1>2, <1>3, <1>6, <1>7
     DEF CallInv, SaveInv, RestoreInv, Op, SaveSteps, Before, After, Visible
<1> QED BY <1>1, <1>3, <1>4, <1>5, <1>8, ChangeEffect

LEMMA RollBackEffect ==
  ASSUME IInv, NEW c \in Callers, RollBack(c)
  PROVE  Effect(c)
<1> DEFINE tree == commits[op[c].id].tree
<1>1. /\ op[c].at = "rollback" /\ Return(c, "unverified") /\ files' = ResetTo(tree)
      /\ index' = tree /\ head' = op[c].id /\ UNCHANGED commits
  BY DEF RollBack, HardReset
<1>2. op[c].call \in {"save", "restore"} /\ CallInv(op[c])
  BY <1>1, AtStep DEF IInv
<1>3. op[c].id \in 1..Len(commits)
  BY <1>1, <1>2 DEF CallInv, SaveInv, SaveSteps, RestoreInv
<1>4. tree \in Tree
  <2>1. commits \in [1..Len(commits) -> [tree : Tree, parent : Nat]]
    BY LenProperties DEF IInv, StoreShape
  <2> QED BY <1>3, <2>1
<1>5. files' \in Tree
  BY <1>1, <1>3, ResetIsTree DEF IInv
<1> QED BY <1>1, <1>3, <1>4, <1>5, ChangeEffect DEF Answers
\* A killed command has done any part of its work, and perhaps all of it.
Mixed(aim) ==
  \E done \in SUBSET Paths :
    files' = [p \in Paths |-> IF p \in done THEN aim[p] ELSE files[p]]

LEMMA KilledEffect ==
  ASSUME IInv, NEW c \in Callers, Killed(c)
  PROVE  Effect(c)
<1> DEFINE aim == CASE op[c].at = "clean" -> Cleaned
                    [] op[c].at = "reset" -> ResetTo(commits[op[c].target].tree)
                    [] op[c].at = "rollback" -> ResetTo(commits[op[c].id].tree)
                    [] OTHER -> files
<1>1. op[c].at # "idle" /\ index' = index /\ files \in Tree
  BY DEF Killed, GitSteps, IInv, StoreShape
<1>2. Mixed(aim)
  BY Zenon DEF Killed, Mixed
<1>3. /\ op[c].at = "clean" => aim = Cleaned
      /\ op[c].at = "reset" => aim = ResetTo(commits[op[c].target].tree)
      /\ op[c].at = "rollback" => aim = ResetTo(commits[op[c].id].tree)
      /\ op[c].at \notin {"clean", "reset", "rollback"} => aim = files
  OBVIOUS
<1> HIDE DEF aim
<1>4. /\ op[c].call \in {"save", "restore"} /\ op[c] \in Op /\ CallInv(op[c])
      /\ Len(commits) \in Nat /\ commits \in [1..Len(commits) -> [tree : Tree, parent : Nat]]
  BY <1>1, AtStep, LenProperties DEF IInv, StoreShape
<1>5. PICK result \in {"unverified", "failed"} : Return(c, result)
  BY DEF Killed, Failed
<1>6. ASSUME NEW goal \in Tree, Mixed(goal) PROVE files' \in Tree
  BY <1>1, <1>6 DEF Tree, Mixed
<1>7. CASE op[c].at \in {"clean", "reset", "rollback"}
  <2>1. UNCHANGED <<commits, head>>
    BY <1>7 DEF Killed
  <2>2. op[c].call = "restore" /\ op[c].target \in 0..Len(commits) /\ op[c].target # 0
          /\ op[c].id \in 1..Len(commits)
    BY <1>4, <1>7 DEF CallInv, SaveInv, SaveSteps, RestoreInv
  <2>3. op[c].at = "clean" => files' \in Tree
    BY <1>6, <1>2, <1>3, CleanedIsTree DEF IInv
  <2>4. op[c].at = "reset" => files' \in Tree
    <3>1. op[c].target \in 1..Len(commits)
      BY <1>4, <2>2
    <3> QED BY <1>6, <1>2, <1>3, <3>1, ResetIsTree DEF IInv
  <2>5. op[c].at = "rollback" => files' \in Tree
    BY <1>6, <1>2, <1>3, <2>2, ResetIsTree DEF IInv
  <2>6. files' \in Tree
    BY <1>7, <2>3, <2>4, <2>5
  <2> QED BY <1>1, <1>5, <1>7, <2>1, <2>6, ChangeEffect DEF IInv, StoreShape, Answers
<1>8. CASE op[c].at \notin {"clean", "reset", "rollback"}
  <2>1. files' = files
    <3>1. Mixed(files)
      BY <1>8, <1>2, <1>3
    <3> QED BY <1>1, <3>1 DEF Tree, Mixed
  <2>2. CASE op[c].at # "commit"
    BY <1>1, <1>5, <2>1, <2>2, Returns DEF Killed, Answers
  <2>3. CASE op[c].at = "commit"
    <3>1. Committed
      BY <2>3 DEF Killed
    <3>2. /\ commits' \in Seq([tree : Tree, parent : Nat]) /\ head' \in 1..Len(commits')
          /\ Len(commits') = Len(commits) + 1
          /\ \A i \in 1..Len(commits) : commits'[i] = commits[i]
          /\ Kept' = Kept \cup {Visible(index)}
      BY <3>1, CommittedKeeps DEF IInv
    <3>3. Visible(files)' = Visible(files) /\ Visible(index)' = Visible(index)
      BY <1>1, <2>1 DEF Visible
    <3>4. Visible(index) = Visible(files)
      BY <1>4, <2>3 DEF CallInv, SaveInv, RestoreInv
    <3>5. /\ op'[c] = Idle /\ answer' = result /\ op' \in [Callers -> Op]
          /\ \A d \in Callers \ {c} : op'[d] = op[d]
      BY <1>5 DEF Return, IInv, StoreShape, Idle, Op
    <3>6. StoreShape' /\ CallInv(op[c])'
      BY <1>1, <1>4, <2>1, <3>2, <3>5 DEF IInv, StoreShape, CallInv, Idle, Answers
    <3>7. SaveEffect(c) /\ RestoreEffect(c)
      BY <1>4, <3>2, <3>3, <3>5 DEF SaveEffect, RestoreEffect, Idle, Answers
    <3>8. Kept' \in {Kept, Kept \cup {Visible(files)}}
      BY <3>2, <3>4
    <3>9. Len(commits) <= Len(commits') /\ \A i \in 1..Len(commits) : commits'[i] = commits[i]
      <4>1. Len(commits) \in Nat
        BY <1>1, LenProperties DEF StoreShape
      <4> QED BY <3>2, <4>1
    <3>10. op[c].call # "none" /\ op'[c].call \in {op[c].call, "none"}
      BY <1>4, <3>5 DEF Idle
    <3> QED BY <3>5, <3>6, <3>7, <3>8, <3>9, <3>10 DEF Effect
  <2> QED BY <2>2, <2>3
<1> QED BY <1>7, <1>8

LEMMA StepEffect ==
  ASSUME IInv, NEW c \in Callers, Step(c)
  PROVE  Effect(c)
BY FailEffect, InitEffect, VerifyEffect, AddEffect, CommitEffect, HeadEffect, ManifestEffect,
   CleanEffect, ResetEffect, RollBackEffect, KilledEffect DEF Step
-----------------------------------------------------------------------------
\* A call begins, the files are edited, the command line ends.
LEMMA CallEffect ==
  ASSUME IInv, NEW c \in Callers, NEW call \in {"save", "restore"}, NEW target \in 0..Len(commits),
         Call(c, call, target),
         call = "save" => Restoring = {}, call = "restore" => Busy = {}
  PROVE  IInv' /\ Kept' = Kept /\ Visible(files)' = Visible(files) /\ answer' = answer
<1> DEFINE new == [call |-> call, at |-> FirstStep(call), target |-> target, id |-> 0, before |-> files]
<1>1. UNCHANGED <<files, index, commits, head, answer>> /\ op' = [op EXCEPT ![c] = new]
  BY DEF Call, disk
<1>2. FirstStep(call) \in {"add", "init"} /\ target \in Nat /\ files \in Tree
  BY DEF FirstStep, IInv, StoreShape
<1>3. new \in Op
  BY <1>2 DEF Op, SaveSteps
<1>4. /\ op' \in [Callers -> Op] /\ op'[c] = new
      /\ \A d \in Callers \ {c} : op'[d] = op[d]
  BY <1>1, <1>3 DEF IInv, StoreShape
<1>5. StoreShape'
  BY <1>1, <1>4 DEF IInv, StoreShape
<1>6. RestoresAlone'
  <2>1. CASE call = "save"
    BY <1>4, <2>1 DEF RestoresAlone, Restoring
  <2>2. CASE call = "restore"
    BY <1>4, <2>2 DEF RestoresAlone, Busy
  <2> QED BY <2>1, <2>2
<1>7. CallInv(op[c])'
  BY <1>1, <1>2, <1>4 DEF CallInv, SaveInv, RestoreInv, SaveSteps, Before, After, Visible
<1>8. ASSUME NEW d \in Callers \ {c} PROVE CallInv(op[d])'
  BY <1>1, <1>4, <1>8, Still DEF IInv, CallInv, SaveInv, RestoreInv, Visible
<1> QED BY <1>1, <1>5, <1>6, <1>7, <1>8, Still DEF IInv

\* Every step, if nobody edits behind a call's back.
LEMMA NextMaps ==
  ASSUME IInv, ~BackgroundWrites, [Next]_vars
  PROVE  IInv' /\ (Promise!Next \/ UNCHANGED Promise!vars)
<1>1. ASSUME NEW c \in Callers, Save(c)
      PROVE  IInv' /\ (Promise!Next \/ UNCHANGED Promise!vars)
  <2>1. IInv' /\ Kept' = Kept /\ Visible(files)' = Visible(files) /\ answer' = answer
    <3>1. 0 \in 0..Len(commits)
      BY LenProperties DEF IInv, StoreShape
    <3> QED BY <1>1, <3>1, CallEffect DEF Save
  <2>2. Restoring = {} /\ Restoring' = {}
    BY <1>1 DEF Save, Call, Restoring, IInv, StoreShape
  <2> QED BY <2>1, <2>2 DEF Run, Promise!vars
<1>2. ASSUME NEW c \in Callers, Restore(c)
      PROVE  IInv' /\ (Promise!Next \/ UNCHANGED Promise!vars)
  <2>1. PICK target \in 0..Len(commits) : Call(c, "restore", target)
    BY <1>2 DEF Restore
  <2>2. IInv' /\ Kept' = Kept /\ Visible(files)' = Visible(files) /\ answer' = answer
    BY <1>2, <2>1, CallEffect DEF Restore
  <2>3. Run = None
    BY <1>2 DEF Restore, Busy, Restoring, Run
  <2>4. /\ op'[c].call = "restore" /\ op'[c].before = files /\ op'[c].target = target
        /\ commits' = commits /\ files' = files
    BY <2>1 DEF Call, IInv, StoreShape, disk
  <2>5. Restoring' = {c}
    BY <2>2, <2>4 DEF IInv, RestoresAlone, Restoring
  <2>6. (CHOOSE d \in {c} : TRUE) = c
    OBVIOUS
  <2>7. Run' = Asked(op[c])'
    BY <2>5, <2>6 DEF Run
  <2> DEFINE goal == IF target = 0 THEN None ELSE Visible(commits[target].tree)
  <2>8. Run' = [before |-> Visible(files), goal |-> goal]
    BY <2>4, <2>7 DEF Asked, Visible
  <2>9. goal \in Kept \cup {None}
    BY LenProperties DEF Kept, IInv, StoreShape
  <2> QED BY <2>2, <2>3, <2>8, <2>9 DEF Promise!Next, Promise!Begin
<1>3. ASSUME NEW c \in Callers, Step(c)
      PROVE  IInv' /\ (Promise!Next \/ UNCHANGED Promise!vars)
  BY <1>3, StepEffect, EffectInv, EffectMaps
<1>4. CASE Edit
  <2>1. PICK p \in Paths, v \in Contents \cup {Absent} : files' = [files EXCEPT ![p] = v]
    BY <1>4 DEF Edit
  <2>2. Busy = {} /\ UNCHANGED <<index, commits, head, op, answer>>
    BY <1>4 DEF Edit, disk
  <2>3. files' \in Tree
    BY <2>1 DEF IInv, StoreShape, Tree
  <2>4. IInv'
    BY <2>2, <2>3 DEF IInv, StoreShape, RestoresAlone, CallInv, Busy
  <2>5. Run = None /\ Run' = None /\ Kept' = Kept
    BY <2>2 DEF Busy, Restoring, Run, Kept, Visible
  <2>6. Visible(files)' \in Trees
    BY <2>3 DEF Visible, Trees, Tree, Plain
  <2> QED BY <2>2, <2>4, <2>5, <2>6 DEF Promise!Next, Promise!Edit
<1>5. CASE Crash
  <2>1. /\ UNCHANGED <<files, index, commits, head>> /\ answer' = "none"
        /\ op' = [c \in Callers |-> Idle]
    BY <1>5 DEF Crash, disk
  <2>2. Idle \in Op
    BY DEF Idle, Op
  <2>3. IInv'
    BY <2>1, <2>2 DEF IInv, StoreShape, RestoresAlone, CallInv, Idle, Answers
  <2>4. Run' = None
    BY <2>1 DEF Run, Restoring, Idle
  <2>5. CASE Run = None
    BY <2>1, <2>3, <2>4, <2>5, Still DEF Promise!Next, Promise!Answer, Promise!MayKeep, Answers
  <2>6. CASE Run # None
    <3>1. Visible(files)' \in Trees
      BY <2>3 DEF IInv, StoreShape, Visible, Trees, Tree, Plain
    <3> QED BY <2>1, <2>3, <2>4, <2>6, <3>1, Still
            DEF Promise!Next, Promise!End, Promise!MayKeep, Answers
  <2> QED BY <2>5, <2>6
<1>6. CASE UNCHANGED vars
  <2>1. UNCHANGED <<files, index, commits, head, op, answer>>
    BY <1>6 DEF vars, disk
  <2>2. IInv'
    BY <2>1, Still DEF IInv, StoreShape, RestoresAlone, CallInv, SaveInv, RestoreInv, Visible
  <2>3. Run' = Run
    BY <2>1 DEF Run, Restoring, Asked, Visible
  <2> QED BY <2>1, <2>2, <2>3, Still DEF Promise!vars
<1> QED BY <1>1, <1>2, <1>3, <1>4, <1>5, <1>6 DEF Next

LEMMA InitMaps == Init => Promise!Init
<1> SUFFICES ASSUME Init PROVE Promise!Init
  OBVIOUS
<1>1. Visible(files) \in Trees
  BY VisibleType DEF Init
<1>2. Kept = {} /\ Restoring = {}
  BY DEF Init, Kept, Restoring, Idle
<1> QED BY <1>1, <1>2 DEF Promise!Init, Run, Init

\* Whoever saves has kept the files, a restore changes them only once they are
\* kept, and says "verified" only of what was asked for, if no job edits while
\* a call is under way: shadow-git.ts, for any workspace, failures and crashes.
THEOREM Implements == ~BackgroundWrites => (Spec => KeepsPromise)
<1> SUFFICES ASSUME ~BackgroundWrites PROVE Spec => KeepsPromise
  OBVIOUS
<1>1. Init => IInv /\ Promise!Init
  BY InitInv, InitMaps
<1>2. IInv /\ [Next]_vars => IInv' /\ [Promise!Next]_Promise!vars
  BY NextMaps
<1> QED BY <1>1, <1>2, PTL DEF Spec, KeepsPromise, Promise!Spec
==============================================================================
