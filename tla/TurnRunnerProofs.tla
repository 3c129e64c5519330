-------------------------- MODULE TurnRunnerProofs --------------------------
(***************************************************************************)
(* Proofs about TurnRunner: its types, what the model is shown and what    *)
(* goes on file, and what the counters of a run stand for, for any tools,  *)
(* limits, faults and conversations.                                       *)
(*                                                                         *)
(* The loops of the code over a batch and over a file are recursive        *)
(* functions of the model.  Recursion says that they exist, so that what   *)
(* they compute can be proved by Induction over the length.                *)
(***************************************************************************)
EXTENDS TurnRunner, SequenceTheorems, FiniteSetTheorems, WellFoundedInduction,
        NaturalsInduction, TLAPS

\* Induction up to a bound, and the existence of functions defined by recursion.
LEMMA Induction ==
  ASSUME NEW N \in Nat, NEW P, 0 \in P, \A n \in 0..N - 1 : n \in P => n + 1 \in P
  PROVE  0..N \subseteq P
<1> DEFINE Bad == {n \in 0..N : n \notin P}
<1> SUFFICES ASSUME Bad # {} PROVE FALSE
  OBVIOUS
<1> DEFINE Less == OpToRel(<, Nat)
<1>1. Bad \subseteq Nat /\ \A x, y \in Nat : y < x => <<y, x>> \in Less
  BY DEF OpToRel
<1>2. IsWellFoundedOn(Less, Nat)
  BY NatLessThanWellFounded
<1> HIDE DEF Less, Bad
<1>3. PICK x \in Bad : \A y \in Bad : ~(<<y, x>> \in Less)
  BY <1>1, <1>2, WFMin
<1>4. \A y \in Bad : ~(y < x)
  BY <1>1, <1>3
<1> USE DEF Bad
<1>5. x \in 1..N /\ x - 1 \in 0..N - 1 /\ x - 1 \notin Bad
  BY <1>4
<1> QED BY <1>5

\* g is what the recursion from a by the functions F comes to.
Iterates(g, N, S, a, F) ==
  g[0] = a /\ \A n \in 1..N : g[n - 1] \in S => g[n] = F[n][g[n - 1]]

LEMMA Recursion ==
  ASSUME NEW N \in Nat, NEW S, NEW a \in S, NEW F \in [1..N -> [S -> S]]
  PROVE  \E f \in [0..N -> S] : Iterates(f, N, S, a, F)
<1> DEFINE Obeys(f, m) == f[0] = a /\ \A n \in 1..m : f[n] = F[n][f[n - 1]]
           P == {m \in 0..N : \E f \in [0..m -> S] : Obeys(f, m)}
<1>1. 0 \in P
  <2> DEFINE g == [n \in 0..0 |-> a]
  <2>1. g \in [0..0 -> S] /\ Obeys(g, 0)
    OBVIOUS
  <2> HIDE DEF g
  <2> QED BY <2>1
<1>2. ASSUME NEW m \in 0..N - 1, m \in P
      PROVE  m + 1 \in P
  <2>1. PICK f \in [0..m -> S] : Obeys(f, m)
    BY <1>2
  <2> DEFINE g == [n \in 0..m + 1 |-> IF n = m + 1 THEN F[m + 1][f[m]] ELSE f[n]]
  <2>2. f[m] \in S /\ m + 1 \in 1..N
    OBVIOUS
  <2>3. F[m + 1][f[m]] \in S
    BY <2>2
  <2>4. g \in [0..m + 1 -> S]
    BY <2>3
  <2>5. Obeys(g, m + 1)
    BY <2>1
  <2> HIDE DEF g
  <2> QED BY <2>4, <2>5
<1>3. N \in P
  <2> HIDE DEF P
  <2>1. 0..N \subseteq P
    BY <1>1, <1>2, Induction
  <2> QED BY <2>1
<1> QED BY <1>3 DEF Iterates

LEMMA Unrolled ==
  ASSUME NEW N \in Nat, NEW S, NEW a \in S, NEW F \in [1..N -> [S -> S]],
         NEW g, Iterates(g, N, S, a, F)
  PROVE  \A n \in 0..N : g[n] \in S
<1> DEFINE P == {n \in 0..N : g[n] \in S}
<1>1. 0 \in P
  BY DEF Iterates
<1>2. ASSUME NEW n \in 0..N - 1, n \in P
      PROVE  n + 1 \in P
  <2>1. n + 1 \in 1..N /\ (n + 1) - 1 = n
    OBVIOUS
  <2>2. g[n + 1] = F[n + 1][g[n]]
    BY <1>2, <2>1 DEF Iterates
  <2> QED BY <1>2, <2>1, <2>2
<1>3. 0..N \subseteq P
  <2> HIDE DEF P
  <2> QED BY <1>1, <1>2, Induction
<1> QED BY <1>3

-----------------------------------------------------------------------------
(***************************************************************************)
(* What is read back from a file, line by line.                            *)
(***************************************************************************)
Line == [type : {"item"}, item : Item] \cup [type : {"handle"}, handle : Handle]

Read(lines) ==
  CHOOSE read : read = [n \in 0..Len(lines) |->
                          IF n = 0 THEN <<>> ELSE AfterLine(read[n - 1], lines[n])]

LEMMA AfterLineType ==
  \A s \in Seq(Item), l \in Line : AfterLine(s, l) \in Seq(Item)
BY AppendProperties DEF AfterLine, Line

LEMMA ReadExists ==
  ASSUME NEW lines \in Seq(Line)
  PROVE  /\ Read(lines)[0] = <<>>
         /\ \A n \in 1..Len(lines) :
              Read(lines)[n] = AfterLine(Read(lines)[n - 1], lines[n])
         /\ \A n \in 0..Len(lines) : Read(lines)[n] \in Seq(Item)
<1> DEFINE N == Len(lines)
           S == Seq(Item)
           F == [n \in 1..N |-> [s \in S |-> AfterLine(s, lines[n])]]
           Obeys(f) == f = [n \in 0..N |-> IF n = 0 THEN <<>> ELSE AfterLine(f[n - 1], lines[n])]
<1>1. N \in Nat /\ <<>> \in S
  BY LenProperties
<1>2. F \in [1..N -> [S -> S]]
  BY LenProperties, AfterLineType
<1>3. \A n \in 1..N, x \in S : F[n][x] = AfterLine(x, lines[n])
  OBVIOUS
<1>4. Read(lines) = CHOOSE f : Obeys(f)
  BY DEF Read
<1> HIDE DEF N, S, F
<1>5. PICK f \in [0..N -> S] : Iterates(f, N, S, <<>>, F)
  BY <1>1, <1>2, Recursion
<1>6. Obeys(f)
  <2>1. \A n \in 1..N : f[n - 1] \in S
    BY <1>1
  <2>2. f[0] = <<>> /\ \A n \in 1..N : f[n] = AfterLine(f[n - 1], lines[n])
    BY <1>3, <1>5, <2>1 DEF Iterates
  <2> QED BY <1>1, <2>2
<1>7. Obeys(Read(lines))
  BY <1>4, <1>6
<1>8. Read(lines)[0] = <<>> /\ \A n \in 1..N : Read(lines)[n] = AfterLine(Read(lines)[n - 1], lines[n])
  BY <1>1, <1>7
<1>9. Iterates(Read(lines), N, S, <<>>, F)
  BY <1>3, <1>8 DEF Iterates
<1>10. \A n \in 0..N : Read(lines)[n] \in S
  BY <1>1, <1>2, <1>9, Unrolled
<1> QED BY <1>8, <1>10 DEF N, S

LEMMA ReadAppend ==
  ASSUME NEW lines \in Seq(Line), NEW l \in Line
  PROVE  /\ ResponseItems(lines) \in Seq(Item)
         /\ ResponseItems(Append(lines, l)) = AfterLine(ResponseItems(lines), l)
<1> DEFINE N == Len(lines)
           more == Append(lines, l)
           P == {n \in 0..N : Read(more)[n] = Read(lines)[n]}
<1>1. /\ more \in Seq(Line) /\ Len(more) = N + 1 /\ more[N + 1] = l
      /\ \A n \in 1..N : more[n] = lines[n]
  BY AppendProperties
<1>2. N \in Nat /\ ResponseItems(lines) = Read(lines)[N] /\ ResponseItems(more) = Read(more)[N + 1]
  BY <1>1, LenProperties DEF ResponseItems, Read
<1>3. /\ Read(more)[0] = <<>> /\ Read(lines)[0] = <<>>
      /\ \A n \in 1..N + 1 : Read(more)[n] = AfterLine(Read(more)[n - 1], more[n])
      /\ \A n \in 1..N : Read(lines)[n] = AfterLine(Read(lines)[n - 1], lines[n])
  BY <1>1, ReadExists
<1>4. Read(lines)[N] \in Seq(Item)
  BY <1>2, ReadExists
<1> HIDE DEF N, more
<1>5. 0 \in P
  BY <1>2, <1>3
<1>6. ASSUME NEW n \in 0..N - 1, n \in P
      PROVE  n + 1 \in P
  <2>1. n + 1 \in 1..N /\ n + 1 \in 1..N + 1 /\ (n + 1) - 1 = n
    BY <1>2
  <2>2. Read(more)[n + 1] = AfterLine(Read(more)[n], more[n + 1])
    BY <1>3, <2>1
  <2>3. Read(lines)[n + 1] = AfterLine(Read(lines)[n], lines[n + 1])
    BY <1>3, <2>1
  <2>4. more[n + 1] = lines[n + 1]
    BY <1>1, <2>1
  <2> QED BY <1>6, <2>1, <2>2, <2>3, <2>4
<1>7. 0..N \subseteq P
  <2> HIDE DEF P
  <2> QED BY <1>2, <1>5, <1>6, Induction
<1>8. Read(more)[N] = Read(lines)[N]
  BY <1>2, <1>7
<1>9. Read(more)[N + 1] = AfterLine(Read(more)[N], more[N + 1])
  <2>1. N + 1 \in 1..N + 1 /\ (N + 1) - 1 = N
    BY <1>2
  <2> QED BY <1>3, <2>1
<1> QED BY <1>1, <1>2, <1>4, <1>8, <1>9 DEF more

(***************************************************************************)
(* What of a history goes on file, item by item.                           *)
(***************************************************************************)
Keep(items) ==
  CHOOSE kept : kept = [n \in 0..Len(items) |->
                          IF n = 0 THEN <<>> ELSE AfterItem(kept[n - 1], items[n])]

LEMMA AfterItemType ==
  \A s \in Seq(Item), e \in Item : AfterItem(s, e) \in Seq(Item)
BY AppendProperties DEF AfterItem

LEMMA FiledExists ==
  ASSUME NEW items \in Seq(Item)
  PROVE  /\ Keep(items)[0] = <<>>
         /\ \A n \in 1..Len(items) :
              Keep(items)[n] = AfterItem(Keep(items)[n - 1], items[n])
         /\ \A n \in 0..Len(items) : Keep(items)[n] \in Seq(Item)
<1> DEFINE N == Len(items)
           S == Seq(Item)
           F == [n \in 1..N |-> [s \in S |-> AfterItem(s, items[n])]]
           Obeys(f) == f = [n \in 0..N |-> IF n = 0 THEN <<>> ELSE AfterItem(f[n - 1], items[n])]
<1>1. N \in Nat /\ <<>> \in S
  BY LenProperties
<1>2. F \in [1..N -> [S -> S]]
  BY LenProperties, AfterItemType
<1>3. \A n \in 1..N, x \in S : F[n][x] = AfterItem(x, items[n])
  OBVIOUS
<1>4. Keep(items) = CHOOSE f : Obeys(f)
  BY DEF Keep
<1> HIDE DEF N, S, F
<1>5. PICK f \in [0..N -> S] : Iterates(f, N, S, <<>>, F)
  BY <1>1, <1>2, Recursion
<1>6. Obeys(f)
  <2>1. \A n \in 1..N : f[n - 1] \in S
    BY <1>1
  <2>2. f[0] = <<>> /\ \A n \in 1..N : f[n] = AfterItem(f[n - 1], items[n])
    BY <1>3, <1>5, <2>1 DEF Iterates
  <2> QED BY <1>1, <2>2
<1>7. Obeys(Keep(items))
  BY <1>4, <1>6
<1>8. Keep(items)[0] = <<>> /\ \A n \in 1..N : Keep(items)[n] = AfterItem(Keep(items)[n - 1], items[n])
  BY <1>1, <1>7
<1>9. Iterates(Keep(items), N, S, <<>>, F)
  BY <1>3, <1>8 DEF Iterates
<1>10. \A n \in 0..N : Keep(items)[n] \in S
  BY <1>1, <1>2, <1>9, Unrolled
<1> QED BY <1>8, <1>10 DEF N, S

LEMMA FiledAppend ==
  ASSUME NEW items \in Seq(Item), NEW e \in Item
  PROVE  /\ Filed(items) \in Seq(Item)
         /\ Filed(Append(items, e)) = AfterItem(Filed(items), e)
<1> DEFINE N == Len(items)
           more == Append(items, e)
           P == {n \in 0..N : Keep(more)[n] = Keep(items)[n]}
<1>1. /\ more \in Seq(Item) /\ Len(more) = N + 1 /\ more[N + 1] = e
      /\ \A n \in 1..N : more[n] = items[n]
  BY AppendProperties
<1>2. N \in Nat /\ Filed(items) = Keep(items)[N] /\ Filed(more) = Keep(more)[N + 1]
  BY <1>1, LenProperties DEF Filed, Keep
<1>3. /\ Keep(more)[0] = <<>> /\ Keep(items)[0] = <<>>
      /\ \A n \in 1..N + 1 : Keep(more)[n] = AfterItem(Keep(more)[n - 1], more[n])
      /\ \A n \in 1..N : Keep(items)[n] = AfterItem(Keep(items)[n - 1], items[n])
  BY <1>1, FiledExists
<1>4. Keep(items)[N] \in Seq(Item)
  BY <1>2, FiledExists
<1> HIDE DEF N, more
<1>5. 0 \in P
  BY <1>2, <1>3
<1>6. ASSUME NEW n \in 0..N - 1, n \in P
      PROVE  n + 1 \in P
  <2>1. n + 1 \in 1..N /\ n + 1 \in 1..N + 1 /\ (n + 1) - 1 = n
    BY <1>2
  <2>2. Keep(more)[n + 1] = AfterItem(Keep(more)[n], more[n + 1])
    BY <1>3, <2>1
  <2>3. Keep(items)[n + 1] = AfterItem(Keep(items)[n], items[n + 1])
    BY <1>3, <2>1
  <2>4. more[n + 1] = items[n + 1]
    BY <1>1, <2>1
  <2> QED BY <1>6, <2>1, <2>2, <2>3, <2>4
<1>7. 0..N \subseteq P
  <2> HIDE DEF P
  <2> QED BY <1>2, <1>5, <1>6, Induction
<1>8. Keep(more)[N] = Keep(items)[N]
  BY <1>2, <1>7
<1>9. Keep(more)[N + 1] = AfterItem(Keep(more)[N], more[N + 1])
  <2>1. N + 1 \in 1..N + 1 /\ (N + 1) - 1 = N
    BY <1>2
  <2> QED BY <1>3, <2>1
<1> QED BY <1>1, <1>2, <1>4, <1>8, <1>9 DEF more

-----------------------------------------------------------------------------
(***************************************************************************)
(* What a batch adds to the failures of patches, call by call.             *)
(***************************************************************************)
Tally == [fails : Nat, reads : Nat]

Count(calls) ==
  CHOOSE counted : counted = [n \in 0..Len(calls) |->
    IF n = 0 THEN [fails |-> patchFails, reads |-> 0] ELSE AfterPatch(counted[n - 1], calls[n])]

LEMMA AfterPatchType ==
  \A s \in Tally, c \in Call : AfterPatch(s, c) \in Tally
BY DEF AfterPatch, Tally

LEMMA CountExists ==
  ASSUME NEW calls \in Seq(Call), patchFails \in Nat
  PROVE  /\ Count(calls)[0] = [fails |-> patchFails, reads |-> 0]
         /\ \A n \in 1..Len(calls) :
              Count(calls)[n] = AfterPatch(Count(calls)[n - 1], calls[n])
         /\ \A n \in 0..Len(calls) : Count(calls)[n] \in Tally
<1> DEFINE N == Len(calls)
           S == Tally
           a == [fails |-> patchFails, reads |-> 0]
           F == [n \in 1..N |-> [s \in S |-> AfterPatch(s, calls[n])]]
           Obeys(f) == f = [n \in 0..N |-> IF n = 0 THEN a ELSE AfterPatch(f[n - 1], calls[n])]
<1>1. N \in Nat /\ a \in S
  BY LenProperties DEF Tally
<1>2. F \in [1..N -> [S -> S]]
  BY LenProperties, AfterPatchType
<1>3. \A n \in 1..N, x \in S : F[n][x] = AfterPatch(x, calls[n])
  OBVIOUS
<1>4. Count(calls) = CHOOSE f : Obeys(f)
  BY DEF Count
<1> HIDE DEF N, S, F, a
<1>5. PICK f \in [0..N -> S] : Iterates(f, N, S, a, F)
  BY <1>1, <1>2, Recursion
<1>6. Obeys(f)
  <2>1. \A n \in 1..N : f[n - 1] \in S
    BY <1>1
  <2>2. f[0] = a /\ \A n \in 1..N : f[n] = AfterPatch(f[n - 1], calls[n])
    BY <1>3, <1>5, <2>1 DEF Iterates
  <2> QED BY <1>1, <2>2
<1>7. Obeys(Count(calls))
  BY <1>4, <1>6
<1>8. Count(calls)[0] = a /\ \A n \in 1..N : Count(calls)[n] = AfterPatch(Count(calls)[n - 1], calls[n])
  BY <1>1, <1>7
<1>9. Iterates(Count(calls), N, S, a, F)
  BY <1>3, <1>8 DEF Iterates
<1>10. \A n \in 0..N : Count(calls)[n] \in S
  BY <1>1, <1>2, <1>9, Unrolled
<1> QED BY <1>8, <1>10 DEF N, S, a

LEMMA PatchesType ==
  ASSUME NEW calls \in Seq(Call), patchFails \in Nat
  PROVE  AfterPatches(calls) \in Tally
<1>1. Len(calls) \in Nat /\ AfterPatches(calls) = Count(calls)[Len(calls)]
  BY LenProperties DEF AfterPatches, Count
<1> QED BY <1>1, CountExists

(***************************************************************************)
(* What a batch adds to the bad arguments and the tools held back.         *)
(***************************************************************************)
BadArgs == [Tools -> [signature : Signatures, count : Nat] \cup {None}]
Books == [badArgs : BadArgs, suppressed : SUBSET Tools]

Book(calls) ==
  CHOOSE booked : booked = [n \in 0..Len(calls) |->
    IF n = 0 THEN [badArgs |-> badArgs, suppressed |-> suppressed]
    ELSE AfterCall(booked[n - 1], calls[n])]

LEMMA AfterCallType ==
  ASSUME NEW s \in Books, NEW c \in Call
  PROVE  AfterCall(s, c) \in Books
<1>1. c.tool \in Tools /\ s.badArgs[c.tool] \in [signature : Signatures, count : Nat] \cup {None}
  BY DEF Books, BadArgs, Call
<1>2. CASE c.status \in Signatures
  <2>1. Recorded(s.badArgs[c.tool], c.status) \in [signature : Signatures, count : Nat]
    BY <1>1, <1>2 DEF Recorded
  <2>2. AfterFailure(s, c) \in Books
    BY <1>1, <2>1 DEF AfterFailure, Books, BadArgs
  <2> QED BY <1>2, <2>2 DEF AfterCall, Signatures
<1>3. CASE c.status = "unavailable"
  BY <1>1, <1>3 DEF AfterCall, AfterRefusal, Books, Signatures
<1>4. CASE c.status = "ok"
  BY <1>1, <1>4 DEF AfterCall, Books, BadArgs, Signatures
<1>5. CASE c.status \notin Signatures \cup {"unavailable", "ok"}
  BY <1>1, <1>5 DEF AfterCall
<1> QED BY <1>2, <1>3, <1>4, <1>5

LEMMA BookExists ==
  ASSUME NEW calls \in Seq(Call), badArgs \in BadArgs, suppressed \subseteq Tools
  PROVE  /\ Book(calls)[0] = [badArgs |-> badArgs, suppressed |-> suppressed]
         /\ \A n \in 1..Len(calls) :
              Book(calls)[n] = AfterCall(Book(calls)[n - 1], calls[n])
         /\ \A n \in 0..Len(calls) : Book(calls)[n] \in Books
<1> DEFINE N == Len(calls)
           S == Books
           a == [badArgs |-> badArgs, suppressed |-> suppressed]
           F == [n \in 1..N |-> [s \in S |-> AfterCall(s, calls[n])]]
           Obeys(f) == f = [n \in 0..N |-> IF n = 0 THEN a ELSE AfterCall(f[n - 1], calls[n])]
<1>1. N \in Nat /\ a \in S
  BY LenProperties DEF Books
<1>2. F \in [1..N -> [S -> S]]
  BY LenProperties, AfterCallType
<1>3. \A n \in 1..N, x \in S : F[n][x] = AfterCall(x, calls[n])
  OBVIOUS
<1>4. Book(calls) = CHOOSE f : Obeys(f)
  BY DEF Book
<1> HIDE DEF N, S, F, a
<1>5. PICK f \in [0..N -> S] : Iterates(f, N, S, a, F)
  BY <1>1, <1>2, Recursion
<1>6. Obeys(f)
  <2>1. \A n \in 1..N : f[n - 1] \in S
    BY <1>1
  <2>2. f[0] = a /\ \A n \in 1..N : f[n] = AfterCall(f[n - 1], calls[n])
    BY <1>3, <1>5, <2>1 DEF Iterates
  <2> QED BY <1>1, <2>2
<1>7. Obeys(Book(calls))
  BY <1>4, <1>6
<1>8. Book(calls)[0] = a /\ \A n \in 1..N : Book(calls)[n] = AfterCall(Book(calls)[n - 1], calls[n])
  BY <1>1, <1>7
<1>9. Iterates(Book(calls), N, S, a, F)
  BY <1>3, <1>8 DEF Iterates
<1>10. \A n \in 0..N : Book(calls)[n] \in S
  BY <1>1, <1>2, <1>9, Unrolled
<1> QED BY <1>8, <1>10 DEF N, S, a

LEMMA BatchIsBook ==
  \A calls \in Seq(Call) : AfterBatch(calls) = Book(calls)[Len(calls)]
BY DEF AfterBatch, Book

-----------------------------------------------------------------------------
(***************************************************************************)
(* The invariant.  Its parts hold together: the type of turnsRun needs the *)
(* count of answers, that of strikes the bound of a loop, and so on.       *)
(***************************************************************************)
Request == [handle : Handle \cup {None}, messages : Seq(Item),
            active : SUBSET Tools, forced : BOOLEAN]
Last == history[Len(history)]

\* The request is what the top of the loop made of the state, and an answer
\* either calls tools or talks.
RequestInv ==
  /\ pc \in {"request", "assistant", "reply"} => request \in Request
  /\ pc = "request" => request.handle = handle /\ request.messages = Pending
  /\ pc \in {"assistant", "reply"} =>
       \/ reply.text \in Prose /\ reply.calls = <<>> /\ Last.kind = "text"
       \/ reply.text = "none" /\ reply.calls # <<>> /\ Last.kind = "calls"

\* The turns are the answers, and the one that is asked for.
TurnInv ==
  /\ pc \in Stages \ {"idle", "request", "done"} => turnsRun = Cardinality(Answered)
  /\ pc = "request" => turnsRun = Cardinality(Answered) + 1

\* The strikes are answers without a call since the last call.
StrikeInv ==
  /\ pc \in {"assistant", "reply"} /\ reply.calls = <<>> => strikes < Cardinality(Talk)
  /\ pc = "reply" /\ reply.calls # <<>> => strikes = 0
  /\ pc \notin {"assistant", "reply", "done"} => strikes <= Cardinality(Talk)
  /\ pc # "done" => strikes < MaxStrikes /\ reason # "hallucinated_tool_loop"
  /\ LoopEarned

Core == TypeOK /\ RequestInv /\ TurnInv /\ StrikeInv /\ pc # "idle" /\ history # <<>>
-----------------------------------------------------------------------------
LEMMA SeenType ==
  ASSUME TypeOK, NEW r \in Request
  PROVE  /\ ConvUsed(r.handle) \in Convs \cup {None}
         /\ Context(r.handle) \in Seq(Item) /\ Seen(r) \in Seq(Item)
<1>1. ConvUsed(r.handle) \in Convs \cup {None}
  BY DEF TypeOK, Request, Handle, ConvUsed
<1>2. ConvContent(r.handle) \in Seq(Item)
  BY <1>1, EmptySeq DEF TypeOK, ConvContent
<1>3. r.handle # None => r.handle \in Handle /\ r.handle.covers \in Seq(Item)
  BY DEF Request, Handle
<1>4. Context(r.handle) \in Seq(Item)
  BY <1>2, <1>3, ConcatProperties DEF Context
<1>5. r.messages \in Seq(Item)
  BY DEF Request
<1> QED BY <1>1, <1>4, <1>5, ConcatProperties DEF Seen

LEMMA PendingType == TypeOK => Pending \in Seq(Item)
<1> SUFFICES ASSUME TypeOK PROVE Pending \in Seq(Item)
  OBVIOUS
<1>1. /\ history \in Seq(Item) /\ Len(history) \in Nat /\ delivered \in 0..Len(history)
      /\ \A i \in delivered + 1..Len(history) : history[i] \in Item
  BY LenProperties DEF TypeOK
<1>2. SubSeq(history, delivered + 1, Len(history)) \in Seq(Item)
  BY <1>1, SubSeqProperties
<1> QED BY <1>1, <1>2 DEF Pending

LEMMA ItemType == \A k \in ItemKinds : TypeOK => NewItem(k) \in Item
BY DEF TypeOK, NewItem, Item

LEMMA AnsweredFinite ==
  ASSUME TypeOK
  PROVE  /\ IsFiniteSet(Answered) /\ Cardinality(Answered) \in Nat
         /\ IsFiniteSet(Talk) /\ Cardinality(Talk) \in Nat
<1>1. seeded + 1 \in Int /\ Len(history) \in Int
  BY LenProperties DEF TypeOK
<1>2. IsFiniteSet(seeded + 1..Len(history))
  BY <1>1, FS_Interval
<1>3. Answered \subseteq seeded + 1..Len(history) /\ Talk \subseteq Answered
  BY DEF Answered, Talk
<1>4. IsFiniteSet(Answered)
  BY <1>2, <1>3, FS_Subset
<1>5. IsFiniteSet(Talk)
  BY <1>3, <1>4, FS_Subset
<1> QED BY <1>4, <1>5, FS_CardinalityType

\* What is appended to the history and to the file stays in their types.
LEMMA Appended1 ==
  ASSUME TypeOK, NEW item \in Item
  PROVE  /\ Append(history, item) \in Seq(Item) /\ Append(history, item) # <<>>
         /\ Len(Append(history, item)) = Len(history) + 1
         /\ Append(history, item)[Len(history) + 1] = item
         /\ \A i \in 1..Len(history) : Append(history, item)[i] = history[i]
         /\ Append(rollout, ItemLine(item)) \in Seq(Line)
<1>1. history \in Seq(Item) /\ rollout \in Seq(Line) /\ ItemLine(item) \in Line
  BY DEF TypeOK, Line, ItemLine
<1> QED BY <1>1, AppendProperties

LEMMA StopAtTopType == Core /\ StopAtTop => TypeOK'
BY DEF Core, TypeOK, StopAtTop, Stop, guards, Stages, Reasons

LEMMA SendRequestType == Core /\ SendRequest => TypeOK' /\ request' \in Request
<1> SUFFICES ASSUME Core, SendRequest PROVE TypeOK' /\ request' \in Request
  OBVIOUS
<1>1. Pending \in Seq(Item)
  BY PendingType DEF Core
<1>2. request' \in Request
  BY <1>1 DEF Core, TypeOK, SendRequest, Request, Forced
<1>3. turnsRun' \in 0..MaxTurns /\ force' \in BOOLEAN /\ suppressed' \subseteq Tools
  BY LimitsAssumption DEF Core, TypeOK, SendRequest, Forced
<1> QED BY <1>2, <1>3 DEF Core, TypeOK, SendRequest, Request, Stages

LEMMA FailType == Core /\ (ResumeFails \/ GenerateFails \/ StreamCut) => TypeOK'
<1> SUFFICES ASSUME Core, ResumeFails \/ GenerateFails \/ StreamCut PROVE TypeOK'
  OBVIOUS
<1>1. CASE ResumeFails
  <2>1. request \in Request /\ request.handle \in Handle
    BY <1>1 DEF Core, RequestInv, ResumeFails, Request
  <2>2. handle' \in Handle \cup {None}
    BY <1>1, <2>1, EmptySeq DEF ResumeFails, ConversationFallback, Handle
  <2>3. delivered' \in 0..Len(history)
    BY <1>1, LenProperties DEF Core, TypeOK, ResumeFails
  <2>4. turnsRun' \in 0..MaxTurns
    <3>1. turnsRun \in 0..MaxTurns /\ TypeOK /\ MaxTurns \in Nat
      BY LimitsAssumption DEF Core, TypeOK
    <3>2. turnsRun' = turnsRun - 1 /\ pc = "request"
      BY <1>1 DEF ResumeFails, TakenBack
    <3>3. turnsRun = Cardinality(Answered) + 1 /\ Cardinality(Answered) \in Nat
      BY <3>1, <3>2, AnsweredFinite DEF Core, TurnInv
    <3> QED BY <3>1, <3>2, <3>3
  <2>5. reason' \in Reasons
    BY <1>1 DEF Core, TypeOK, ResumeFails, Reasons
  <2> QED BY <1>1, <2>2, <2>3, <2>4, <2>5 DEF Core, TypeOK, ResumeFails, guards, Stages
<1>2. CASE GenerateFails \/ StreamCut
  BY <1>2 DEF Core, TypeOK, GenerateFails, StreamCut, Stop, guards, Stages, Reasons
<1> QED BY <1>1, <1>2

LEMMA AnswerType ==
  ASSUME Core, NEW answer \in Answers, Answer(answer)
  PROVE  TypeOK'
<1> DEFINE item == NewItem(IF answer.calls = <<>> THEN "text" ELSE "calls")
           seen == Append(Seen(request), item)
           new == NewHandle(request, seen)
<1>1. request \in Request /\ item \in Item
  BY ItemType DEF Core, RequestInv, Answer, ItemKinds
<1>2. seen \in Seq(Item)
  BY <1>1, SeenType, AppendProperties DEF Core
<1>3. new \in Handle
  BY <1>1, <1>2, SeenType DEF Core, NewHandle, Handle
<1>4. HandleLine(new) \in Line /\ rollout \in Seq(Line)
  BY <1>3 DEF HandleLine, Line, Core, TypeOK
<1>5. rollout' \in Seq(Line)
  BY <1>4, AppendProperties DEF Answer
<1>6. convs' \in [Convs -> Seq(Item)]
  BY <1>2, <1>3 DEF Answer, Core, TypeOK, Handle
<1>7. answer \in Reply
  <2>1. CASE answer \in [text : Prose, calls : {<<>>}]
    BY <2>1, EmptySeq DEF Reply
  <2>2. CASE answer \notin [text : Prose, calls : {<<>>}]
    <3> DEFINE Asked == [tool : Tools, status : Statuses \cup {"asked"}]
    <3>1. PICK n \in 1..MaxCalls :
            answer \in [text : {"none"}, calls : [1..n -> [tool : Tools, status : {"asked"}]]]
      BY <2>2 DEF Answers
    <3>2. answer.calls \in [1..n -> Asked] /\ n \in Nat /\ answer.text = "none"
      BY <3>1, LimitsAssumption
    <3>3. answer.calls \in Seq(Asked)
      <4> HIDE DEF Asked
      <4> QED BY <3>2
    <3>4. answer = [text |-> answer.text, calls |-> answer.calls]
      BY <3>1
    <3> HIDE DEF Asked
    <3>5. [text |-> answer.text, calls |-> answer.calls] \in Reply
      BY <3>2, <3>3 DEF Reply, Asked
    <3> QED BY <3>4, <3>5
  <2> QED BY <2>1, <2>2
<1>8. history' = Append(history, item) /\ handle' = new
  BY DEF Answer
<1>9. history' \in Seq(Item) /\ Len(history') = Len(history) + 1
  BY <1>1, <1>8, Appended1 DEF Core
<1> HIDE DEF item, seen, new
<1>10. seeded' \in 0..Len(history') /\ delivered' \in 0..Len(history')
  BY <1>9, LenProperties DEF Core, TypeOK, Answer
<1>11. made' \in Nat
  BY DEF Core, TypeOK, Answer
<1> QED
  BY <1>3, <1>5, <1>6, <1>7, <1>8, <1>9, <1>10, <1>11 DEF Core, TypeOK, Answer, guards, Stages, Line

LEMMA ReplyType ==
  Core /\ (PersistAssistant \/ Nudge \/ EndTurn) => TypeOK'
<1> SUFFICES ASSUME Core, PersistAssistant \/ Nudge \/ EndTurn PROVE TypeOK'
  OBVIOUS
<1>1. Len(history) \in Nat \ {0} /\ DOMAIN history = 1..Len(history) /\ Last \in Item
  BY LenProperties, EmptySeq DEF Core, TypeOK, Last
<1>2. NoReply \in Reply
  BY EmptySeq DEF NoReply, Reply
<1>3. CASE PersistAssistant
  <2>1. rollout' \in Seq(Line)
    BY <1>1, <1>3, Appended1, AppendProperties DEF PersistAssistant, Core, TypeOK, Last, Line, ItemLine
  <2>2. strikes' \in 0..MaxStrikes
    BY <1>3, LimitsAssumption DEF PersistAssistant, StrikesAfter, Core, TypeOK
  <2> QED BY <1>1, <1>3, <2>1, <2>2 DEF PersistAssistant, Core, TypeOK, guards, Stages, Line
<1>4. CASE Nudge
  <2>0. \/ UNCHANGED <<history, made, force>> /\ pc' = "done" /\ reason' = "hallucinated_tool_loop"
        \/ /\ history' = Append(history, NewItem("nudge")) /\ made' = made + 1
           /\ force' = TRUE /\ pc' = "loop" /\ reason' = reason
    BY <1>4 DEF Nudge, Stop
  <2>1. history' \in Seq(Item) /\ Len(history') >= Len(history) /\ Len(history') \in Nat
    <3>1. history \in Seq(Item) /\ TypeOK
      BY DEF Core, TypeOK
    <3>2. NewItem("nudge") \in Item
      BY <3>1, ItemType DEF ItemKinds
    <3>3. Append(history, NewItem("nudge")) \in Seq(Item)
          /\ Len(Append(history, NewItem("nudge"))) = Len(history) + 1
      BY <3>1, <3>2, AppendProperties
    <3> QED BY <1>1, <2>0, <3>1, <3>3
  <2>2. strikes' \in 0..MaxStrikes
    BY <1>4, LimitsAssumption DEF Nudge, Core, TypeOK, StrikeInv
  <2>3. seeded' \in 0..Len(history') /\ delivered' \in 0..Len(history')
    BY <1>1, <1>4, <2>1 DEF Nudge, Core, TypeOK
  <2>4. made' \in Nat /\ pc' \in Stages /\ reason' \in Reasons /\ force' \in BOOLEAN
    <3>1. made \in Nat /\ reason \in Reasons /\ force \in BOOLEAN
      BY DEF Core, TypeOK
    <3>2. {"done", "loop"} \subseteq Stages /\ "hallucinated_tool_loop" \in Reasons
      BY DEF Stages, Reasons
    <3>3. CASE UNCHANGED <<history, made, force>> /\ pc' = "done" /\ reason' = "hallucinated_tool_loop"
      BY <3>1, <3>2, <3>3
    <3>4. CASE made' = made + 1 /\ force' = TRUE /\ pc' = "loop" /\ reason' = reason
      BY <3>1, <3>2, <3>4
    <3> QED BY <2>0, <3>3, <3>4
  <2>5. request' = None /\ reply' \in Reply
    BY <1>2, <1>4 DEF Nudge
  <2> QED BY <1>4, <2>1, <2>2, <2>3, <2>4, <2>5 DEF Nudge, Core, TypeOK, guards
<1>5. CASE EndTurn
  BY <1>2, <1>5 DEF EndTurn, Core, TypeOK, guards, Stop, Stages, Reasons
<1> QED BY <1>3, <1>4, <1>5

LEMMA BatchType ==
  ASSUME TypeOK, NEW n \in 1..MaxCalls, NEW calls \in [1..n -> Call]
  PROVE  /\ calls \in Seq(Call) /\ Len(calls) = n /\ n \in Nat /\ DOMAIN calls = 1..n
         /\ AfterBatch(calls) \in Books
<1>1. n \in Nat
  BY LimitsAssumption
<1>2. calls \in Seq(Call) /\ Len(calls) = n
  BY <1>1
<1>3. badArgs \in BadArgs /\ suppressed \subseteq Tools
  BY DEF TypeOK, BadArgs
<1>4. Book(calls)[Len(calls)] \in Books
  BY <1>1, <1>2, <1>3, BookExists
<1> QED BY <1>1, <1>2, <1>4, BatchIsBook

LEMMA RunBatchType ==
  ASSUME Core, NEW n \in 1..MaxCalls, NEW fb \in Feedbacks, NEW calls \in [1..n -> Call],
         RunBatch(calls, fb)
  PROVE  TypeOK'
<1> DEFINE booked == [i \in DOMAIN calls |->
                        [tool |-> calls[i].tool, status |-> calls[i].status, turn |-> turnsRun]]
<1>1. calls \in Seq(Call) /\ n \in Nat /\ DOMAIN calls = 1..n /\ AfterBatch(calls) \in Books
  BY BatchType DEF Core
<1>2. booked \in [1..n -> Logged]
  BY <1>1 DEF Logged, Call, Core, TypeOK
<1>3. booked \in Seq(Logged)
  <2> HIDE DEF booked
  <2> QED BY <1>1, <1>2
<1>4. log' \in Seq(Logged)
  <2>1. log' = log \o booked
    BY DEF RunBatch
  <2> HIDE DEF booked
  <2> QED BY <1>3, <2>1, ConcatProperties DEF Core, TypeOK
<1>5. badArgs' \in BadArgs /\ suppressed' \subseteq Tools
  BY <1>1 DEF RunBatch, Books
<1>6. reply' \in Reply
  <2>1. Call \subseteq [tool : Tools, status : Statuses \cup {"asked"}]
    BY DEF Call
  <2>2. calls \in Seq([tool : Tools, status : Statuses \cup {"asked"}])
    BY <1>1, <2>1, SeqMonotonic
  <2> QED BY <2>2 DEF RunBatch, Core, TypeOK, Reply
<1>7. request' = None /\ pc' = "results" /\ feedback' \in Feedbacks
  BY DEF RunBatch
<1> QED BY <1>4, <1>5, <1>6, <1>7 DEF RunBatch, Core, TypeOK, Stages, BadArgs

LEMMA OneMoreType ==
  ASSUME Core, NEW kind \in ItemKinds, Append1(NewItem(kind))
  PROVE  /\ history' \in Seq(Item) /\ Len(history') = Len(history) + 1 /\ history' # <<>>
         /\ history'[Len(history) + 1].kind = kind
         /\ \A i \in 1..Len(history) : history'[i] = history[i]
         /\ rollout' \in Seq(Line) /\ made' \in Nat
<1>1. NewItem(kind) \in Item /\ NewItem(kind).kind = kind
  BY ItemType DEF Core, NewItem
<1> DEFINE item == NewItem(kind)
<1>2. TypeOK /\ made \in Nat
  BY DEF Core, TypeOK
<1>3. history' = Append(history, item) /\ rollout' = Append(rollout, ItemLine(item)) /\ made' = made + 1
  BY DEF Append1
<1> HIDE DEF item
<1>4. /\ Append(history, item) \in Seq(Item) /\ Append(history, item) # <<>>
      /\ Len(Append(history, item)) = Len(history) + 1
      /\ Append(history, item)[Len(history) + 1] = item
      /\ \A i \in 1..Len(history) : Append(history, item)[i] = history[i]
      /\ Append(rollout, ItemLine(item)) \in Seq(Line)
  BY <1>1, <1>2, Appended1 DEF item
<1>5. item.kind = kind
  BY <1>1 DEF item
<1> QED BY <1>2, <1>3, <1>4, <1>5

LEMMA AppendType ==
  ASSUME Core, AppendResults \/ AppendFeedback
  PROVE  TypeOK'
<1>1. \E kind \in ItemKinds : Append1(NewItem(kind))
  BY DEF AppendResults, AppendFeedback, ItemKinds
<1>2. /\ history' \in Seq(Item) /\ Len(history') = Len(history) + 1 /\ Len(history) \in Nat
      /\ rollout' \in Seq(Line) /\ made' \in Nat
  BY <1>1, OneMoreType, LenProperties DEF Core, TypeOK
<1>3. UNCHANGED <<seeded, delivered>> /\ seeded' \in 0..Len(history') /\ delivered' \in 0..Len(history')
  <2>1. UNCHANGED <<seeded, delivered>>
    BY DEF AppendResults, AppendFeedback
  <2>2. seeded \in 0..Len(history) /\ delivered \in 0..Len(history)
    BY DEF Core, TypeOK
  <2> QED BY <1>2, <2>1, <2>2
<1>4. pc' \in Stages /\ reason' \in Reasons /\ feedback' \in Feedbacks
  BY ModesAssumption DEF AppendResults, AppendFeedback, Core, TypeOK, Stop, Stages, Reasons
<1>5. UNCHANGED <<handle, turnsRun, strikes, force, guards, request, reply,
                  aborted, provider, conv, convs>>
  BY DEF AppendResults, AppendFeedback
<1> QED BY <1>2, <1>3, <1>4, <1>5 DEF Core, TypeOK, guards, Line

\* What AppendRecovery adds: as many items as there are reads.
Reads == AfterPatches(reply.calls).reads
ReadItems == [i \in 1..Reads |-> [kind |-> "recovery", n |-> made + i]]
ReadLines == [i \in 1..Reads |-> ItemLine(ReadItems[i])]

LEMMA ReadsType ==
  ASSUME TypeOK, reply.calls \in Seq(Call)
  PROVE  /\ AfterPatches(reply.calls) \in Tally /\ Reads \in Nat
         /\ ReadItems \in Seq(Item) /\ Len(ReadItems) = Reads
         /\ ReadLines \in Seq(Line) /\ Len(ReadLines) = Reads
         /\ \A i \in 1..Reads : ReadItems[i].kind = "recovery" /\ ReadLines[i] = ItemLine(ReadItems[i])
<1>1. AfterPatches(reply.calls) \in Tally
  BY PatchesType DEF TypeOK
<1>2. Reads \in Nat
  BY <1>1 DEF Reads, Tally
<1>3. ReadItems \in [1..Reads -> Item] /\ \A i \in 1..Reads : ReadItems[i].kind = "recovery"
  BY <1>2 DEF ReadItems, Item, ItemKinds, TypeOK
<1>4. ReadLines \in [1..Reads -> Line] /\ \A i \in 1..Reads : ReadLines[i] = ItemLine(ReadItems[i])
  BY <1>3 DEF ReadLines, ItemLine, Line
<1> QED BY <1>1, <1>2, <1>3, <1>4

\* The results of a batch are those of calls that were made.
CallsInv == pc \in {"results", "feedback", "recovery", "advice"} => reply.calls \in Seq(Call)

LEMMA RecoveryType ==
  ASSUME Core, CallsInv, AppendRecovery
  PROVE  /\ TypeOK'
         /\ history' = history \o ReadItems /\ rollout' = rollout \o ReadLines
<1>1. /\ AfterPatches(reply.calls) \in Tally /\ Reads \in Nat
      /\ ReadItems \in Seq(Item) /\ Len(ReadItems) = Reads /\ ReadLines \in Seq(Line)
  BY ReadsType DEF Core, CallsInv, AppendRecovery
<1>2. history' = history \o ReadItems /\ rollout' = rollout \o ReadLines /\ made' = made + Reads
  BY DEF AppendRecovery, ReadItems, ReadLines, Reads
<1>3. history \in Seq(Item) /\ rollout \in Seq(Line)
  BY DEF Core, TypeOK, Line
<1>4. history' \in Seq(Item) /\ rollout' \in Seq(Line) /\ Len(history') = Len(history) + Reads
  BY <1>1, <1>2, <1>3, ConcatProperties
<1>5. made' \in Nat /\ patchFails' \in Nat /\ pc' \in Stages
  <2>1. patchFails' = AfterPatches(reply.calls).fails /\ pc' = "advice"
    BY DEF AppendRecovery
  <2>2. AfterPatches(reply.calls).fails \in Nat
    BY <1>1 DEF Tally
  <2>3. made \in Nat
    BY DEF Core, TypeOK
  <2> QED BY <1>1, <1>2, <2>1, <2>2, <2>3 DEF Stages
<1>6. UNCHANGED <<seeded, delivered, handle, turnsRun, strikes, force, suppressed, badArgs,
                  searches, log, request, reply, feedback, reason, aborted, provider, conv, convs>>
  BY DEF AppendRecovery
<1>7. seeded' \in 0..Len(history') /\ delivered' \in 0..Len(history')
  <2>1. seeded \in 0..Len(history) /\ delivered \in 0..Len(history) /\ Len(history) \in Nat
    BY LenProperties DEF Core, TypeOK
  <2> QED BY <1>1, <1>4, <1>6, <2>1
<1> QED BY <1>2, <1>4, <1>5, <1>6, <1>7 DEF Core, TypeOK, Line

LEMMA AdviceType ==
  ASSUME Core, CallsInv, AppendAdvice
  PROVE  TypeOK'
<1>1. Searched(reply.calls) \in Nat
  <2>1. DOMAIN reply.calls = 1..Len(reply.calls) /\ Len(reply.calls) \in Nat
    BY LenProperties DEF CallsInv, AppendAdvice
  <2>2. IsFiniteSet(1..Len(reply.calls))
    BY <2>1, FS_Interval
  <2> QED BY <2>1, <2>2, FS_Subset, FS_CardinalityType DEF Searched
<1>2. searches' \in [count : Nat, advised : BOOLEAN]
  BY <1>1 DEF AppendAdvice, Core, TypeOK
<1>3. UNCHANGED <<history, rollout, made>> \/ Append1(NewItem("advice"))
  BY DEF AppendAdvice
<1>4. /\ history' \in Seq(Item) /\ rollout' \in Seq(Line) /\ made' \in Nat
      /\ Len(history') >= Len(history) /\ Len(history) \in Nat /\ Len(history') \in Nat
  BY <1>3, OneMoreType, LenProperties DEF Core, TypeOK, Line, ItemKinds
<1>5. seeded' \in 0..Len(history') /\ delivered' \in 0..Len(history')
  BY <1>4 DEF AppendAdvice, Core, TypeOK
<1>6. reply' \in Reply /\ pc' \in Stages
  BY EmptySeq DEF AppendAdvice, NoReply, Reply, Stages
<1> QED BY <1>2, <1>4, <1>5, <1>6 DEF AppendAdvice, Core, TypeOK, Line

LEMMA TypeStep ==
  ASSUME Core, CallsInv, [Next]_vars
  PROVE  TypeOK'
<1>1. CASE Abort
  BY <1>1 DEF Abort, Core, TypeOK, guards
<1>2. CASE UNCHANGED vars
  BY <1>2 DEF vars, runVars, Core, TypeOK
<1> QED
  BY <1>1, <1>2, StopAtTopType, SendRequestType, FailType, AnswerType, ReplyType, RunBatchType,
     AppendType, RecoveryType, AdviceType DEF Next, RunnerStep, Done

-----------------------------------------------------------------------------
(***************************************************************************)
(* What a step does to the history, and with it to the answers.            *)
(***************************************************************************)
\* Items that are no answers: the counts stay.
LEMMA Quiet ==
  ASSUME history \in Seq(Item), history' \in Seq(Item), UNCHANGED seeded,
         seeded \in 0..Len(history), Len(history') >= Len(history),
         \A i \in 1..Len(history) : history'[i] = history[i],
         \A i \in Len(history) + 1..Len(history') : history'[i].kind \notin {"calls", "text"}
  PROVE  Answered' = Answered /\ Talk' = Talk
<1>1. Len(history) \in Nat /\ Len(history') \in Nat /\ seeded \in Nat
  BY LenProperties
<1>2. \A i \in seeded + 1..Len(history) : i \in 1..Len(history) /\ i \in seeded + 1..Len(history')
  BY <1>1
<1>3. \A i \in seeded + 1..Len(history') :
        \/ i \in seeded + 1..Len(history) /\ i \in 1..Len(history)
        \/ i \in Len(history) + 1..Len(history')
  BY <1>1
<1>4. Answered' = Answered
  BY <1>2, <1>3 DEF Answered
<1>5. \A i \in Answered : history'[i] = history[i]
  BY <1>2 DEF Answered
<1> QED BY <1>4, <1>5 DEF Talk

\* An answer counts once, and ends a row of talk if it calls tools.
LEMMA AnswerCounts ==
  ASSUME TypeOK, NEW item \in Item, item.kind \in {"calls", "text"},
         history' = Append(history, item), UNCHANGED seeded
  PROVE  /\ Cardinality(Answered') = Cardinality(Answered) + 1
         /\ item.kind = "text" => Cardinality(Talk') = Cardinality(Talk) + 1
<1> DEFINE L == Len(history)
<1>1. /\ L \in Nat /\ Len(history') = L + 1 /\ history'[L + 1] = item
      /\ \A i \in 1..L : history'[i] = history[i]
      /\ seeded \in Nat /\ seeded <= L
  BY Appended1, LenProperties DEF TypeOK
<1> HIDE DEF L
<1>2. Answered = {i \in seeded + 1..L : history[i].kind \in {"calls", "text"}}
  BY DEF Answered, L
<1>3. Answered' = {i \in seeded + 1..L + 1 : history'[i].kind \in {"calls", "text"}}
  BY <1>1 DEF Answered
<1>4. \A i \in seeded + 1..L : i \in 1..L /\ i \in seeded + 1..L + 1
  BY <1>1
<1>5. \A i \in seeded + 1..L + 1 : i = L + 1 \/ i \in seeded + 1..L
  BY <1>1
<1>6. L + 1 \in seeded + 1..L + 1 /\ L + 1 \notin seeded + 1..L
  BY <1>1
<1>7. Answered' = Answered \cup {L + 1} /\ L + 1 \notin Answered
  BY <1>1, <1>2, <1>3, <1>4, <1>5, <1>6
<1>8. IsFiniteSet(Answered) /\ IsFiniteSet(Talk)
  BY AnsweredFinite
<1>9. Cardinality(Answered') = Cardinality(Answered) + 1
  BY <1>7, <1>8, FS_AddElement
<1>10. ASSUME item.kind = "text"
       PROVE  Cardinality(Talk') = Cardinality(Talk) + 1
  <2>1. \A i \in Answered : history'[i] = history[i] /\ i <= L + 1 /\ ~(L + 1 <= i)
    BY <1>1, <1>2, <1>4
  <2>2. Talk' = Talk \cup {L + 1}
    BY <1>1, <1>7, <1>10, <2>1 DEF Talk
  <2>3. L + 1 \notin Talk
    BY <1>7 DEF Talk
  <2> QED BY <1>8, <2>2, <2>3, FS_AddElement
<1> QED BY <1>9, <1>10

\* A step that is no answer adds items of other kinds, or none.
LEMMA AppendQuiet ==
  ASSUME TypeOK, NEW kind \in ItemKinds \ {"calls", "text"},
         history' = Append(history, NewItem(kind)), UNCHANGED seeded
  PROVE  /\ Answered' = Answered /\ Talk' = Talk /\ history' # <<>>
         /\ Last'.kind = kind
<1>1. NewItem(kind) \in Item /\ NewItem(kind).kind = kind
  BY ItemType DEF NewItem
<1>2. /\ history \in Seq(Item) /\ Len(history) \in Nat /\ seeded \in 0..Len(history)
      /\ history' \in Seq(Item) /\ Len(history') = Len(history) + 1 /\ history' # <<>>
      /\ history'[Len(history) + 1] = NewItem(kind)
      /\ \A i \in 1..Len(history) : history'[i] = history[i]
  BY <1>1, Appended1, LenProperties DEF TypeOK
<1>3. \A i \in Len(history) + 1..Len(history') : i = Len(history) + 1
  BY <1>2
<1>4. Answered' = Answered /\ Talk' = Talk
  BY <1>1, <1>2, <1>3, Quiet
<1> QED BY <1>1, <1>2, <1>4 DEF Last

LEMMA Joined ==
  ASSUME NEW S, NEW s \in Seq(S), NEW t \in Seq(S)
  PROVE  /\ s \o t \in Seq(S) /\ Len(s \o t) = Len(s) + Len(t)
         /\ \A i \in 1..Len(s) : (s \o t)[i] = s[i]
         /\ \A i \in Len(s) + 1..Len(s) + Len(t) : (s \o t)[i] = t[i - Len(s)]
<1>1. Len(s) \in Nat /\ Len(t) \in Nat
  BY LenProperties
<1>2. /\ s \o t \in Seq(S) /\ Len(s \o t) = Len(s) + Len(t)
      /\ \A i \in 1..Len(s) + Len(t) : (s \o t)[i] = IF i <= Len(s) THEN s[i] ELSE t[i - Len(s)]
  BY ConcatProperties
<1>3. \A i \in 1..Len(s) : i \in 1..Len(s) + Len(t) /\ i <= Len(s)
  BY <1>1
<1>4. \A i \in Len(s) + 1..Len(s) + Len(t) : i \in 1..Len(s) + Len(t) /\ ~(i <= Len(s))
  BY <1>1
<1> QED BY <1>2, <1>3, <1>4

LEMMA RecoveryQuiet ==
  ASSUME Core, CallsInv, AppendRecovery
  PROVE  /\ Answered' = Answered /\ Talk' = Talk /\ history' # <<>>
         /\ Len(history) \in Nat /\ Reads \in Nat /\ Len(history') = Len(history) + Reads
         /\ \A i \in 1..Len(history) : history'[i] = history[i]
         /\ \A i \in Len(history) + 1..Len(history') : history'[i].kind = "recovery"
<1>1. /\ ReadItems \in Seq(Item) /\ Len(ReadItems) = Reads /\ Reads \in Nat
      /\ \A i \in 1..Reads : ReadItems[i].kind = "recovery"
  BY ReadsType DEF Core, CallsInv, AppendRecovery
<1>2. history' = history \o ReadItems
  BY RecoveryType
<1>3. history \in Seq(Item) /\ Len(history) \in Nat /\ seeded \in 0..Len(history) /\ history # <<>>
  BY LenProperties DEF Core, TypeOK
<1>4. /\ history' \in Seq(Item) /\ Len(history') = Len(history) + Reads
      /\ \A i \in 1..Len(history) : history'[i] = history[i]
      /\ \A i \in Len(history) + 1..Len(history') : history'[i] = ReadItems[i - Len(history)]
  <2> DEFINE joined == history \o ReadItems
  <2>1. /\ joined \in Seq(Item) /\ Len(joined) = Len(history) + Len(ReadItems)
        /\ \A i \in 1..Len(history) : joined[i] = history[i]
        /\ \A i \in Len(history) + 1..Len(history) + Len(ReadItems) :
             joined[i] = ReadItems[i - Len(history)]
    BY <1>1, <1>3, Joined
  <2>2. history' = joined
    BY <1>2
  <2> HIDE DEF joined
  <2> QED BY <1>1, <2>1, <2>2
<1>5. \A i \in Len(history) + 1..Len(history') : i - Len(history) \in 1..Reads
  BY <1>1, <1>3, <1>4
<1>6. \A i \in Len(history) + 1..Len(history') : history'[i].kind = "recovery"
  BY <1>1, <1>4, <1>5
<1>7. UNCHANGED seeded
  BY DEF AppendRecovery
<1>8. Len(history') >= Len(history)
  BY <1>1, <1>3, <1>4
<1>9. Answered' = Answered /\ Talk' = Talk
  BY <1>3, <1>4, <1>6, <1>7, <1>8, Quiet
<1>10. history' # <<>>
  BY <1>1, <1>3, <1>4, LenProperties, EmptySeq
<1> QED BY <1>1, <1>3, <1>4, <1>6, <1>9, <1>10

(***************************************************************************)
(* The counts of a run follow its answers.                                 *)
(***************************************************************************)
Counted == RequestInv /\ TurnInv /\ StrikeInv /\ pc # "idle" /\ history # <<>>

LEMMA SameAnswered ==
  UNCHANGED <<history, seeded>> => Answered' = Answered /\ Talk' = Talk /\ Last' = Last
BY DEF Answered, Talk, Last

LEMMA AskCounted ==
  Core /\ (StopAtTop \/ SendRequest \/ ResumeFails \/ GenerateFails \/ StreamCut) => Counted'
<1> SUFFICES ASSUME Core,
                    StopAtTop \/ SendRequest \/ ResumeFails \/ GenerateFails \/ StreamCut
             PROVE  Counted'
  OBVIOUS
<1>1. /\ Answered' = Answered /\ Talk' = Talk /\ Last' = Last
      /\ UNCHANGED <<history, seeded, strikes>>
  BY SameAnswered DEF StopAtTop, SendRequest, ResumeFails, GenerateFails, StreamCut
<1>2. turnsRun \in Nat /\ Cardinality(Answered) \in Nat /\ strikes \in Nat
  BY AnsweredFinite, LimitsAssumption DEF Core, TypeOK
<1>3. CASE StopAtTop
  BY <1>1, <1>3
  DEF Core, Counted, StopAtTop, Stop, RequestInv, TurnInv, StrikeInv, LoopEarned, Stages
<1>4. CASE SendRequest
  <2>1. request'.handle = handle' /\ request'.messages = Pending'
    BY <1>1, <1>4 DEF SendRequest, Pending
  <2>2. request' \in Request
    BY <1>4, SendRequestType
  <2> QED
    BY <1>1, <1>2, <1>4, <2>1, <2>2
    DEF Core, Counted, SendRequest, RequestInv, TurnInv, StrikeInv, LoopEarned, Stages
<1>5. CASE ResumeFails
  <2>1. turnsRun' = Cardinality(Answered)
    BY <1>2, <1>5 DEF Core, TurnInv, ResumeFails, TakenBack
  <2>2. reason' # "hallucinated_tool_loop" /\ pc' = "loop"
    BY <1>5 DEF Core, StrikeInv, ResumeFails
  <2> QED
    BY <1>1, <1>5, <2>1, <2>2
    DEF Core, Counted, ResumeFails, RequestInv, TurnInv, StrikeInv, LoopEarned, Stages
<1>6. CASE GenerateFails \/ StreamCut
  BY <1>1, <1>6
  DEF Core, Counted, GenerateFails, StreamCut, Stop, RequestInv, TurnInv, StrikeInv, LoopEarned, Stages
<1> QED BY <1>3, <1>4, <1>5, <1>6

LEMMA AnswerCounted ==
  ASSUME Core, NEW answer \in Answers, Answer(answer)
  PROVE  Counted'
<1> DEFINE kind == IF answer.calls = <<>> THEN "text" ELSE "calls"
           item == NewItem(kind)
<1>1. /\ history' = Append(history, item) /\ pc' = "assistant" /\ reply' = answer
      /\ UNCHANGED <<seeded, turnsRun, strikes, request, reason>>
  BY DEF Answer
<1>2. item \in Item /\ item.kind = kind /\ TypeOK
  BY ItemType DEF Core, NewItem, ItemKinds
<1>3. /\ Cardinality(Answered') = Cardinality(Answered) + 1
      /\ kind = "text" => Cardinality(Talk') = Cardinality(Talk) + 1
  BY <1>1, <1>2, AnswerCounts
<1>4. /\ turnsRun = Cardinality(Answered) + 1 /\ request \in Request
      /\ strikes \in Nat /\ strikes <= Cardinality(Talk) /\ Cardinality(Talk) \in Nat
      /\ strikes < MaxStrikes /\ reason # "hallucinated_tool_loop"
  BY AnsweredFinite DEF Core, Answer, TurnInv, RequestInv, StrikeInv, TypeOK
<1>5. history' # <<>> /\ Last' = item
  <2>1. /\ Append(history, item) # <<>> /\ Len(Append(history, item)) = Len(history) + 1
        /\ Append(history, item)[Len(history) + 1] = item
    BY <1>2, Appended1
  <2> HIDE DEF item
  <2> QED BY <1>1, <2>1 DEF Last
<1>6. \/ answer.text \in Prose /\ answer.calls = <<>>
      \/ answer.text = "none" /\ answer.calls # <<>>
  <2>1. CASE answer \in [text : Prose, calls : {<<>>}]
    BY <2>1
  <2>2. CASE answer \notin [text : Prose, calls : {<<>>}]
    <3>1. PICK n \in 1..MaxCalls :
            answer \in [text : {"none"}, calls : [1..n -> [tool : Tools, status : {"asked"}]]]
      BY <2>2 DEF Answers
    <3>2. n \in Nat /\ n >= 1 /\ DOMAIN answer.calls = 1..n /\ answer.text = "none"
      BY <3>1, LimitsAssumption
    <3>3. 1 \in DOMAIN answer.calls /\ DOMAIN <<>> = {}
      BY <3>2
    <3> QED BY <3>2, <3>3
  <2> QED BY <2>1, <2>2
<1> HIDE DEF item
<1>7. RequestInv'
  BY <1>1, <1>2, <1>4, <1>5, <1>6 DEF RequestInv
<1>8. TurnInv'
  BY <1>1, <1>3, <1>4 DEF TurnInv, Stages
<1>9. StrikeInv'
  BY <1>1, <1>3, <1>4 DEF StrikeInv, LoopEarned
<1> QED BY <1>1, <1>5, <1>7, <1>8, <1>9 DEF Counted

LEMMA ReplyCounted ==
  Core /\ (PersistAssistant \/ Nudge \/ EndTurn) => Counted'
<1> SUFFICES ASSUME Core, PersistAssistant \/ Nudge \/ EndTurn PROVE Counted'
  OBVIOUS
<1>1. /\ Cardinality(Talk) \in Nat /\ strikes \in Nat
      /\ reply.calls = <<>> => strikes < Cardinality(Talk)
      /\ turnsRun = Cardinality(Answered) /\ strikes < MaxStrikes
      /\ reason # "hallucinated_tool_loop" /\ request \in Request
  <2>1. pc \in {"assistant", "reply"}
    BY DEF PersistAssistant, Nudge, EndTurn
  <2>2. Cardinality(Talk) \in Nat /\ strikes \in Nat
    BY AnsweredFinite DEF Core, TypeOK
  <2>3. /\ reply.calls = <<>> => strikes < Cardinality(Talk)
        /\ strikes < MaxStrikes /\ reason # "hallucinated_tool_loop"
    BY <2>1 DEF Core, StrikeInv
  <2>4. turnsRun = Cardinality(Answered) /\ request \in Request
    BY <2>1 DEF Core, TurnInv, RequestInv, Stages
  <2> QED BY <2>2, <2>3, <2>4
<1>2. CASE PersistAssistant
  <2>1. Answered' = Answered /\ Talk' = Talk /\ Last' = Last
    BY <1>2, SameAnswered DEF PersistAssistant
  <2>2. strikes' = (IF reply.calls = <<>> THEN strikes ELSE 0) /\ MaxStrikes \in Nat /\ MaxStrikes > 0
    BY <1>2, LimitsAssumption DEF PersistAssistant, StrikesAfter
  <2>3. /\ pc = "assistant" /\ pc' = "reply"
        /\ UNCHANGED <<history, turnsRun, request, reply, reason>>
    BY <1>2 DEF PersistAssistant
  <2>4. RequestInv' /\ TurnInv'
    BY <1>1, <2>1, <2>3 DEF Core, RequestInv, TurnInv, Stages
  <2>5. StrikeInv'
    BY <1>1, <2>1, <2>2, <2>3 DEF Core, StrikeInv, LoopEarned
  <2> QED BY <2>3, <2>4, <2>5 DEF Core, Counted
<1>3. CASE Nudge
  <2>1. strikes' = strikes + 1 /\ reply.calls = <<>> /\ UNCHANGED <<seeded, turnsRun>>
    BY <1>3 DEF Nudge, Core, RequestInv, Prose
  <2>2. CASE Spent(strikes')
    <3>1. /\ pc' = "done" /\ UNCHANGED <<history, seeded>>
          /\ strikes' >= MaxStrikes
      BY <1>3, <2>2 DEF Nudge, Stop, Spent
    <3>2. Cardinality(Talk') >= MaxStrikes
      BY <1>1, <2>1, <3>1, SameAnswered, LimitsAssumption
    <3> QED
      BY <3>1, <3>2 DEF Core, Counted, RequestInv, TurnInv, StrikeInv, LoopEarned, Stages
  <2>3. CASE ~Spent(strikes')
    <3>1. /\ pc' = "loop" /\ history' = Append(history, NewItem("nudge")) /\ UNCHANGED reason
          /\ ~(strikes' >= MaxStrikes)
      BY <1>3, <2>3 DEF Nudge, Spent
    <3>2. Answered' = Answered /\ Talk' = Talk /\ history' # <<>>
      BY <2>1, <3>1, AppendQuiet DEF Core, ItemKinds
    <3>3. strikes' <= Cardinality(Talk') /\ strikes' < MaxStrikes
      BY <1>1, <2>1, <3>1, <3>2, LimitsAssumption
    <3> QED
      BY <1>1, <2>1, <3>1, <3>2, <3>3
      DEF Counted, RequestInv, TurnInv, StrikeInv, LoopEarned, Stages
  <2> QED BY <2>2, <2>3
<1>4. CASE EndTurn
  <2>1. pc' = "done" /\ reason' = "end_turn" /\ UNCHANGED history
    BY <1>4 DEF EndTurn, Stop
  <2> QED BY <2>1 DEF Core, Counted, RequestInv, TurnInv, StrikeInv, LoopEarned, Stages
<1> QED BY <1>2, <1>3, <1>4

\* Between the results and the top of the loop the counts do not move.
Working == {"results", "feedback", "recovery", "advice"}
LEMMA WorkCounted ==
  ASSUME Core, CallsInv,
         \/ \E n \in 1..MaxCalls, fb \in Feedbacks : \E calls \in [1..n -> Call] : RunBatch(calls, fb)
         \/ AppendResults \/ AppendFeedback \/ AppendRecovery \/ AppendAdvice
  PROVE  Counted'
<1>1. CASE \E n \in 1..MaxCalls, fb \in Feedbacks : \E calls \in [1..n -> Call] : RunBatch(calls, fb)
  <2>1. PICK n \in 1..MaxCalls, fb \in Feedbacks : \E calls \in [1..n -> Call] : RunBatch(calls, fb)
    BY <1>1
  <2>2. PICK calls \in [1..n -> Call] : RunBatch(calls, fb)
    BY <2>1
  <2>3. Len(calls) = n /\ n >= 1
    BY BatchType DEF Core
  <2>4. reply.calls # <<>>
    <3>1. Len(calls) = Len(reply.calls)
      BY <2>2 DEF RunBatch
    <3>2. Len(<<>>) = 0
      OBVIOUS
    <3> QED BY <2>3, <3>1, <3>2
  <2>5. strikes = 0 /\ turnsRun = Cardinality(Answered) /\ reason # "hallucinated_tool_loop"
    BY <2>2, <2>4 DEF RunBatch, Core, StrikeInv, TurnInv, Stages
  <2>6. pc' = "results" /\ UNCHANGED <<history, seeded, turnsRun, strikes, reason>>
    BY <2>2 DEF RunBatch
  <2>7. Cardinality(Talk') >= 0 /\ Answered' = Answered /\ MaxStrikes > 0
    BY <2>6, SameAnswered, AnsweredFinite, LimitsAssumption DEF Core
  <2> QED
    BY <2>5, <2>6, <2>7 DEF Core, Counted, RequestInv, TurnInv, StrikeInv, LoopEarned, Stages
<1>2. CASE AppendResults \/ AppendFeedback \/ AppendRecovery \/ AppendAdvice
  <2>1. /\ pc \in Working /\ pc' \in Working \cup {"loop", "done"}
        /\ UNCHANGED <<seeded, turnsRun, strikes>>
        /\ reason' \in {reason, "validation_success"}
    BY <1>2 DEF AppendResults, AppendFeedback, AppendRecovery, AppendAdvice, Working, Stop
  <2>2. Answered' = Answered /\ Talk' = Talk /\ history' # <<>>
    <3>1. CASE AppendRecovery
      BY <3>1, RecoveryQuiet
    <3>2. CASE AppendResults \/ AppendFeedback
      BY <2>1, <3>2, AppendQuiet DEF AppendResults, AppendFeedback, Append1, ItemKinds, Core
    <3>3. CASE AppendAdvice
      <4>1. UNCHANGED history \/ history' = Append(history, NewItem("advice"))
        BY <3>3 DEF AppendAdvice, Append1
      <4> QED BY <2>1, <4>1, AppendQuiet, SameAnswered DEF ItemKinds, Core
    <3> QED BY <1>2, <3>1, <3>2, <3>3
  <2>3. /\ turnsRun = Cardinality(Answered) /\ strikes <= Cardinality(Talk)
        /\ strikes < MaxStrikes /\ reason # "hallucinated_tool_loop"
    BY <2>1 DEF Working, Core, TurnInv, StrikeInv, Stages
  <2> QED
    BY <2>1, <2>2, <2>3 DEF Working, Counted, RequestInv, TurnInv, StrikeInv, LoopEarned, Stages
<1> QED BY <1>1, <1>2

LEMMA IdleCounted == Core /\ (Abort \/ UNCHANGED vars) => Counted'
<1> SUFFICES ASSUME Core, Abort \/ UNCHANGED vars PROVE Counted'
  OBVIOUS
<1>1. UNCHANGED <<history, seeded, handle, delivered, turnsRun, strikes, request, reply, pc, reason>>
  BY DEF Abort, vars, runVars
<1>2. Answered' = Answered /\ Talk' = Talk /\ Last' = Last /\ Pending' = Pending
  BY <1>1, SameAnswered DEF Pending
<1> QED BY <1>1, <1>2 DEF Core, Counted, RequestInv, TurnInv, StrikeInv, LoopEarned

LEMMA CallsStep ==
  ASSUME Core, CallsInv, [Next]_vars
  PROVE  CallsInv'
<1>1. CASE \E n \in 1..MaxCalls, fb \in Feedbacks : \E calls \in [1..n -> Call] : RunBatch(calls, fb)
  <2>1. PICK n \in 1..MaxCalls, fb \in Feedbacks : \E calls \in [1..n -> Call] : RunBatch(calls, fb)
    BY <1>1
  <2>2. PICK calls \in [1..n -> Call] : RunBatch(calls, fb)
    BY <2>1
  <2>3. calls \in Seq(Call)
    BY BatchType DEF Core
  <2>4. reply'.calls = calls
    BY <2>2 DEF RunBatch, Core, TypeOK, Reply
  <2> QED BY <2>3, <2>4 DEF CallsInv
<1>2. CASE ~\E n \in 1..MaxCalls, fb \in Feedbacks : \E calls \in [1..n -> Call] : RunBatch(calls, fb)
  <2>1. pc' \in Working => pc \in Working /\ UNCHANGED reply
    BY <1>2 DEF Working, Next, RunnerStep, Done, vars, runVars, Abort, StopAtTop, SendRequest,
       ResumeFails, GenerateFails, StreamCut, Answer, PersistAssistant, Nudge, EndTurn, Stop,
       AppendResults, AppendFeedback, AppendRecovery, AppendAdvice
  <2> QED BY <2>1 DEF CallsInv, Working
<1> QED BY <1>1, <1>2

LEMMA CoreStep == Core /\ CallsInv /\ [Next]_vars => Core' /\ CallsInv'
<1> SUFFICES ASSUME Core, CallsInv, [Next]_vars PROVE Core' /\ CallsInv'
  OBVIOUS
<1>1. TypeOK' /\ CallsInv'
  BY TypeStep, CallsStep
<1>2. Counted'
  BY AskCounted, AnswerCounted, ReplyCounted, WorkCounted, IdleCounted DEF Next, RunnerStep, Done
<1> QED BY <1>1, <1>2 DEF Core, Counted

-----------------------------------------------------------------------------
(***************************************************************************)
(* What the handle stands for: all that was sent and answered.             *)
(***************************************************************************)
\* The conversation that the next request is made in.
Own == ConvUsed(handle)
\* The history the handle has seen; the answer itself until it is on file.
Covered == IF pc = "assistant" THEN Len(history) ELSE delivered

\* Without a conversation a handle stands for the history up to there, and a
\* conversation holds every item of it.
HandleInv ==
  handle # None =>
    /\ handle.conv \in {None, conv} /\ handle.kind # "compacted"
    /\ Own = None => /\ handle.kind \in {"response", "messages"} /\ handle.conv = None
                     /\ handle.covers = SubSeq(history, 1, Covered)
    /\ Own # None => \A i \in 1..Covered : \E j \in DOMAIN convs[Own] : convs[Own][j] = history[i]

\* The whole of a sequence in two pieces.
LEMMA TwoPieces ==
  ASSUME NEW S, NEW s \in Seq(S), NEW k \in 0..Len(s)
  PROVE  /\ SubSeq(s, 1, k) \in Seq(S) /\ SubSeq(s, k + 1, Len(s)) \in Seq(S)
         /\ SubSeq(s, 1, k) \o SubSeq(s, k + 1, Len(s)) = s
         /\ Len(SubSeq(s, k + 1, Len(s))) = Len(s) - k
         /\ \A i \in 1..Len(s) - k : SubSeq(s, k + 1, Len(s))[i] = s[k + i]
<1>1. Len(s) \in Nat /\ k \in Int /\ k + 1 \in Int /\ \A i \in 1..Len(s) : s[i] \in S
  BY LenProperties
<1>2. \A i \in 1..k : s[i] \in S
  BY <1>1
<1>3. \A i \in k + 1..Len(s) : s[i] \in S
  BY <1>1
<1>4. SubSeq(s, 1, k) \in Seq(S)
  BY <1>1, <1>2, SubSeqProperties
<1>5. /\ SubSeq(s, k + 1, Len(s)) \in Seq(S)
      /\ Len(SubSeq(s, k + 1, Len(s))) = IF k + 1 <= Len(s) THEN Len(s) - (k + 1) + 1 ELSE 0
      /\ \A i \in 1..Len(s) - (k + 1) + 1 : SubSeq(s, k + 1, Len(s))[i] = s[k + 1 + i - 1]
  BY <1>1, <1>3, SubSeqProperties
<1>6. SubSeq(s, 1, k) \o SubSeq(s, k + 1, Len(s)) = SubSeq(s, 1, Len(s))
  <2>1. 1 \in 1..Len(s) + 1 /\ k \in 1 - 1..Len(s) /\ Len(s) \in k..Len(s)
    BY <1>1
  <2> QED BY <2>1, ConcatAdjacentSubSeq
<1>7. SubSeq(s, 1, Len(s)) = s
  BY SubSeqFull
<1>8. Len(s) - (k + 1) + 1 = Len(s) - k /\ \A i \in 1..Len(s) - k : k + 1 + i - 1 = k + i
  BY <1>1
<1>9. Len(SubSeq(s, k + 1, Len(s))) = Len(s) - k
  BY <1>1, <1>5
<1>10. \A i \in 1..Len(s) - k : SubSeq(s, k + 1, Len(s))[i] = s[k + i]
  BY <1>5, <1>8
<1> QED BY <1>4, <1>5, <1>6, <1>7, <1>9, <1>10

LEMMA SamePrefix ==
  ASSUME NEW S, NEW s \in Seq(S), NEW t \in Seq(S), NEW k \in 0..Len(s), Len(t) >= Len(s),
         \A i \in 1..Len(s) : t[i] = s[i]
  PROVE  SubSeq(t, 1, k) = SubSeq(s, 1, k)
<1>1. /\ Len(s) \in Nat /\ Len(t) \in Nat /\ k \in Int
      /\ \A i \in 1..Len(s) : s[i] \in S
      /\ \A i \in 1..Len(t) : t[i] \in S
  BY LenProperties
<1>2. \A i \in 1..k : s[i] \in S /\ t[i] \in S /\ t[i] = s[i]
  BY <1>1
<1>3. /\ SubSeq(s, 1, k) \in Seq(S) /\ Len(SubSeq(s, 1, k)) = IF 1 <= k THEN k - 1 + 1 ELSE 0
      /\ \A i \in 1..k - 1 + 1 : SubSeq(s, 1, k)[i] = s[1 + i - 1]
  BY <1>1, <1>2, SubSeqProperties
<1>4. /\ SubSeq(t, 1, k) \in Seq(S) /\ Len(SubSeq(t, 1, k)) = IF 1 <= k THEN k - 1 + 1 ELSE 0
      /\ \A i \in 1..k - 1 + 1 : SubSeq(t, 1, k)[i] = t[1 + i - 1]
  BY <1>1, <1>2, SubSeqProperties
<1>5. Len(SubSeq(t, 1, k)) = k /\ Len(SubSeq(s, 1, k)) = k
  BY <1>1, <1>3, <1>4
<1>6. \A i \in 1..k : i \in 1..k - 1 + 1 /\ 1 + i - 1 = i
  BY <1>1
<1>7. \A i \in 1..k : SubSeq(t, 1, k)[i] = SubSeq(s, 1, k)[i]
  BY <1>2, <1>3, <1>4, <1>6
<1> QED BY <1>3, <1>4, <1>5, <1>7, SeqEqual

\* The request that is out.
LEMMA OwnRequest ==
  ASSUME Core, HandleInv, pc = "request"
  PROVE  /\ request \in Request /\ request.handle = handle /\ request.messages = Pending
         /\ ConvUsed(handle) = Own /\ Own \in Convs \cup {None}
<1>1. request \in Request /\ request.handle = handle /\ request.messages = Pending
  BY DEF Core, RequestInv
<1>2. ConvUsed(handle) = Own
  BY DEF Own
<1>3. Own \in Convs \cup {None}
  BY <1>1, SeenType DEF Own, Core
<1> QED BY <1>1, <1>2, <1>3

\* Without a conversation the model sees the history, item by item.
LEMMA SeesHistory ==
  ASSUME Core, HandleInv, pc = "request", Own = None
  PROVE  Seen(request) = history
<1>1. /\ request.handle = handle /\ request.messages = Pending /\ ConvUsed(handle) = None
      /\ history \in Seq(Item) /\ delivered \in 0..Len(history)
  BY OwnRequest DEF Core, TypeOK
<1>2. ConvContent(handle) = <<>>
  BY <1>1 DEF ConvContent
<1>3. CASE handle = None
  <2>1. Context(handle) = <<>> /\ Pending = history
    BY <1>2, <1>3 DEF Context, Pending
  <2> QED BY <1>1, <2>1, ConcatEmptySeq DEF Seen
<1>4. CASE handle # None
  <2>1. handle.kind \in {"response", "messages"} /\ handle.conv = None
        /\ handle.covers = SubSeq(history, 1, delivered)
    BY <1>4 DEF HandleInv, Covered
  <2>2. Context(handle) = SubSeq(history, 1, delivered)
    BY <1>4, <2>1 DEF Context
  <2>3. Pending = SubSeq(history, delivered + 1, Len(history))
    BY <1>4 DEF Pending
  <2>4. Seen(request) = SubSeq(history, 1, delivered) \o SubSeq(history, delivered + 1, Len(history))
    BY <1>1, <2>2, <2>3 DEF Seen
  <2> QED BY <1>1, <2>4, TwoPieces
<1> QED BY <1>3, <1>4

\* A request whose handle has what is delivered misses nothing.
LEMMA SeesCovered ==
  ASSUME TypeOK, request \in Request, request.handle = handle, request.messages = Pending,
         handle # None => \A i \in 1..delivered :
                            \E j \in 1..Len(Context(handle)) : Context(handle)[j] = history[i]
  PROVE  \A i \in 1..Len(history) : \E j \in 1..Len(Seen(request)) : Seen(request)[j] = history[i]
<1> DEFINE context == Context(handle)
           pending == Pending
           joined == context \o pending
           from == IF handle = None THEN 0 ELSE delivered
<1>1. /\ history \in Seq(Item) /\ delivered \in 0..Len(history) /\ Len(history) \in Nat
      /\ from \in 0..Len(history)
  BY LenProperties DEF TypeOK
<1>2. context \in Seq(Item) /\ pending \in Seq(Item) /\ Seen(request) = joined
  BY SeenType, PendingType DEF Seen
<1>3. /\ Len(pending) = Len(history) - from
      /\ \A i \in 1..Len(history) - from : pending[i] = history[from + i]
  <2>1. CASE handle = None
    BY <1>1, <2>1 DEF Pending
  <2>2. CASE handle # None
    <3>1. pending = SubSeq(history, delivered + 1, Len(history))
      BY <2>2 DEF Pending
    <3> QED BY <1>1, <2>2, <3>1, TwoPieces
  <2> QED BY <2>1, <2>2
<1>4. \A i \in 1..from : \E j \in 1..Len(context) : context[j] = history[i]
  BY <1>1
<1> HIDE DEF context, pending, from
<1>5. /\ Len(joined) = Len(context) + Len(pending)
      /\ \A j \in 1..Len(context) : joined[j] = context[j]
      /\ \A j \in Len(context) + 1..Len(context) + Len(pending) : joined[j] = pending[j - Len(context)]
      /\ Len(context) \in Nat /\ Len(pending) \in Nat
  BY <1>2, Joined, LenProperties
<1> HIDE DEF joined
<1> SUFFICES ASSUME NEW i \in 1..Len(history)
             PROVE  \E j \in 1..Len(joined) : joined[j] = history[i]
  BY <1>2
<1>6. CASE i <= from
  <2>1. PICK j \in 1..Len(context) : context[j] = history[i]
    BY <1>1, <1>4, <1>6
  <2> QED BY <1>5, <2>1
<1>7. CASE ~(i <= from)
  <2> DEFINE k == i - from
  <2>1. k \in 1..Len(history) - from /\ from + k = i
        /\ Len(context) + k \in Len(context) + 1..Len(context) + Len(pending)
        /\ Len(context) + k \in 1..Len(joined) /\ (Len(context) + k) - Len(context) = k
    BY <1>1, <1>3, <1>5, <1>7
  <2> HIDE DEF k
  <2>2. joined[Len(context) + k] = pending[k] /\ pending[k] = history[i]
    BY <1>3, <1>5, <2>1
  <2> QED BY <2>1, <2>2
<1> QED BY <1>6, <1>7

\* With or without a conversation, it misses none of it.
LEMMA SeesAll ==
  ASSUME Core, HandleInv, pc = "request"
  PROVE  \A i \in 1..Len(history) : \E j \in 1..Len(Seen(request)) : Seen(request)[j] = history[i]
<1>1. /\ request \in Request /\ request.handle = handle /\ request.messages = Pending
      /\ ConvUsed(handle) = Own /\ Own \in Convs \cup {None} /\ TypeOK
      /\ convs \in [Convs -> Seq(Item)]
  BY OwnRequest DEF Core, TypeOK
<1>2. CASE Own = None
  <2>1. Seen(request) = history
    BY <1>2, SeesHistory
  <2> QED BY <2>1
<1>3. CASE Own # None
  <2>1. convs[Own] \in Seq(Item) /\ DOMAIN convs[Own] = 1..Len(convs[Own])
    <3>1. convs[Own] \in Seq(Item)
      BY <1>1, <1>3
    <3> QED BY <3>1, LenProperties
  <2>2. handle # None => Context(handle) = convs[Own]
    <3>1. handle # None => handle.conv # None /\ handle.kind # "compacted"
      BY <1>1, <1>3 DEF HandleInv, ConvUsed
    <3>2. ConvContent(handle) = convs[Own]
      BY <1>1, <1>3 DEF ConvContent
    <3> QED BY <3>1, <3>2 DEF Context
  <2>3. handle # None => \A i \in 1..delivered :
                           \E j \in 1..Len(Context(handle)) : Context(handle)[j] = history[i]
    BY <1>3, <2>1, <2>2 DEF HandleInv, Covered
  <2> QED BY <1>1, <2>3, SeesCovered
<1> QED BY <1>2, <1>3

\* A step that only adds items after what the handle stands for.
LEMMA HandleKept ==
  ASSUME Core, HandleInv, UNCHANGED <<handle, convs, provider, conv, delivered>>,
         pc # "assistant", pc' # "assistant", history' \in Seq(Item),
         Len(history') >= Len(history), \A i \in 1..Len(history) : history'[i] = history[i]
  PROVE  HandleInv'
<1>1. history \in Seq(Item) /\ delivered \in 0..Len(history) /\ Len(history) \in Nat
  BY LenProperties DEF Core, TypeOK
<1>2. SubSeq(history', 1, delivered) = SubSeq(history, 1, delivered)
  BY <1>1, SamePrefix
<1>3. \A i \in 1..delivered : history'[i] = history[i]
  BY <1>1
<1>4. Own' = Own /\ Covered' = delivered /\ Covered = delivered
  BY DEF Own, ConvUsed, Covered
<1> QED BY <1>2, <1>3, <1>4 DEF HandleInv

\* What stays of the history in each step.
LEMMA HistoryGrows ==
  ASSUME Core, CallsInv, [Next]_vars
  PROVE  /\ history' \in Seq(Item) /\ Len(history') >= Len(history) /\ Len(history) \in Nat
         /\ \A i \in 1..Len(history) : history'[i] = history[i]
<1>1. history \in Seq(Item) /\ Len(history) \in Nat
  BY LenProperties DEF Core, TypeOK
<1>2. history' \in Seq(Item)
  BY CoreStep DEF Core, TypeOK
<1>3. CASE UNCHANGED history
  BY <1>1, <1>2, <1>3
<1>4. CASE \E kind \in ItemKinds : history' = Append(history, NewItem(kind))
  <2>1. PICK kind \in ItemKinds : history' = Append(history, NewItem(kind))
    BY <1>4
  <2> DEFINE item == NewItem(kind)
  <2>2. item \in Item /\ TypeOK
    BY ItemType DEF Core
  <2>3. history' = Append(history, item)
    BY <2>1
  <2> HIDE DEF item
  <2>4. /\ Len(Append(history, item)) = Len(history) + 1
        /\ \A i \in 1..Len(history) : Append(history, item)[i] = history[i]
    BY <2>2, Appended1
  <2> QED BY <1>1, <1>2, <2>3, <2>4
<1>5. CASE AppendRecovery
  BY <1>1, <1>2, <1>5, RecoveryQuiet
<1>6. CASE \E answer \in Answers : Answer(answer)
  <2>1. PICK answer \in Answers : Answer(answer)
    BY <1>6
  <2>2. history' = Append(history, NewItem(IF answer.calls = <<>> THEN "text" ELSE "calls"))
    BY <2>1 DEF Answer
  <2>3. (IF answer.calls = <<>> THEN "text" ELSE "calls") \in ItemKinds
    BY DEF ItemKinds
  <2> QED BY <1>4, <2>2, <2>3
<1>7. CASE Nudge \/ AppendResults \/ AppendFeedback \/ AppendAdvice
  <2>1. UNCHANGED history \/ \E kind \in {"nudge", "results", "feedback", "advice"} :
                                history' = Append(history, NewItem(kind))
    BY <1>7 DEF Nudge, AppendResults, AppendFeedback, AppendAdvice, Append1
  <2> QED BY <1>3, <1>4, <2>1 DEF ItemKinds
<1>8. CASE \E n \in 1..MaxCalls, fb \in Feedbacks : \E calls \in [1..n -> Call] : RunBatch(calls, fb)
  BY <1>3, <1>8 DEF RunBatch
<1>9. CASE StopAtTop \/ SendRequest \/ ResumeFails \/ GenerateFails \/ StreamCut
           \/ PersistAssistant \/ EndTurn \/ Abort \/ UNCHANGED vars
  BY <1>3, <1>9 DEF StopAtTop, SendRequest, ResumeFails, GenerateFails, StreamCut,
     PersistAssistant, EndTurn, Abort, vars, runVars
<1> QED BY <1>5, <1>6, <1>7, <1>8, <1>9 DEF Next, RunnerStep, Done

\* The answer: the new handle stands for what was seen and the answer itself.
LEMMA HandleAnswer ==
  ASSUME Core, HandleInv, NEW answer \in Answers, Answer(answer)
  PROVE  HandleInv'
<1> DEFINE item == NewItem(IF answer.calls = <<>> THEN "text" ELSE "calls")
           sight == Seen(request)
           seen == Append(sight, item)
           new == NewHandle(request, seen)
<1>1. /\ history' = Append(history, item) /\ handle' = new /\ pc' = "assistant" /\ pc = "request"
      /\ convs' = (IF new.conv = None THEN convs ELSE [convs EXCEPT ![new.conv] = seen])
      /\ UNCHANGED <<provider, conv>>
  BY DEF Answer
<1>2. /\ request \in Request /\ request.handle = handle /\ ConvUsed(handle) = Own
      /\ Own \in Convs \cup {None} /\ TypeOK /\ history \in Seq(Item)
  BY <1>1, OwnRequest DEF Core, TypeOK
<1>3. item \in Item /\ sight \in Seq(Item)
  BY <1>2, SeenType, ItemType DEF ItemKinds
<1>4. /\ new.conv = Own /\ new.covers = seen /\ new.kind \in {"response", "messages"}
      /\ Own \in {None, conv}
  BY <1>2 DEF NewHandle, HandleInv, Own, ConvUsed
<1>5. (handle' # None => Own' = Own) /\ Covered' = Len(history')
  <2>1. provider # "openai" => Own = None
    BY DEF Own, ConvUsed
  <2>2. Own' = IF provider # "openai" THEN None ELSE IF new = None THEN conv ELSE new.conv
    BY <1>1 DEF Own, ConvUsed
  <2> QED BY <1>1, <1>4, <2>1, <2>2 DEF Covered
<1>6. /\ history' \in Seq(Item) /\ Len(history') = Len(history) + 1 /\ Len(history) \in Nat
      /\ history'[Len(history) + 1] = item
      /\ \A i \in 1..Len(history) : history'[i] = history[i]
  <2> HIDE DEF item
  <2>1. /\ Append(history, item) \in Seq(Item) /\ Len(Append(history, item)) = Len(history) + 1
        /\ Append(history, item)[Len(history) + 1] = item /\ Len(history) \in Nat
        /\ \A i \in 1..Len(history) : Append(history, item)[i] = history[i]
    BY <1>2, <1>3, Appended1, LenProperties
  <2> QED BY <1>1, <2>1
<1>7. CASE Own = None
  <2>1. seen = history'
    BY <1>1, <1>7, SeesHistory
  <2>2. SubSeq(history', 1, Len(history')) = history'
    BY <1>6, SubSeqFull
  <2> HIDE DEF item, seen, new
  <2> QED BY <1>1, <1>4, <1>5, <1>7, <2>1, <2>2 DEF HandleInv
<1>8. CASE Own # None
  <2>1. convs'[Own] = seen
    <3> HIDE DEF new, seen
    <3> QED BY <1>1, <1>2, <1>4, <1>8 DEF TypeOK
  <2>2. /\ Len(seen) = Len(sight) + 1 /\ Len(sight) \in Nat /\ DOMAIN seen = 1..Len(seen)
        /\ \A j \in 1..Len(sight) : seen[j] = sight[j]
        /\ seen[Len(sight) + 1] = item
    <3> HIDE DEF item, sight
    <3>1. /\ Append(sight, item) \in Seq(Item) /\ Len(Append(sight, item)) = Len(sight) + 1
          /\ \A j \in 1..Len(sight) : Append(sight, item)[j] = sight[j]
          /\ Append(sight, item)[Len(sight) + 1] = item
      BY <1>3, AppendProperties
    <3>2. seen \in Seq(Item)
      BY <3>1
    <3> QED BY <1>3, <3>1, <3>2, LenProperties
  <2>3. \A i \in 1..Len(history) : \E j \in 1..Len(sight) : sight[j] = history[i]
    BY <1>1, SeesAll
  <2> HIDE DEF item, sight, seen, new
  <2>4. ASSUME NEW i \in 1..Len(history')
        PROVE  \E j \in DOMAIN seen : seen[j] = history'[i]
    <3>1. CASE i = Len(history) + 1
      BY <1>6, <2>2, <3>1
    <3>2. CASE i # Len(history) + 1
      <4>1. i \in 1..Len(history)
        BY <1>6, <3>2
      <4>2. PICK j \in 1..Len(sight) : sight[j] = history[i]
        BY <2>3, <4>1
      <4>3. j \in DOMAIN seen
        BY <2>2, <4>2
      <4> QED BY <1>6, <2>2, <4>1, <4>2, <4>3
    <3> QED BY <3>1, <3>2
  <2> QED BY <1>1, <1>4, <1>5, <1>8, <2>1, <2>4 DEF HandleInv
<1> QED BY <1>7, <1>8

LEMMA HandleStep ==
  ASSUME Core, CallsInv, HandleInv, [Next]_vars
  PROVE  HandleInv'
<1>1. /\ history' \in Seq(Item) /\ Len(history') >= Len(history) /\ Len(history) \in Nat
      /\ \A i \in 1..Len(history) : history'[i] = history[i]
  BY HistoryGrows
<1>2. CASE \E answer \in Answers : Answer(answer)
  BY <1>2, HandleAnswer
<1>3. CASE PersistAssistant
  BY <1>3 DEF PersistAssistant, HandleInv, Own, ConvUsed, Covered
<1>4. CASE ResumeFails
  <2>1. UNCHANGED <<history, convs, provider, conv>> /\ pc = "request" /\ pc' = "loop"
    BY <1>4 DEF ResumeFails
  <2>2. request.handle = handle
    BY <2>1 DEF Core, RequestInv
  <2>3. CASE handle.kind \in {"response", "compacted"} /\ handle.conv # None
    <3>1. /\ handle'.conv = handle.conv /\ handle'.kind = "conversation"
          /\ handle' # None => delivered' = delivered
      BY <1>4, <2>2, <2>3 DEF ResumeFails, ConversationFallback
    <3>2. handle # None
      BY <1>4, <2>2 DEF ResumeFails
    <3>3. Covered' = delivered' /\ Covered = delivered
      BY <2>1 DEF Covered
    <3>4. Own # None /\ Own = handle.conv /\ (handle' # None => Own' = Own)
      BY <2>1, <2>3, <3>1, <3>2 DEF HandleInv, Own, ConvUsed
    <3> QED BY <2>1, <2>3, <3>1, <3>2, <3>3, <3>4 DEF HandleInv
  <2>4. CASE ~(handle.kind \in {"response", "compacted"} /\ handle.conv # None)
    BY <1>4, <2>2, <2>4 DEF ResumeFails, ConversationFallback, HandleInv
  <2> QED BY <2>3, <2>4
<1>5. CASE Abort \/ UNCHANGED vars
  <2>1. UNCHANGED <<history, handle, delivered, convs, provider, conv, pc>>
    BY <1>5 DEF Abort, vars, runVars
  <2> QED BY <2>1 DEF HandleInv, Own, ConvUsed, Covered
<1>6. CASE StopAtTop \/ SendRequest \/ GenerateFails \/ StreamCut \/ Nudge \/ EndTurn
           \/ (\E n \in 1..MaxCalls, fb \in Feedbacks : \E calls \in [1..n -> Call] : RunBatch(calls, fb))
           \/ AppendResults \/ AppendFeedback \/ AppendRecovery \/ AppendAdvice
  <2>1. UNCHANGED <<handle, convs, provider, conv, delivered>> /\ pc # "assistant" /\ pc' # "assistant"
    BY <1>6 DEF StopAtTop, SendRequest, GenerateFails, StreamCut, Nudge, EndTurn, RunBatch,
       AppendResults, AppendFeedback, AppendRecovery, AppendAdvice, Stop
  <2> QED BY <1>1, <2>1, HandleKept
<1> QED BY <1>2, <1>3, <1>4, <1>5, <1>6 DEF Next, RunnerStep, Done

-----------------------------------------------------------------------------
(***************************************************************************)
(* Calls and their results, and the nudges.                                *)
(***************************************************************************)
\* Calls are followed by their results, or the results are yet to come.
AnsweredInv ==
  \A i \in 1..Len(history) : history[i].kind = "calls" =>
    IF i < Len(history) THEN history[i + 1].kind = "results"
    ELSE pc \in {"assistant", "reply", "results"}

\* A step that adds a results item, or other items after no calls.
LEMMA AnsweredKept ==
  ASSUME AnsweredInv, history \in Seq(Item), Len(history') \in Nat, Len(history') >= Len(history),
         \A i \in 1..Len(history) : history'[i] = history[i],
         \A i \in Len(history) + 1..Len(history') :
           history'[i].kind = "calls" => i = Len(history') /\ pc' = "assistant",
         \/ pc \notin {"assistant", "reply", "results"}
         \/ pc = "results" /\ Len(history') = Len(history) + 1
           /\ history'[Len(history) + 1].kind = "results"
         \/ Len(history') = Len(history) /\ pc' \in {"assistant", "reply", "results"}
         \/ history[Len(history)].kind # "calls"
  PROVE  AnsweredInv'
<1>1. Len(history) \in Nat
  BY LenProperties
<1> SUFFICES ASSUME NEW i \in 1..Len(history'), history'[i].kind = "calls"
             PROVE  IF i < Len(history') THEN history'[i + 1].kind = "results"
                    ELSE pc' \in {"assistant", "reply", "results"}
  BY DEF AnsweredInv
<1>2. CASE i > Len(history)
  BY <1>1, <1>2
<1>3. CASE i < Len(history)
  <2>1. i \in 1..Len(history) /\ i + 1 \in 1..Len(history)
    BY <1>1, <1>3
  <2> QED BY <1>1, <1>3, <2>1 DEF AnsweredInv
<1>4. CASE i = Len(history)
  <2>1. i \in 1..Len(history) /\ history[i].kind = "calls"
    BY <1>1, <1>4
  <2>2. pc \in {"assistant", "reply", "results"}
    BY <1>1, <1>4, <2>1 DEF AnsweredInv
  <2> QED BY <1>1, <1>4, <2>1, <2>2
<1> QED BY <1>1, <1>2, <1>3, <1>4

\* How a step that is no recovery changes the history.
Adds(kind) ==
  /\ Len(history') = Len(history) + 1 /\ history'[Len(history) + 1] = NewItem(kind)
  /\ NewItem(kind).kind = kind /\ Last' = NewItem(kind)

LEMMA AddsOne ==
  ASSUME Core, NEW kind \in ItemKinds, history' = Append(history, NewItem(kind))
  PROVE  Adds(kind)
<1> DEFINE item == NewItem(kind)
<1>1. item \in Item /\ item.kind = kind /\ history' = Append(history, item) /\ TypeOK
  BY ItemType DEF Core, NewItem
<1> HIDE DEF item
<1>2. Len(Append(history, item)) = Len(history) + 1 /\ Append(history, item)[Len(history) + 1] = item
  BY <1>1, Appended1
<1>3. Len(history') = Len(history) + 1 /\ history'[Len(history) + 1] = item
  BY <1>1, <1>2
<1>4. Last' = item
  BY <1>3 DEF Last
<1> QED BY <1>1, <1>3, <1>4 DEF Adds, item

LEMMA AnsweredStep ==
  ASSUME Core, CallsInv, AnsweredInv, [Next]_vars
  PROVE  AnsweredInv'
<1>1. /\ history \in Seq(Item) /\ history' \in Seq(Item) /\ Len(history') >= Len(history)
      /\ Len(history) \in Nat /\ Len(history') \in Nat /\ Len(history) > 0
      /\ \A i \in 1..Len(history) : history'[i] = history[i]
  BY HistoryGrows, LenProperties, EmptySeq DEF Core, TypeOK
<1>2. CASE \E answer \in Answers : Answer(answer)
  <2>1. PICK answer \in Answers : Answer(answer)
    BY <1>2
  <2>2. PICK kind \in ItemKinds : history' = Append(history, NewItem(kind))
    BY <2>1 DEF Answer, ItemKinds
  <2>3. pc = "request" /\ pc' = "assistant" /\ Len(history') = Len(history) + 1
    BY <2>1, <2>2, AddsOne DEF Answer, Adds
  <2>4. \A i \in Len(history) + 1..Len(history') : i = Len(history')
    BY <1>1, <2>3
  <2> QED BY <1>1, <2>3, <2>4, AnsweredKept
<1>3. CASE Nudge /\ pc' = "loop"
  <2>1. Adds("nudge")
    <3>1. history' = Append(history, NewItem("nudge"))
      BY <1>3 DEF Nudge, Stop
    <3> QED BY <3>1, AddsOne DEF ItemKinds
  <2>2. Len(history') = Len(history) + 1 /\ history'[Len(history) + 1].kind = "nudge"
    BY <2>1 DEF Adds
  <2>3. history[Len(history)].kind = "text"
    BY <1>3 DEF Nudge, Core, RequestInv, Last
  <2>4. \A i \in Len(history) + 1..Len(history') : i = Len(history) + 1
    BY <1>1, <2>2
  <2> QED BY <1>1, <2>2, <2>3, <2>4, AnsweredKept
<1>4. CASE AppendResults
  <2>1. Adds("results") /\ pc = "results"
    BY <1>4, AddsOne DEF AppendResults, Append1, ItemKinds
  <2>2. Len(history') = Len(history) + 1 /\ history'[Len(history) + 1].kind = "results"
    BY <2>1 DEF Adds
  <2>3. \A i \in Len(history) + 1..Len(history') : i = Len(history) + 1
    BY <1>1, <2>2
  <2> QED BY <1>1, <2>1, <2>2, <2>3, AnsweredKept
<1>5. CASE AppendFeedback \/ (AppendAdvice /\ history' # history)
  <2>1. PICK kind \in {"feedback", "advice"} : Adds(kind)
    BY <1>5, AddsOne DEF AppendFeedback, AppendAdvice, Append1, ItemKinds
  <2>2. Len(history') = Len(history) + 1 /\ history'[Len(history) + 1].kind # "calls"
    BY <2>1 DEF Adds
  <2>3. \A i \in Len(history) + 1..Len(history') : i = Len(history) + 1
    BY <1>1, <2>2
  <2>4. pc \in {"feedback", "advice"}
    BY <1>5 DEF AppendFeedback, AppendAdvice
  <2> QED BY <1>1, <2>2, <2>3, <2>4, AnsweredKept
<1>6. CASE AppendRecovery
  <2>1. \A i \in Len(history) + 1..Len(history') : history'[i].kind = "recovery"
    BY <1>6, RecoveryQuiet
  <2>2. pc = "recovery"
    BY <1>6 DEF AppendRecovery
  <2> QED BY <1>1, <2>1, <2>2, AnsweredKept
<1>7. CASE /\ UNCHANGED history
           /\ pc \in {"assistant", "reply", "results"} =>
                pc' \in {"assistant", "reply", "results"}
  BY <1>7 DEF AnsweredInv
<1>8. CASE EndTurn \/ (Nudge /\ pc' # "loop")
  <2>1. history[Len(history)].kind = "text" /\ UNCHANGED history
    BY <1>8 DEF EndTurn, Nudge, Core, RequestInv, Last, Prose
  <2> QED BY <1>1, <2>1, AnsweredKept
<1>9. CASE \/ StopAtTop \/ SendRequest \/ ResumeFails \/ GenerateFails \/ StreamCut
           \/ PersistAssistant
           \/ (\E n \in 1..MaxCalls, fb \in Feedbacks : \E calls \in [1..n -> Call] : RunBatch(calls, fb))
           \/ (AppendAdvice /\ history' = history) \/ Abort \/ UNCHANGED vars
  BY <1>7, <1>9
  DEF StopAtTop, SendRequest, ResumeFails, GenerateFails, StreamCut, PersistAssistant,
      RunBatch, AppendAdvice, Abort, Stop, vars, runVars
<1> QED BY <1>2, <1>3, <1>4, <1>5, <1>6, <1>8, <1>9 DEF Next, RunnerStep, Done

\* A nudge is the last word only until the next answer, and then the request
\* that answers it is to be forced, unless a resume of it failed.
NudgeInv ==
  /\ pc \in Working \cup {"assistant", "reply"} => Last.kind # "nudge"
  /\ pc = "loop" /\ Last.kind = "nudge" => force \/ handle = None \/ handle.kind = "conversation"
  /\ ForcedAfterNudge

LEMMA NudgeStep ==
  ASSUME Core, CallsInv, NudgeInv, [Next]_vars
  PROVE  NudgeInv'
<1>1. CASE \E answer \in Answers : Answer(answer)
  <2>1. PICK answer \in Answers : Answer(answer)
    BY <1>1
  <2>2. PICK kind \in {"text", "calls"} : history' = Append(history, NewItem(kind))
    BY <2>1 DEF Answer
  <2>3. Last'.kind = kind
    BY <2>2, AddsOne DEF Adds, ItemKinds
  <2> QED BY <2>1, <2>3 DEF Answer, NudgeInv, ForcedAfterNudge
<1>2. CASE Nudge
  <2>1. pc' \in {"loop", "done"} /\ (pc' = "loop" => force')
    BY <1>2 DEF Nudge, Stop
  <2> QED BY <2>1 DEF NudgeInv, ForcedAfterNudge, Working
<1>3. CASE AppendResults \/ AppendFeedback \/ (AppendAdvice /\ history' # history)
  <2>1. PICK kind \in {"results", "feedback", "advice"} : history' = Append(history, NewItem(kind))
    BY <1>3 DEF AppendResults, AppendFeedback, AppendAdvice, Append1
  <2>2. Last'.kind = kind
    BY <2>1, AddsOne DEF Adds, ItemKinds
  <2>3. pc' # "request"
    BY <1>3 DEF AppendResults, AppendFeedback, AppendAdvice, Stop
  <2> QED BY <2>2, <2>3 DEF NudgeInv, ForcedAfterNudge
<1>4. CASE AppendRecovery
  <2>1. /\ Len(history) \in Nat /\ Reads \in Nat /\ Len(history') = Len(history) + Reads
        /\ \A i \in 1..Len(history) : history'[i] = history[i]
        /\ \A i \in Len(history) + 1..Len(history') : history'[i].kind = "recovery"
    BY <1>4, RecoveryQuiet
  <2>2. Len(history) > 0
    BY LenProperties, EmptySeq DEF Core, TypeOK
  <2>3. Last.kind # "nudge"
    BY <1>4 DEF NudgeInv, AppendRecovery, Working
  <2>4. Last'.kind # "nudge"
    <3>1. CASE Reads = 0
      <4>1. Len(history') = Len(history) /\ Len(history) \in 1..Len(history)
        BY <2>1, <2>2, <3>1
      <4> QED BY <2>1, <2>3, <4>1 DEF Last
    <3>2. CASE Reads # 0
      <4>1. Len(history') \in Len(history) + 1..Len(history')
        BY <2>1, <3>2
      <4> QED BY <2>1, <4>1 DEF Last
    <3> QED BY <3>1, <3>2
  <2> QED BY <1>4, <2>4 DEF AppendRecovery, NudgeInv, ForcedAfterNudge
<1>5. CASE SendRequest
  <2>1. UNCHANGED <<history, handle>> /\ pc' = "request" /\ request'.handle = handle
        /\ pc = "loop" /\ request'.active = Tools \ suppressed /\ request'.forced = Forced
    BY <1>5 DEF SendRequest
  <2>2. Last' = Last
    BY <2>1 DEF Last
  <2>3. ForcedAfterNudge'
    BY <2>1, <2>2 DEF NudgeInv, ForcedAfterNudge, Forced, Last
  <2> QED BY <2>1, <2>3 DEF NudgeInv, Working
<1>6. CASE ResumeFails
  <2>1. UNCHANGED history /\ pc' = "loop" /\ handle' = ConversationFallback(request.handle)
    BY <1>6 DEF ResumeFails
  <2>2. handle' = None \/ handle'.kind = "conversation"
    BY <2>1 DEF ConversationFallback
  <2> QED BY <2>1, <2>2 DEF NudgeInv, ForcedAfterNudge, Working
<1>7. CASE PersistAssistant \/ (AppendAdvice /\ history' = history)
           \/ (\E n \in 1..MaxCalls, fb \in Feedbacks : \E calls \in [1..n -> Call] : RunBatch(calls, fb))
  <2>1. UNCHANGED history /\ pc \in Working \cup {"assistant", "reply"} /\ pc' # "request"
    BY <1>7 DEF PersistAssistant, AppendAdvice, RunBatch, Working
  <2> QED BY <2>1 DEF NudgeInv, ForcedAfterNudge, Last
<1>8. CASE StopAtTop \/ GenerateFails \/ StreamCut \/ EndTurn
  <2>1. pc' = "done"
    BY <1>8 DEF StopAtTop, GenerateFails, StreamCut, EndTurn, Stop
  <2> QED BY <2>1 DEF NudgeInv, ForcedAfterNudge, Working
<1>9. CASE Abort \/ UNCHANGED vars
  <2>1. UNCHANGED <<history, handle, force, request, pc>>
    BY <1>9 DEF Abort, vars, runVars
  <2> QED BY <2>1 DEF NudgeInv, ForcedAfterNudge, Last
<1> QED BY <1>1, <1>2, <1>3, <1>4, <1>5, <1>6, <1>7, <1>8, <1>9 DEF Next, RunnerStep, Done

-----------------------------------------------------------------------------
(***************************************************************************)
(* The file.                                                               *)
(***************************************************************************)
\* The file has the history but for its nudges, and for the answer that is
\* being written.
FiledInv ==
  /\ pc \notin {"assistant", "done"} => ResponseItems(rollout) = Filed(history)
  /\ pc = "assistant" => Append(ResponseItems(rollout), Last) = Filed(history)

\* A sequence and the first n + 1 of another.
LEMMA OneFurther ==
  ASSUME NEW S, NEW s \in Seq(S), NEW t \in Seq(S), NEW n \in 0..Len(t) - 1
  PROVE  /\ s \o SubSeq(t, 1, n) \in Seq(S) /\ t[n + 1] \in S
         /\ s \o SubSeq(t, 1, n + 1) = Append(s \o SubSeq(t, 1, n), t[n + 1])
<1>1. Len(t) \in Nat /\ n + 1 \in 1..Len(t) /\ (n + 1) - 1 = n /\ n \in 0..Len(t) /\ 1 \in 1..Len(t)
      /\ n + 1 \in 1..Len(t)
  BY LenProperties
<1>2. t[n + 1] \in S /\ <<t[n + 1]>> \in Seq(S)
  BY <1>1, LenProperties
<1>3. SubSeq(t, 1, n) \in Seq(S)
  BY <1>1, TwoPieces
<1>4. SubSeq(t, 1, n + 1) = SubSeq(t, 1, (n + 1) - 1) \o <<t[n + 1]>>
  BY <1>1, SubSeqRecursiveSecond
<1>5. s \o SubSeq(t, 1, n) \in Seq(S)
  BY <1>3, ConcatProperties
<1>6. (s \o SubSeq(t, 1, n)) \o <<t[n + 1]>> = s \o (SubSeq(t, 1, n) \o <<t[n + 1]>>)
  <2> DEFINE first == SubSeq(t, 1, n)
             next == <<t[n + 1]>>
  <2>1. first \in Seq(S) /\ next \in Seq(S)
    BY <1>2, <1>3
  <2> HIDE DEF first, next
  <2>2. (s \o first) \o next = s \o (first \o next)
    BY <2>1, ConcatAssociative, SMTT(30)
  <2> QED BY <2>2 DEF first, next
<1>7. Append(s \o SubSeq(t, 1, n), t[n + 1]) = (s \o SubSeq(t, 1, n)) \o <<t[n + 1]>>
  BY <1>2, <1>5, AppendIsConcat
<1> QED BY <1>1, <1>2, <1>4, <1>5, <1>6, <1>7

LEMMA NoneFurther ==
  ASSUME NEW S, NEW s \in Seq(S), NEW t \in Seq(S)
  PROVE  s \o SubSeq(t, 1, 0) = s /\ s \o SubSeq(t, 1, Len(t)) = s \o t
<1>1. SubSeq(t, 1, 0) = <<>> /\ SubSeq(t, 1, Len(t)) = t
  BY SubSeqEmpty, SubSeqFull
<1> QED BY <1>1, ConcatEmptySeq

\* The reads of AppendRecovery go to both, one by one.
LEMMA RecoveryFiled ==
  ASSUME Core, CallsInv, AppendRecovery, ResponseItems(rollout) = Filed(history)
  PROVE  ResponseItems(rollout') = Filed(history')
<1>1. /\ history' = history \o ReadItems /\ rollout' = rollout \o ReadLines
      /\ history \in Seq(Item) /\ rollout \in Seq(Line)
  BY RecoveryType DEF Core, TypeOK, Line
<1>2. /\ Reads \in Nat /\ ReadItems \in Seq(Item) /\ ReadLines \in Seq(Line)
      /\ Len(ReadItems) = Reads /\ Len(ReadLines) = Reads
      /\ \A i \in 1..Reads : ReadItems[i].kind = "recovery" /\ ReadLines[i] = ItemLine(ReadItems[i])
  BY ReadsType DEF Core, CallsInv, AppendRecovery
<1> DEFINE items(n) == history \o SubSeq(ReadItems, 1, n)
           lines(n) == rollout \o SubSeq(ReadLines, 1, n)
           P == {n \in 0..Reads : ResponseItems(lines(n)) = Filed(items(n))}
<1>0. /\ items(0) = history /\ items(Len(ReadItems)) = history'
      /\ lines(0) = rollout /\ lines(Len(ReadLines)) = rollout'
  <2>1. items(0) = history /\ items(Len(ReadItems)) = history \o ReadItems
    BY <1>1, <1>2, NoneFurther
  <2>2. lines(0) = rollout /\ lines(Len(ReadLines)) = rollout \o ReadLines
    BY <1>1, <1>2, NoneFurther
  <2> QED BY <1>1, <2>1, <2>2
<1>3. 0 \in P
  <2> HIDE DEF items, lines
  <2>1. 0 \in 0..Reads /\ ResponseItems(lines(0)) = Filed(items(0))
    BY <1>0, <1>2
  <2> QED BY <2>1
<1>4. ASSUME NEW n \in 0..Reads - 1, n \in P
      PROVE  n + 1 \in P
  <2>1. /\ items(n) \in Seq(Item) /\ ReadItems[n + 1] \in Item
        /\ items(n + 1) = Append(items(n), ReadItems[n + 1])
    <3>1. n \in 0..Len(ReadItems) - 1
      BY <1>2
    <3> QED BY <1>1, <1>2, <3>1, OneFurther
  <2>2. /\ lines(n) \in Seq(Line) /\ ReadLines[n + 1] \in Line
        /\ lines(n + 1) = Append(lines(n), ReadLines[n + 1])
    <3>1. n \in 0..Len(ReadLines) - 1
      BY <1>2
    <3> QED BY <1>1, <1>2, <3>1, OneFurther
  <2>3. ReadItems[n + 1].kind = "recovery" /\ ReadLines[n + 1] = ItemLine(ReadItems[n + 1])
        /\ n + 1 \in 0..Reads
    BY <1>2
  <2> DEFINE s == items(n)
             l == lines(n)
             e == ReadItems[n + 1]
             x == ReadLines[n + 1]
  <2>4. ResponseItems(l) = Filed(s)
    BY <1>4
  <2> HIDE DEF s, l, e, x, items, lines
  <2>5. Filed(Append(s, e)) = AfterItem(Filed(s), e)
    BY <2>1, FiledAppend DEF s, e
  <2>6. ResponseItems(Append(l, x)) = AfterLine(ResponseItems(l), x)
    BY <2>2, ReadAppend DEF l, x
  <2>7. AfterItem(Filed(s), e) = Append(Filed(s), e)
    BY <2>3 DEF AfterItem, e
  <2>8. AfterLine(ResponseItems(l), x) = Append(ResponseItems(l), e)
    BY <2>3 DEF AfterLine, ItemLine, e, x
  <2>9. ResponseItems(lines(n + 1)) = Filed(items(n + 1))
    BY <2>1, <2>2, <2>4, <2>5, <2>6, <2>7, <2>8 DEF s, l, e, x
  <2> QED BY <2>3, <2>9
<1>5. Reads \in P
  <2> HIDE DEF P
  <2>1. 0..Reads \subseteq P
    BY <1>2, <1>3, <1>4, Induction
  <2> QED BY <1>2, <2>1
<1>6. items(Reads) = history' /\ lines(Reads) = rollout'
  BY <1>0, <1>2
<1> QED BY <1>5, <1>6

\* An item that goes to both.
LEMMA FiledOne ==
  ASSUME Core, NEW kind \in ItemKinds \ {"nudge"}, Append1(NewItem(kind)),
         ResponseItems(rollout) = Filed(history)
  PROVE  ResponseItems(rollout') = Filed(history')
<1> DEFINE item == NewItem(kind)
           line == ItemLine(item)
<1>1. item \in Item /\ item.kind # "nudge"
  BY ItemType DEF Core, NewItem
<1>2. line \in Line /\ line.type = "item" /\ line.item = item
  BY <1>1 DEF ItemLine, Line
<1>3. history' = Append(history, item) /\ rollout' = Append(rollout, line)
  BY DEF Append1
<1>4. history \in Seq(Item) /\ rollout \in Seq(Line)
  BY DEF Core, TypeOK, Line
<1> HIDE DEF item, line
<1>5. Filed(history') = Append(Filed(history), item)
  BY <1>1, <1>3, <1>4, FiledAppend DEF AfterItem
<1>6. ResponseItems(rollout') = Append(ResponseItems(rollout), item)
  BY <1>2, <1>3, <1>4, ReadAppend DEF AfterLine
<1> QED BY <1>5, <1>6

LEMMA FiledStep ==
  ASSUME Core, CallsInv, FiledInv, [Next]_vars
  PROVE  FiledInv'
<1>1. history \in Seq(Item) /\ rollout \in Seq(Line) /\ TypeOK
  BY DEF Core, TypeOK, Line
<1>2. CASE \E answer \in Answers : Answer(answer)
  <2>1. PICK answer \in Answers : Answer(answer)
    BY <1>2
  <2> DEFINE kind == IF answer.calls = <<>> THEN "text" ELSE "calls"
             item == NewItem(kind)
             seen == Append(Seen(request), item)
             line == HandleLine(NewHandle(request, seen))
  <2>2. history' = Append(history, item) /\ rollout' = Append(rollout, line)
    BY <2>1 DEF Answer
  <2>3. item \in Item /\ item.kind # "nudge" /\ Last' = item
    <3>1. kind \in ItemKinds /\ kind # "nudge"
      BY DEF ItemKinds
    <3> QED BY <1>1, <2>2, <3>1, ItemType, AddsOne DEF Adds
  <2>4. line \in Line /\ line.type = "handle"
    <3>1. request \in Request
      BY <2>1 DEF Core, RequestInv, Answer
    <3>2. seen \in Seq(Item)
      BY <1>1, <2>3, <3>1, SeenType, AppendProperties
    <3>3. NewHandle(request, seen) \in Handle
      BY <1>1, <3>1, <3>2, SeenType DEF NewHandle, Handle
    <3> QED BY <3>3 DEF HandleLine, Line
  <2>5. pc = "request" /\ pc' = "assistant"
    BY <2>1 DEF Answer
  <2> HIDE DEF item, line
  <2>6. Filed(history') = Append(Filed(history), item)
    BY <1>1, <2>2, <2>3, FiledAppend DEF AfterItem
  <2>7. ResponseItems(rollout') = ResponseItems(rollout)
    BY <1>1, <2>2, <2>4, ReadAppend DEF AfterLine
  <2> QED BY <2>3, <2>5, <2>6, <2>7 DEF FiledInv
<1>3. CASE PersistAssistant
  <2> DEFINE line == ItemLine(Last)
  <2>1. rollout' = Append(rollout, line) /\ UNCHANGED history /\ pc = "assistant" /\ pc' = "reply"
    BY <1>3 DEF PersistAssistant, Last
  <2>2. Last \in Item
    BY <1>1, LenProperties, EmptySeq DEF Core, Last
  <2>3. line \in Line /\ line.type = "item" /\ line.item = Last
    BY <2>2 DEF ItemLine, Line
  <2> HIDE DEF line
  <2>4. ResponseItems(rollout') = Append(ResponseItems(rollout), Last)
    BY <1>1, <2>1, <2>3, ReadAppend DEF AfterLine
  <2> QED BY <2>1, <2>4 DEF FiledInv
<1>4. CASE Nudge
  <2>1. UNCHANGED rollout /\ pc = "reply"
    BY <1>4 DEF Nudge
  <2>2. CASE pc' = "done"
    BY <2>2 DEF FiledInv
  <2>3. CASE pc' # "done"
    <3> DEFINE item == NewItem("nudge")
    <3>1. history' = Append(history, item) /\ pc' = "loop"
      BY <1>4, <2>3 DEF Nudge, Stop
    <3>2. item \in Item /\ item.kind = "nudge"
      BY <1>1, ItemType DEF NewItem, ItemKinds
    <3> HIDE DEF item
    <3>3. Filed(history') = Filed(history)
      BY <1>1, <3>1, <3>2, FiledAppend DEF AfterItem
    <3> QED BY <2>1, <3>1, <3>3 DEF FiledInv
  <2> QED BY <2>2, <2>3
<1>5. CASE AppendResults \/ AppendFeedback \/ AppendAdvice
  <2>1. pc \in Working /\ pc' # "assistant"
    BY <1>5 DEF AppendResults, AppendFeedback, AppendAdvice, Working, Stop
  <2>2. \/ UNCHANGED <<history, rollout>>
        \/ \E kind \in {"results", "feedback", "advice"} : Append1(NewItem(kind))
    BY <1>5 DEF AppendResults, AppendFeedback, AppendAdvice
  <2>3. ResponseItems(rollout') = Filed(history')
    BY <2>1, <2>2, FiledOne DEF FiledInv, ItemKinds, Working
  <2> QED BY <2>1, <2>3 DEF FiledInv
<1>6. CASE AppendRecovery
  <2>1. pc = "recovery" /\ pc' = "advice"
    BY <1>6 DEF AppendRecovery
  <2>2. ResponseItems(rollout') = Filed(history')
    BY <1>6, <2>1, RecoveryFiled DEF FiledInv
  <2> QED BY <2>1, <2>2 DEF FiledInv
<1>7. CASE StopAtTop \/ SendRequest \/ ResumeFails \/ GenerateFails \/ StreamCut \/ EndTurn
           \/ (\E n \in 1..MaxCalls, fb \in Feedbacks : \E calls \in [1..n -> Call] : RunBatch(calls, fb))
           \/ Abort \/ UNCHANGED vars
  <2>1. /\ UNCHANGED <<history, rollout>>
        /\ pc' # "done" /\ pc' # "assistant" => pc \notin {"assistant", "done"}
        /\ pc' = "assistant" => pc = "assistant"
    BY <1>7 DEF StopAtTop, SendRequest, ResumeFails, GenerateFails, StreamCut, EndTurn, RunBatch,
       Abort, Stop, vars, runVars
  <2> QED BY <2>1 DEF FiledInv, Last
<1> QED BY <1>2, <1>3, <1>4, <1>5, <1>6, <1>7 DEF Next, RunnerStep, Done

-----------------------------------------------------------------------------
(***************************************************************************)
(* The tools that are held back.                                           *)
(***************************************************************************)
Held(calls, t) == \E last \in Tried(calls, t) : Earns(calls, t, last)
\* By a failure of this turn.
HeldNow(calls, t) == \E last \in Tried(calls, t) : Earns(calls, t, last) /\ calls[last].turn = turnsRun
\* The count of bad arguments is of failures that really end the log.
Failing(calls, t, entry) ==
  \E last \in Tried(calls, t) :
    /\ \A i \in Tried(calls, t) : i <= last
    /\ calls[last].status = entry.signature /\ Cardinality(Row(calls, t, last)) >= entry.count

SuppressionInv ==
  /\ SuppressionEarned
  /\ pc \in {"request", "assistant", "reply"} =>
       suppressed = {} /\ \A t \in Tools \ request.active : Held(log, t)
  /\ \A t \in Tools : badArgs[t] # None => Failing(log, t, badArgs[t])

\* What one more call on the log does to what a tool has tried.
LEMMA LogGrows ==
  ASSUME NEW calls \in Seq(Logged), NEW e \in Logged, NEW t
  PROVE  /\ Append(calls, e) \in Seq(Logged)
         /\ Len(calls) \in Nat /\ Append(calls, e)[Len(calls) + 1] = e
         /\ \A i \in Tried(calls, t) : i \in 1..Len(calls) /\ Append(calls, e)[i] = calls[i]
         /\ e.tool = t /\ e.status \in Signatures \cup {"ok"} =>
              Tried(Append(calls, e), t) = Tried(calls, t) \cup {Len(calls) + 1}
         /\ ~(e.tool = t /\ e.status \in Signatures \cup {"ok"}) =>
              Tried(Append(calls, e), t) = Tried(calls, t)
<1> DEFINE more == Append(calls, e)
           N == Len(calls)
<1>1. /\ more \in Seq(Logged) /\ Len(more) = N + 1 /\ more[N + 1] = e /\ N \in Nat
      /\ \A i \in 1..N : more[i] = calls[i]
      /\ DOMAIN more = 1..N + 1 /\ DOMAIN calls = 1..N
  BY AppendProperties, LenProperties
<1>2. 1..N + 1 = (1..N) \cup {N + 1}
  BY <1>1
<1> HIDE DEF more, N
<1>3. Tried(more, t) = {i \in 1..N : calls[i].tool = t /\ calls[i].status \in Signatures \cup {"ok"}}
                       \cup {i \in {N + 1} : e.tool = t /\ e.status \in Signatures \cup {"ok"}}
  BY <1>1, <1>2 DEF Tried
<1>4. Tried(calls, t) = {i \in 1..N : calls[i].tool = t /\ calls[i].status \in Signatures \cup {"ok"}}
  BY <1>1 DEF Tried
<1>5. \A i \in Tried(calls, t) : i \in 1..N /\ more[i] = calls[i]
  BY <1>1, <1>4
<1> QED BY <1>1, <1>3, <1>4, <1>5 DEF more, N

\* It leaves a row that ended before, and what that row earned, unless the
\* tool works in a later turn.
LEMMA RowKept ==
  ASSUME NEW calls \in Seq(Logged), NEW e \in Logged, NEW t, NEW last \in Tried(calls, t)
  PROVE  /\ last \in Tried(Append(calls, e), t) /\ Append(calls, e)[last] = calls[last]
         /\ Row(Append(calls, e), t, last) = Row(calls, t, last)
         /\ Earns(calls, t, last) /\ (e.tool = t /\ e.status = "ok" => e.turn = calls[last].turn)
              => Earns(Append(calls, e), t, last)
<1> DEFINE more == Append(calls, e)
           old == Tried(calls, t)
           new == Tried(more, t)
           N == Len(calls)
<1>1. /\ N \in Nat /\ more[N + 1] = e
      /\ \A i \in old : i \in 1..N /\ more[i] = calls[i]
      /\ new = old \cup {N + 1} \/ new = old
      /\ new = old \cup {N + 1} => e.tool = t \/ new = old
  BY LogGrows
<1>2. \A i \in new : i \in old \/ (i = N + 1 /\ e.tool = t /\ ~(i <= last))
  BY <1>1
<1>3. old \subseteq new
  BY <1>1
<1>4. Row(calls, t, last) =
        {i \in old : i <= last /\ \A j \in old : i <= j /\ j <= last => calls[j].status = calls[last].status}
  BY DEF Row
<1>5. Row(more, t, last) =
        {i \in new : i <= last /\ \A j \in new : i <= j /\ j <= last => more[j].status = more[last].status}
  BY DEF Row
<1> HIDE DEF more, old, new, N
<1>6. Row(more, t, last) = Row(calls, t, last)
  <2>1. \A j \in new : j <= last => j \in old
    BY <1>2
  <2>2. last \in old /\ more[last] = calls[last] /\ \A j \in old : more[j] = calls[j]
    BY <1>1 DEF old
  <2> QED BY <1>3, <1>4, <1>5, <2>1, <2>2
<1>7. last \in new /\ more[last] = calls[last]
  BY <1>1, <1>3 DEF old
<1>8. ASSUME Earns(calls, t, last), e.tool = t /\ e.status = "ok" => e.turn = calls[last].turn
      PROVE  Earns(more, t, last)
  <2>1. /\ calls[last].status # "ok" /\ Cardinality(Row(calls, t, last)) >= SuppressAfter
        /\ OnlyEmpty => calls[last].status = "empty"
        /\ \A i \in old : i > last /\ calls[i].status = "ok" => calls[i].turn = calls[last].turn
    BY <1>8 DEF Earns, old
  <2>2. \A i \in new : i > last /\ more[i].status = "ok" => more[i].turn = more[last].turn
    BY <1>1, <1>2, <1>7, <1>8, <2>1
  <2> QED BY <1>6, <1>7, <2>1, <2>2 DEF Earns, new
<1> QED BY <1>6, <1>7, <1>8 DEF more, new

\* A failure starts a row, or lengthens the one that ends the log.
LEMMA RowGrows ==
  ASSUME NEW calls \in Seq(Logged), NEW e \in Logged, NEW t, e.tool = t, e.status \in Signatures
  PROVE  /\ Len(calls) + 1 \in Tried(Append(calls, e), t)
         /\ \A i \in Tried(Append(calls, e), t) : i <= Len(calls) + 1
         /\ Cardinality(Row(Append(calls, e), t, Len(calls) + 1)) >= 1
         /\ \A entry : \A n \in Nat : entry.count = n /\ entry.signature = e.status /\ Failing(calls, t, entry) =>
              Cardinality(Row(Append(calls, e), t, Len(calls) + 1)) >= n + 1
<1> DEFINE more == Append(calls, e)
           old == Tried(calls, t)
           new == Tried(more, t)
           N == Len(calls)
           row == Row(more, t, N + 1)
<1>1. /\ N \in Nat /\ more[N + 1] = e /\ new = old \cup {N + 1}
      /\ \A i \in old : i \in 1..N /\ more[i] = calls[i]
  <2>1. e.tool = t /\ e.status \in Signatures \cup {"ok"}
    OBVIOUS
  <2>2. /\ N \in Nat /\ more[N + 1] = e
        /\ \A i \in old : i \in 1..N /\ more[i] = calls[i]
    <3>1. N \in Nat /\ more[N + 1] = e
      BY LogGrows
    <3>2. \A i \in old : i \in 1..N /\ more[i] = calls[i]
      BY LogGrows
    <3> QED BY <3>1, <3>2
  <2>3. new = old \cup {N + 1}
    <3> HIDE DEF row
    <3>1. Tried(Append(calls, e), t) = Tried(calls, t) \cup {Len(calls) + 1}
      BY <2>1, LogGrows, ZenonT(30)
    <3> QED BY <3>1
  <2> QED BY <2>1, <2>2, <2>3
<1>2. row = {i \in new : i <= N + 1 /\ \A j \in new : i <= j /\ j <= N + 1 => more[j].status = more[N + 1].status}
  BY DEF Row
<1> HIDE DEF more, old, new, N, row
<1>3. IsFiniteSet(1..N + 1)
  <2>1. N + 1 \in Int /\ 1 \in Int
    BY <1>1
  <2> QED BY <2>1, FS_Interval
<1>4. \A i \in old : 1 <= i /\ i <= N /\ i \in Nat
  BY <1>1
<1>5. \A i \in new : i \in 1..N + 1 /\ i <= N + 1
  BY <1>1, <1>4
<1>6. N + 1 \in row
  <2>1. N + 1 \in new /\ N + 1 <= N + 1
    BY <1>1
  <2>2. \A j \in new : N + 1 <= j => j = N + 1
    BY <1>1, <1>4
  <2> QED BY <1>2, <2>1, <2>2
<1>7. row \subseteq 1..N + 1
  BY <1>2, <1>5
<1>8. IsFiniteSet(row)
  BY <1>3, <1>7, FS_Subset
<1>9. Cardinality(row) >= 1
  <2>1. Cardinality(row) \in Nat
    BY <1>8, FS_CardinalityType
  <2>2. Cardinality(row) = 0 => row = {}
    BY <1>8, FS_EmptySet
  <2>3. Cardinality(row) # 0
    BY <1>6, <2>2
  <2> QED BY <2>1, <2>3
<1>10. ASSUME NEW entry, NEW n \in Nat, entry.count = n, entry.signature = e.status, Failing(calls, t, entry)
       PROVE  Cardinality(row) >= n + 1
  <2>1. PICK last \in old : /\ \A i \in old : i <= last
                            /\ calls[last].status = e.status
                            /\ Cardinality(Row(calls, t, last)) >= n
    BY <1>10 DEF Failing, old
  <2> DEFINE before == Row(calls, t, last)
  <2>2. before = {i \in old : i <= last /\ \A j \in old : i <= j /\ j <= last =>
                                             calls[j].status = calls[last].status}
    BY DEF Row, old
  <2> HIDE DEF before
  <2>3. before \subseteq row
    <3> SUFFICES ASSUME NEW i \in before PROVE i \in row
      OBVIOUS
    <3>1. i \in old /\ i \in new /\ i <= N + 1
      BY <1>1, <1>5, <2>2
    <3>2. ASSUME NEW j \in new, i <= j
          PROVE  more[j].status = more[N + 1].status
      <4>1. CASE j = N + 1
        BY <4>1
      <4>2. CASE j \in old
        BY <1>1, <2>1, <2>2, <3>2, <4>2
      <4> QED BY <1>1, <4>1, <4>2
    <3> QED BY <1>2, <3>1, <3>2
  <2>4. N + 1 \notin before
    BY <1>1, <1>4, <2>2
  <2>5. IsFiniteSet(before)
    BY <1>8, <2>3, FS_Subset
  <2>6. IsFiniteSet(before \cup {N + 1}) /\ Cardinality(before \cup {N + 1}) = Cardinality(before) + 1
    BY <2>4, <2>5, FS_AddElement
  <2>7. before \cup {N + 1} \subseteq row
    BY <1>6, <2>3
  <2>8. Cardinality(before \cup {N + 1}) <= Cardinality(row)
    BY <1>8, <2>7, FS_Subset
  <2>9. Cardinality(before) \in Nat /\ Cardinality(row) \in Nat /\ Cardinality(before) >= n
    BY <1>8, <2>1, <2>5, FS_CardinalityType DEF before
  <2> QED BY <2>6, <2>8, <2>9
<1> QED BY <1>1, <1>5, <1>9, <1>10 DEF more, new, N, row

\* What a batch keeps up, call by call: B are its books, calls the log so far.
BatchInv(B, calls) ==
  /\ \A t \in B.suppressed : t \in request.active => HeldNow(calls, t)
  /\ \A t \in Tools \ request.active : Held(calls, t)
  /\ \A t \in Tools : B.badArgs[t] # None => Failing(calls, t, B.badArgs[t])

Entry(call) == [tool |-> call.tool, status |-> call.status, turn |-> turnsRun]

LEMMA BookStep ==
  ASSUME TypeOK, NEW B \in Books, NEW calls \in Seq(Logged), NEW c \in Call,
         c.status \in Outcomes(c.tool), BatchInv(B, calls)
  PROVE  BatchInv(AfterCall(B, c), Append(calls, Entry(c)))
<1> DEFINE e == Entry(c)
           more == Append(calls, e)
           tool == c.tool
           after == AfterCall(B, c)
<1>1. /\ e \in Logged /\ e.tool = tool /\ e.status = c.status /\ e.turn = turnsRun
      /\ tool \in Tools /\ c.status \in Statuses
  BY LimitsAssumption DEF TypeOK, Call, Logged, Entry
<1>2. tool \notin request.active <=> c.status = "unavailable"
  BY ModesAssumption DEF Outcomes
<1>3. \A t \in Tools \ request.active : Held(more, t)
  <2> SUFFICES ASSUME NEW t \in Tools \ request.active PROVE Held(more, t)
    OBVIOUS
  <2>1. PICK last \in Tried(calls, t) : Earns(calls, t, last)
    BY DEF BatchInv, Held
  <2>2. e.tool = t => e.status # "ok"
    BY <1>1, <1>2
  <2> HIDE DEF e
  <2>3. last \in Tried(more, t) /\ Earns(more, t, last)
    BY <1>1, <2>1, <2>2, RowKept
  <2> QED BY <2>3 DEF Held
<1>4. ASSUME NEW t, HeldNow(calls, t) PROVE HeldNow(more, t)
  <2>1. PICK last \in Tried(calls, t) : Earns(calls, t, last) /\ calls[last].turn = turnsRun
    BY <1>4 DEF HeldNow
  <2> HIDE DEF e
  <2>2. last \in Tried(more, t) /\ Earns(more, t, last) /\ more[last] = calls[last]
    BY <1>1, <2>1, RowKept
  <2> QED BY <2>1, <2>2 DEF HeldNow
<1>5. ASSUME NEW t, NEW entry, Failing(calls, t, entry),
             ~(e.tool = t /\ e.status \in Signatures \cup {"ok"})
      PROVE  Failing(more, t, entry)
  <2>1. PICK last \in Tried(calls, t) :
          /\ \A i \in Tried(calls, t) : i <= last
          /\ calls[last].status = entry.signature /\ Cardinality(Row(calls, t, last)) >= entry.count
    BY <1>5 DEF Failing
  <2> HIDE DEF e
  <2>2. Tried(more, t) = Tried(calls, t)
    BY <1>1, <1>5, LogGrows
  <2>3. more[last] = calls[last] /\ Row(more, t, last) = Row(calls, t, last)
    BY <1>1, RowKept
  <2> QED BY <2>1, <2>2, <2>3 DEF Failing
<1> HIDE DEF e, more
<1>6. CASE c.status \in Signatures
  <2> DEFINE entry == Recorded(B.badArgs[tool], c.status)
             m == Len(calls) + 1
  <2>1. after = [badArgs    |-> [B.badArgs EXCEPT ![tool] = entry],
                 suppressed |-> IF MaySuppress(entry) THEN B.suppressed \cup {tool} ELSE B.suppressed]
    BY <1>6 DEF AfterCall, AfterFailure, Signatures
  <2>2. /\ m \in Tried(more, tool) /\ more[m] = e /\ \A i \in Tried(more, tool) : i <= m
        /\ Cardinality(Row(more, tool, m)) >= 1
    <3>1. m \in Tried(more, tool) /\ (\A i \in Tried(more, tool) : i <= m)
          /\ Cardinality(Row(more, tool, m)) >= 1
      BY <1>1, <1>6, RowGrows DEF more
    <3>2. more[m] = e
      BY <1>1, LogGrows DEF more
    <3> QED BY <3>1, <3>2
  <2>3. /\ entry.signature = c.status
        /\ Cardinality(Row(more, tool, m)) >= entry.count
    <3>1. CASE B.badArgs[tool] # None /\ B.badArgs[tool].signature = c.status
      <4> DEFINE old == B.badArgs[tool]
      <4>1. old \in [signature : Signatures, count : Nat] /\ Failing(calls, tool, old)
        BY <1>1, <3>1 DEF BatchInv, Books, BadArgs
      <4>2. entry = [signature |-> c.status, count |-> old.count + 1]
        BY <3>1, <4>1 DEF Recorded
      <4> HIDE DEF old, entry
      <4>3. Cardinality(Row(more, tool, m)) >= old.count + 1
        <5>1. old.count \in Nat /\ old.signature = e.status
          BY <1>1, <3>1, <4>1 DEF old
        <5>2. \A x : \A n \in Nat : x.count = n /\ x.signature = e.status /\ Failing(calls, tool, x) =>
                Cardinality(Row(more, tool, m)) >= n + 1
          BY <1>1, <1>6, RowGrows DEF more
        <5> QED BY <4>1, <5>1, <5>2
      <4> QED BY <4>2, <4>3
    <3>2. CASE ~(B.badArgs[tool] # None /\ B.badArgs[tool].signature = c.status)
      <4>1. entry = [signature |-> c.status, count |-> 1]
        BY <3>2 DEF Recorded
      <4> QED BY <2>2, <4>1
    <3> QED BY <3>1, <3>2
  <2> HIDE DEF entry
  <2>4. Failing(more, tool, entry)
    BY <1>1, <2>2, <2>3 DEF Failing
  <2>5. MaySuppress(entry) => HeldNow(more, tool)
    <3> SUFFICES ASSUME MaySuppress(entry) PROVE HeldNow(more, tool)
      OBVIOUS
    <3>1. IsFiniteSet(Row(more, tool, m)) /\ Cardinality(Row(more, tool, m)) \in Nat
      <4>1. more \in Seq(Logged)
        BY <1>1, LogGrows DEF more
      <4>2. Len(more) \in Nat /\ DOMAIN more = 1..Len(more)
        BY <4>1, LenProperties
      <4>3. IsFiniteSet(1..Len(more)) /\ Row(more, tool, m) \subseteq 1..Len(more)
        <5>1. Row(more, tool, m) \subseteq DOMAIN more
          BY DEF Row, Tried
        <5> QED BY <4>2, <5>1, FS_Interval
      <4> QED BY <4>3, FS_Subset, FS_CardinalityType
    <3>2. entry.count \in Nat
      BY <1>1 DEF Books, BadArgs, Recorded, entry
    <3>3. Cardinality(Row(more, tool, m)) >= SuppressAfter
      BY <2>3, <3>1, <3>2, LimitsAssumption DEF MaySuppress
    <3>4. /\ more[m].status = c.status /\ c.status # "ok" /\ more[m].turn = turnsRun
          /\ OnlyEmpty => c.status = "empty"
      BY <1>1, <1>6, <2>2, <2>3 DEF MaySuppress, Signatures
    <3>5. \A i \in Tried(more, tool) : ~(i > m)
      <4>1. m \in Nat /\ \A i \in Tried(more, tool) : i \in Nat
        <5>1. more \in Seq(Logged) /\ Len(calls) \in Nat
          BY <1>1, LogGrows DEF more
        <5>2. DOMAIN more = 1..Len(more)
          BY <5>1, LenProperties
        <5> QED BY <5>1, <5>2 DEF Tried
      <4> QED BY <2>2, <4>1
    <3>6. Earns(more, tool, m)
      BY <3>3, <3>4, <3>5 DEF Earns
    <3> QED BY <2>2, <3>4, <3>6 DEF HeldNow
  <2>6. \A t \in after.suppressed : t \in request.active => HeldNow(more, t)
    BY <1>4, <2>1, <2>5 DEF BatchInv
  <2>7. ASSUME NEW t \in Tools, after.badArgs[t] # None
        PROVE  Failing(more, t, after.badArgs[t])
    <3>1. B.badArgs \in BadArgs
      BY DEF Books
    <3>2. CASE t = tool
      BY <1>1, <2>1, <2>4, <3>1, <3>2 DEF BadArgs
    <3>3. CASE t # tool
      <4>1. after.badArgs[t] = B.badArgs[t]
        BY <2>1, <3>1, <3>3 DEF BadArgs
      <4> QED BY <1>1, <1>5, <2>7, <3>3, <4>1 DEF BatchInv
    <3> QED BY <3>2, <3>3
  <2> QED BY <1>3, <2>6, <2>7 DEF BatchInv, more, e
<1>7. CASE c.status = "unavailable"
  <2>1. after.badArgs = B.badArgs /\ after.suppressed \subseteq B.suppressed \cup {tool}
    BY <1>7 DEF AfterCall, AfterRefusal, Signatures, Books
  <2>2. \A t \in after.suppressed : t \in request.active => HeldNow(more, t)
    BY <1>2, <1>4, <1>7, <2>1 DEF BatchInv
  <2>3. \A t \in Tools : B.badArgs[t] # None => Failing(more, t, B.badArgs[t])
    BY <1>1, <1>5, <1>7 DEF BatchInv, Signatures
  <2> QED BY <1>3, <2>1, <2>2, <2>3 DEF BatchInv, more, e
<1>8. CASE c.status = "ok"
  <2>1. after = [B EXCEPT !.badArgs[tool] = None]
    BY <1>8 DEF AfterCall, Signatures
  <2>2. /\ after.suppressed = B.suppressed
        /\ after.badArgs[tool] = None /\ \A t \in Tools \ {tool} : after.badArgs[t] = B.badArgs[t]
    BY <1>1, <2>1 DEF Books, BadArgs
  <2>3. \A t \in after.suppressed : t \in request.active => HeldNow(more, t)
    BY <1>4, <2>2 DEF BatchInv
  <2>4. \A t \in Tools : after.badArgs[t] # None => Failing(more, t, after.badArgs[t])
    BY <1>1, <1>5, <2>2 DEF BatchInv
  <2> QED BY <1>3, <2>3, <2>4 DEF BatchInv, more, e
<1>9. CASE c.status \notin Signatures \cup {"unavailable", "ok"}
  <2>1. after = B
    BY <1>9 DEF AfterCall
  <2>2. \A t \in Tools : B.badArgs[t] # None => Failing(more, t, B.badArgs[t])
    BY <1>1, <1>5, <1>9 DEF BatchInv
  <2> QED BY <1>3, <1>4, <2>1, <2>2 DEF BatchInv, more, e
<1> QED BY <1>6, <1>7, <1>8, <1>9

LEMMA BatchSuppression ==
  ASSUME Core, SuppressionInv, NEW n \in 1..MaxCalls, NEW fb \in Feedbacks,
         NEW calls \in [1..n -> Call], RunBatch(calls, fb)
  PROVE  BatchInv(AfterBatch(calls), log')
<1> DEFINE booked == [i \in DOMAIN calls |-> Entry(calls[i])]
           sofar(k) == log \o SubSeq(booked, 1, k)
           P == {k \in 0..n : BatchInv(Book(calls)[k], sofar(k))}
<1>1. /\ TypeOK /\ calls \in Seq(Call) /\ Len(calls) = n /\ n \in Nat /\ DOMAIN calls = 1..n
      /\ badArgs \in BadArgs /\ suppressed \subseteq Tools /\ log \in Seq(Logged)
  BY BatchType DEF Core, TypeOK, BadArgs
<1>2. /\ Book(calls)[0] = [badArgs |-> badArgs, suppressed |-> suppressed]
      /\ \A k \in 1..n : Book(calls)[k] = AfterCall(Book(calls)[k - 1], calls[k])
      /\ \A k \in 0..n : Book(calls)[k] \in Books
      /\ AfterBatch(calls) = Book(calls)[n]
  <2>1. /\ Book(calls)[0] = [badArgs |-> badArgs, suppressed |-> suppressed]
        /\ \A k \in 1..Len(calls) : Book(calls)[k] = AfterCall(Book(calls)[k - 1], calls[k])
        /\ \A k \in 0..Len(calls) : Book(calls)[k] \in Books
    BY <1>1, BookExists
  <2> QED BY <1>1, <2>1, BatchIsBook
<1>3. booked \in Seq(Logged) /\ Len(booked) = n /\ \A k \in 1..n : booked[k] = Entry(calls[k])
  <2>1. booked \in [1..n -> Logged] /\ \A k \in 1..n : booked[k] = Entry(calls[k])
    BY <1>1, LimitsAssumption DEF Entry, Logged, Call, TypeOK
  <2> HIDE DEF booked
  <2> QED BY <1>1, <2>1
<1>4. log' = log \o booked
  BY DEF RunBatch, Entry
<1>5. \A k \in 1..n : calls[k].status \in Outcomes(calls[k].tool)
  BY <1>1 DEF RunBatch
<1> HIDE DEF booked
<1>6. sofar(0) = log /\ sofar(n) = log'
  <2>1. log \o SubSeq(booked, 1, 0) = log /\ log \o SubSeq(booked, 1, Len(booked)) = log \o booked
    BY <1>1, <1>3, NoneFurther
  <2> QED BY <1>3, <1>4, <2>1
<1>7. BatchInv(Book(calls)[0], log)
  <2>1. suppressed = {} /\ \A t \in Tools \ request.active : Held(log, t)
    BY DEF SuppressionInv, RunBatch
  <2>2. Book(calls)[0].badArgs = badArgs /\ Book(calls)[0].suppressed = {}
    BY <1>2, <2>1
  <2> QED BY <2>1, <2>2 DEF BatchInv, SuppressionInv
<1>8. 0 \in P
  <2> HIDE DEF sofar
  <2> QED BY <1>1, <1>6, <1>7
<1>9. ASSUME NEW k \in 0..n - 1, k \in P
      PROVE  k + 1 \in P
  <2>1. k + 1 \in 1..n /\ k + 1 \in 0..n /\ (k + 1) - 1 = k /\ k \in 0..n
    BY <1>1
  <2>2. /\ sofar(k) \in Seq(Logged)
        /\ sofar(k + 1) = Append(sofar(k), booked[k + 1])
    BY <1>1, <1>3, OneFurther
  <2>3. booked[k + 1] = Entry(calls[k + 1]) /\ calls[k + 1] \in Call
        /\ calls[k + 1].status \in Outcomes(calls[k + 1].tool)
    BY <1>3, <1>5, <2>1
  <2>4. Book(calls)[k + 1] = AfterCall(Book(calls)[k], calls[k + 1]) /\ Book(calls)[k] \in Books
    BY <1>2, <2>1
  <2> HIDE DEF sofar
  <2>5. BatchInv(Book(calls)[k], sofar(k))
    BY <1>9
  <2>6. BatchInv(AfterCall(Book(calls)[k], calls[k + 1]), Append(sofar(k), Entry(calls[k + 1])))
    BY <1>1, <2>2, <2>3, <2>4, <2>5, BookStep
  <2> QED BY <2>1, <2>2, <2>3, <2>4, <2>6
<1>10. n \in P
  <2> HIDE DEF P
  <2>1. 0..n \subseteq P
    BY <1>1, <1>8, <1>9, Induction
  <2> QED BY <1>1, <2>1
<1> HIDE DEF sofar
<1> QED BY <1>2, <1>6, <1>10

LEMMA SuppressionStep ==
  ASSUME Core, SuppressionInv, [Next]_vars
  PROVE  SuppressionInv'
<1>1. CASE \E n \in 1..MaxCalls, fb \in Feedbacks : \E calls \in [1..n -> Call] : RunBatch(calls, fb)
  <2>1. PICK n \in 1..MaxCalls, fb \in Feedbacks : \E calls \in [1..n -> Call] : RunBatch(calls, fb)
    BY <1>1
  <2>2. PICK calls \in [1..n -> Call] : RunBatch(calls, fb)
    BY <2>1
  <2>3. BatchInv(AfterBatch(calls), log')
    BY <2>2, BatchSuppression
  <2>4. /\ suppressed' = AfterBatch(calls).suppressed /\ badArgs' = AfterBatch(calls).badArgs
        /\ pc' = "results"
    BY <2>2 DEF RunBatch
  <2>5. suppressed' \subseteq Tools
    BY <2>2, RunBatchType DEF TypeOK
  <2>6. \A t \in suppressed' : Held(log', t)
    <3> SUFFICES ASSUME NEW t \in suppressed' PROVE Held(log', t)
      OBVIOUS
    <3>1. CASE t \in request.active
      BY <2>3, <2>4, <3>1 DEF BatchInv, HeldNow, Held
    <3>2. CASE t \notin request.active
      BY <2>3, <2>5, <3>2 DEF BatchInv
    <3> QED BY <3>1, <3>2
  <2>7. \A t \in Tools : badArgs'[t] # None => Failing(log', t, badArgs'[t])
    BY <2>3, <2>4 DEF BatchInv
  <2> QED BY <2>4, <2>6, <2>7 DEF SuppressionInv, SuppressionEarned, Held
<1>2. CASE SendRequest
  <2>1. /\ UNCHANGED <<log, badArgs>> /\ suppressed' = {}
        /\ request'.active = Tools \ suppressed
    BY <1>2 DEF SendRequest
  <2>2. \A t \in Tools \ request'.active : t \in suppressed
    BY <2>1
  <2>3. \A t \in suppressed : Held(log, t)
    BY DEF SuppressionInv, SuppressionEarned, Held
  <2> QED BY <2>1, <2>2, <2>3 DEF SuppressionInv, SuppressionEarned
<1>3. CASE ~SendRequest /\ ~\E n \in 1..MaxCalls, fb \in Feedbacks : \E calls \in [1..n -> Call] : RunBatch(calls, fb)
  <2>1. /\ UNCHANGED <<log, badArgs, suppressed>>
        /\ pc' \in {"request", "assistant", "reply"} =>
             pc \in {"request", "assistant", "reply"} /\ UNCHANGED request
    BY <1>3 DEF Next, RunnerStep, Done, vars, runVars, guards, Abort, StopAtTop, ResumeFails,
       GenerateFails, StreamCut, Answer, PersistAssistant, Nudge, EndTurn, Stop,
       AppendResults, AppendFeedback, AppendRecovery, AppendAdvice
  <2> QED BY <2>1 DEF SuppressionInv, SuppressionEarned
<1> QED BY <1>1, <1>2, <1>3

-----------------------------------------------------------------------------
(***************************************************************************)
(* The invariant and what follows from it.                                 *)
(***************************************************************************)
IInv == Core /\ CallsInv /\ HandleInv /\ AnsweredInv /\ NudgeInv /\ FiledInv /\ SuppressionInv

LEMMA InitFiled == Init => ResponseItems(rollout) = Filed(history)
<1> SUFFICES ASSUME Init PROVE ResponseItems(rollout) = Filed(history)
  OBVIOUS
<1> DEFINE item == [kind |-> "user", n |-> 1]
           line == ItemLine(item)
<1>1. item \in Item /\ item.kind = "user"
  BY DEF Item, ItemKinds
<1>2. line \in Line /\ line.type = "item" /\ line.item = item
  BY <1>1 DEF ItemLine, Line
<1>3. history = <<item>> /\ rollout = <<line>>
  BY DEF Init
<1> HIDE DEF item, line
<1>4. <<item>> = Append(<<>>, item) /\ <<line>> = Append(<<>>, line)
  OBVIOUS
<1>5. <<>> \in Seq(Item) /\ <<>> \in Seq(Line)
  BY EmptySeq
<1>6. Filed(<<>>) = <<>> /\ ResponseItems(<<>>) = <<>>
  <2>1. Filed(<<>>) = Keep(<<>>)[0] /\ ResponseItems(<<>>) = Read(<<>>)[0]
    <3>1. Len(<<>>) = 0
      OBVIOUS
    <3> QED BY <3>1 DEF Filed, Keep, ResponseItems, Read
  <2> QED BY <1>5, <2>1, FiledExists, ReadExists
<1>7. Filed(Append(<<>>, item)) = AfterItem(<<>>, item)
  BY <1>1, <1>5, <1>6, FiledAppend
<1>8. ResponseItems(Append(<<>>, line)) = AfterLine(<<>>, line)
  BY <1>2, <1>5, <1>6, ReadAppend
<1> QED BY <1>1, <1>2, <1>3, <1>4, <1>7, <1>8 DEF AfterItem, AfterLine

LEMMA InitInv == Init => IInv
<1> SUFFICES ASSUME Init PROVE IInv
  OBVIOUS
<1> DEFINE item == [kind |-> "user", n |-> 1]
<1>1. item \in Item /\ ItemLine(item) \in Line /\ item.kind = "user"
  BY DEF Item, ItemKinds, ItemLine, Line
<1>2. history = <<item>> /\ rollout = <<ItemLine(item)>> /\ seeded = 1 /\ made = 1
  BY DEF Init
<1> HIDE DEF item
<1>3. history \in Seq(Item) /\ Len(history) = 1 /\ history[1] = item /\ rollout \in Seq(Line) /\ history # <<>>
  BY <1>1, <1>2
<1>4. TypeOK
  <2>1. convs \in [Convs -> Seq(Item)] /\ log \in Seq(Logged) /\ NoReply \in Reply
    BY EmptySeq DEF Init, Fresh, NoReply, Reply
  <2>2. badArgs \in [Tools -> [signature : Signatures, count : Nat] \cup {None}]
    BY DEF Init, Fresh
  <2>3. /\ seeded \in 0..Len(history) /\ delivered \in 0..Len(history) /\ made \in Nat
        /\ turnsRun \in 0..MaxTurns /\ strikes \in 0..MaxStrikes /\ patchFails \in Nat
    BY <1>2, <1>3, LimitsAssumption DEF Init, Fresh
  <2>4. /\ provider \in Providers /\ conv \in Convs \cup {None} /\ handle = None /\ request = None
        /\ force \in BOOLEAN /\ aborted \in BOOLEAN /\ suppressed = {} /\ reply = NoReply
        /\ searches \in [count : Nat, advised : BOOLEAN]
    BY DEF Init, Fresh
  <2>5. feedback \in Feedbacks /\ pc \in Stages /\ reason \in Reasons
    BY ModesAssumption DEF Init, Fresh, Stages, Reasons
  <2> QED
    BY <1>3, <2>1, <2>2, <2>3, <2>4, <2>5 DEF TypeOK, Line
<1>5. Answered = {} /\ Talk = {}
  BY <1>2, <1>3 DEF Answered, Talk
<1>6. Cardinality(Answered) = 0 /\ Cardinality(Talk) = 0
  BY <1>5, FS_EmptySet
<1>7. /\ pc = "loop" /\ turnsRun = 0 /\ strikes = 0 /\ reason = "end_turn" /\ handle = None
      /\ suppressed = {} /\ badArgs = [t \in Tools |-> None]
  BY DEF Init, Fresh
<1>8. Counted
  BY <1>3, <1>6, <1>7, LimitsAssumption DEF Counted, RequestInv, TurnInv, StrikeInv, LoopEarned
<1>9. CallsInv /\ HandleInv
  BY <1>7 DEF CallsInv, HandleInv
<1>10. AnsweredInv /\ NudgeInv
  BY <1>1, <1>3, <1>7 DEF AnsweredInv, NudgeInv, ForcedAfterNudge, Last, Working
<1>11. FiledInv
  BY <1>7, InitFiled DEF FiledInv
<1>12. SuppressionInv
  BY <1>7 DEF SuppressionInv, SuppressionEarned
<1> QED BY <1>4, <1>8, <1>9, <1>10, <1>11, <1>12 DEF IInv, Core, Counted

LEMMA InvStep == IInv /\ [Next]_vars => IInv'
<1> SUFFICES ASSUME IInv, [Next]_vars PROVE IInv'
  OBVIOUS
<1>1. Core /\ CallsInv /\ HandleInv /\ AnsweredInv /\ NudgeInv /\ FiledInv /\ SuppressionInv
  BY DEF IInv
<1>2. Core' /\ CallsInv'
  BY <1>1, CoreStep
<1>3. HandleInv' /\ AnsweredInv'
  BY <1>1, HandleStep, AnsweredStep
<1>4. NudgeInv' /\ FiledInv' /\ SuppressionInv'
  BY <1>1, NudgeStep, FiledStep, SuppressionStep
<1> QED BY <1>2, <1>3, <1>4 DEF IInv

LEMMA Invariance == Spec => []IInv
BY InitInv, InvStep, PTL DEF Spec

\* The types, for any tools, limits and faults.
THEOREM TypeCorrect == Spec => []TypeOK
<1>1. IInv => TypeOK
  BY DEF IInv, Core
<1> QED BY <1>1, Invariance, PTL

\* What the model is shown without a conversation is the history, each item
\* once and in order, and what goes on file is the history but for the nudges.
THEOREM HistoryIsTold == Spec => []HistoryTold
<1>1. IInv => HistoryTold
  <2> SUFFICES ASSUME IInv PROVE HistoryTold
    OBVIOUS
  <2>1. TypeOK
    BY DEF IInv, Core
  <2>2. TranscriptComplete
    BY DEF IInv, FiledInv, TranscriptComplete
  <2>3. RequestShowsHistory
    <3>1. conv = None => Own = None
      BY DEF Own, ConvUsed, IInv, HandleInv
    <3> QED BY <3>1, SeesHistory DEF IInv, RequestShowsHistory, Asking
  <2> QED BY <2>1, <2>2, <2>3 DEF HistoryTold
<1> QED BY <1>1, Invariance, PTL

\* A run is given up, a tool held back, a call forced and a turn counted only
\* for what the model did before.
THEOREM AllEarned == Spec => []Earned
<1>1. IInv => Earned
  BY DEF IInv, Core, StrikeInv, TurnInv, NudgeInv, SuppressionInv, Earned, TurnBudget, Stages
<1> QED BY <1>1, Invariance, PTL

\* No item of the history is kept from the model, down the fallback ladder.
THEOREM NothingIsLost == Spec => []NothingLost
<1>1. IInv => NothingLost
  <2> SUFFICES ASSUME IInv, Asking PROVE
        \A i \in DOMAIN history : \E j \in DOMAIN Seen(request) : Seen(request)[j] = history[i]
    BY DEF NothingLost
  <2>1. Core /\ HandleInv /\ pc = "request" /\ TypeOK /\ request \in Request
    BY DEF IInv, Asking, Core, RequestInv
  <2>2. \A i \in 1..Len(history) : \E j \in 1..Len(Seen(request)) : Seen(request)[j] = history[i]
    BY <2>1, SeesAll
  <2>3. DOMAIN history = 1..Len(history)
    BY <2>1, LenProperties DEF TypeOK
  <2>4. DOMAIN Seen(request) = 1..Len(Seen(request))
    BY <2>1, SeenType, LenProperties
  <2> QED BY <2>2, <2>3, <2>4
<1> QED BY <1>1, Invariance, PTL

\* Every tool call the model is shown is answered at once by its results.
THEOREM CallsAreAnswered == Spec => []CallsAnswered
<1>1. IInv => CallsAnswered
  <2> SUFFICES ASSUME IInv, Asking, ConvUsed(request.handle) = None PROVE
        \A i \in DOMAIN Seen(request) : Seen(request)[i].kind = "calls" =>
           i < Len(Seen(request)) /\ Seen(request)[i + 1].kind = "results"
    BY DEF CallsAnswered
  <2>1. Core /\ HandleInv /\ AnsweredInv /\ pc = "request" /\ history \in Seq(Item)
    BY DEF IInv, Asking, Core, TypeOK
  <2>2. Own = None
    BY <2>1, OwnRequest
  <2>3. Seen(request) = history
    BY <2>1, <2>2, SeesHistory
  <2>4. DOMAIN history = 1..Len(history) /\ Len(history) \in Nat
    BY <2>1, LenProperties
  <2>5. \A i \in 1..Len(history) : history[i].kind = "calls" =>
          i < Len(history) /\ history[i + 1].kind = "results"
    BY <2>1, <2>4 DEF AnsweredInv
  <2> QED BY <2>3, <2>4, <2>5
<1> QED BY <1>1, Invariance, PTL
=============================================================================
