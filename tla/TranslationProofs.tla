------------------------- MODULE TranslationProofs -------------------------
(***************************************************************************)
(* Proofs about Translation, for any number of requests, blocks and breaks *)
(* of either provider: what the model is shown of its own calls and words  *)
(* is what it streamed.  The lists of the model are joined and selected    *)
(* from others by FlattenSeq; Flat and its lemmas come first, then what    *)
(* the request builders keep, then the invariant: the translator and the   *)
(* accumulator have heard the blocks of the answer (TranslatorInv,         *)
(* CallsHeard), and the history, the replay buffer, the server and the     *)
(* tools all have the calls of the answers accepted so far (Views).  The   *)
(* last part is about the answers to those calls: what the next request    *)
(* would show, together with the results that are due, is a conversation   *)
(* the provider accepts (AnswersInv).                                      *)
(***************************************************************************)
EXTENDS Translation, SequenceTheorems, FiniteSetTheorems, WellFoundedInduction,
        NaturalsInduction, TLAPS

\* Induction up to a bound, and the existence of functions defined by recursion.
LEMMA Induction ==
  ASSUME NEW N \in Nat, NEW P, 0 \in P, \A n \in 0..N - 1 : n \in P => n + 1 \in P
  PROVE  0..N \subseteq P
<1> DEFINE Bad == {n \in 0..N : n \notin P}
<1> SUFFICES ASSUME Bad # {} PROVE FALSE
  OBVIOUS
<1> DEFINE Less == OpToRel(<, Nat)
<1>1. Bad \subseteq Nat /\ \A x, y \in Nat : y < x => <<y, x>> \in Less
  BY DEF OpToRel
<1>2. IsWellFoundedOn(Less, Nat)
  BY NatLessThanWellFounded
<1> HIDE DEF Less, Bad
<1>3. PICK x \in Bad : \A y \in Bad : ~(<<y, x>> \in Less)
  BY <1>1, <1>2, WFMin
<1>4. \A y \in Bad : ~(y < x)
  BY <1>1, <1>3
<1> USE DEF Bad
<1>5. x \in 1..N /\ x - 1 \in 0..N - 1 /\ x - 1 \notin Bad
  BY <1>4
<1> QED BY <1>5

\* g is what the recursion from a by the functions F comes to.
Iterates(g, N, S, a, F) ==
  g[0] = a /\ \A n \in 1..N : g[n - 1] \in S => g[n] = F[n][g[n - 1]]

LEMMA Recursion ==
  ASSUME NEW N \in Nat, NEW S, NEW a \in S, NEW F \in [1..N -> [S -> S]]
  PROVE  \E f \in [0..N -> S] : Iterates(f, N, S, a, F)
<1> DEFINE Obeys(f, m) == f[0] = a /\ \A n \in 1..m : f[n] = F[n][f[n - 1]]
           P == {m \in 0..N : \E f \in [0..m -> S] : Obeys(f, m)}
<1>1. 0 \in P
  <2> DEFINE g == [n \in 0..0 |-> a]
  <2>1. g \in [0..0 -> S] /\ Obeys(g, 0)
    OBVIOUS
  <2> HIDE DEF g
  <2> QED BY <2>1
<1>2. ASSUME NEW m \in 0..N - 1, m \in P
      PROVE  m + 1 \in P
  <2>1. PICK f \in [0..m -> S] : Obeys(f, m)
    BY <1>2
  <2> DEFINE g == [n \in 0..m + 1 |-> IF n = m + 1 THEN F[m + 1][f[m]] ELSE f[n]]
  <2>2. f[m] \in S /\ m + 1 \in 1..N
    OBVIOUS
  <2>3. F[m + 1][f[m]] \in S
    BY <2>2
  <2>4. g \in [0..m + 1 -> S]
    BY <2>3
  <2>5. Obeys(g, m + 1)
    BY <2>1
  <2> HIDE DEF g
  <2> QED BY <2>4, <2>5, SMTT(20)
<1>3. N \in P
  <2> HIDE DEF P
  <2>1. 0..N \subseteq P
    BY <1>1, <1>2, Induction
  <2> QED BY <2>1
<1> QED BY <1>3 DEF Iterates

LEMMA Unrolled ==
  ASSUME NEW N \in Nat, NEW S, NEW a \in S, NEW F \in [1..N -> [S -> S]],
         NEW g, Iterates(g, N, S, a, F)
  PROVE  \A n \in 0..N : g[n] \in S
<1> DEFINE P == {n \in 0..N : g[n] \in S}
<1>1. 0 \in P
  BY DEF Iterates
<1>2. ASSUME NEW n \in 0..N - 1, n \in P
      PROVE  n + 1 \in P
  <2>1. n + 1 \in 1..N /\ (n + 1) - 1 = n
    OBVIOUS
  <2>2. g[n + 1] = F[n + 1][g[n]]
    BY <1>2, <2>1 DEF Iterates
  <2> QED BY <1>2, <2>1, <2>2
<1>3. 0..N \subseteq P
  <2> HIDE DEF P
  <2> QED BY <1>1, <1>2, Induction
<1> QED BY <1>3

(***************************************************************************)
(* Sequences made by joining the pieces that the elements of one stand for *)
(***************************************************************************)
\* Induction over sequences, from the left.
LEMMA SeqInduction ==
  ASSUME NEW S, NEW P, <<>> \in P,
         \A s \in Seq(S), x \in S : s \in P => Append(s, x) \in P
  PROVE  Seq(S) \subseteq P
<1> SUFFICES ASSUME NEW s \in Seq(S) PROVE s \in P
  OBVIOUS
<1> DEFINE N == Len(s)
           Q == {n \in 0..N : SubSeq(s, 1, n) \in P}
<1>1. N \in Nat
  OBVIOUS
<1>2. 0 \in Q
  <2>1. SubSeq(s, 1, 0) = <<>> /\ 0 \in 0..N
    OBVIOUS
  <2>2. SubSeq(s, 1, 0) \in P
    BY <2>1
  <2> HIDE DEF N
  <2> QED BY <2>1, <2>2
<1>3. ASSUME NEW n \in 0..N - 1, n \in Q
      PROVE  n + 1 \in Q
  <2>1. SubSeq(s, 1, n) \in Seq(S) /\ s[n + 1] \in S /\ n + 1 \in 0..N
    BY <1>1
  <2>2. SubSeq(s, 1, n + 1) = Append(SubSeq(s, 1, n), s[n + 1])
    BY <1>1
  <2> QED BY <1>3, <2>1, <2>2
<1>4. 0..N \subseteq Q
  <2> HIDE DEF Q
  <2> QED BY <1>1, <1>2, <1>3, Induction
<1>5. SubSeq(s, 1, N) \in P
  BY <1>1, <1>4
<1>6. SubSeq(s, 1, N) = s
  OBVIOUS
<1> QED BY <1>5, <1>6

\* The recursive function inside FlattenSeq.
Joining(seqs) ==
  CHOOSE f : f = [i \in 1..Len(seqs) |-> IF i = 1 THEN seqs[i] ELSE f[i - 1] \o seqs[i]]

LEMMA JoiningExists ==
  ASSUME NEW S, NEW seqs \in Seq(Seq(S))
  PROVE  /\ DOMAIN Joining(seqs) = 1..Len(seqs)
         /\ \A n \in 1..Len(seqs) :
              Joining(seqs)[n] = IF n = 1 THEN seqs[n] ELSE Joining(seqs)[n - 1] \o seqs[n]
         /\ \A n \in 1..Len(seqs) : Joining(seqs)[n] \in Seq(S)
<1> DEFINE N == Len(seqs)
           Q == Seq(S)
           F == [n \in 1..N |-> [s \in Q |-> s \o seqs[n]]]
           Obeys(f) == f = [n \in 1..N |-> IF n = 1 THEN seqs[n] ELSE f[n - 1] \o seqs[n]]
<1>1. N \in Nat /\ <<>> \in Q /\ \A n \in 1..N : seqs[n] \in Q
  BY LenProperties
<1>2. F \in [1..N -> [Q -> Q]]
  BY <1>1
<1>3. \A n \in 1..N, x \in Q : F[n][x] = x \o seqs[n]
  OBVIOUS
<1>4. Joining(seqs) = CHOOSE f : Obeys(f)
  BY DEF Joining
<1>a. \A s \in Q : <<>> \o s = s
  OBVIOUS
<1> HIDE DEF N, Q, F
<1>5. PICK g \in [0..N -> Q] : Iterates(g, N, Q, <<>>, F)
  BY <1>1, <1>2, Recursion
<1> DEFINE f == [n \in 1..N |-> g[n]]
<1>6. Obeys(f) /\ \A n \in 1..N : f[n] \in Q
  <2>1. \A n \in 1..N : g[n - 1] \in Q /\ g[n] \in Q
    BY <1>1
  <2>2. g[0] = <<>> /\ \A n \in 1..N : g[n] = g[n - 1] \o seqs[n]
    BY <1>3, <1>5, <2>1 DEF Iterates
  <2>3. DOMAIN f = 1..N /\ \A n \in 1..N : f[n] = g[n]
    OBVIOUS
  <2>a. f = [n \in 1..N |-> f[n]]
    OBVIOUS
  <2> HIDE DEF f
  <2>4. \A n \in 1..N : f[n] = IF n = 1 THEN seqs[n] ELSE f[n - 1] \o seqs[n]
    <3> TAKE n \in 1..N
    <3>1. CASE n = 1
      <4>1. 1 \in 1..N /\ 1 - 1 = 0
        BY <3>1
      <4>2. g[1] = <<>> \o seqs[1]
        BY <2>2, <4>1
      <4>3. g[1] = seqs[1]
        BY <1>1, <1>a, <4>1, <4>2
      <4> QED BY <2>3, <3>1, <4>3
    <3>2. CASE n # 1
      <4>1. n - 1 \in 1..N
        BY <1>1, <3>2
      <4> QED BY <2>2, <2>3, <3>2, <4>1
    <3> QED BY <3>1, <3>2
  <2> QED BY <2>1, <2>3, <2>4, <2>a
<1>7. Obeys(Joining(seqs))
  <2> HIDE DEF f
  <2> QED BY <1>4, <1>6
<1>8. \A n \in 1..N : Joining(seqs)[n] = IF n = 1 THEN seqs[n] ELSE Joining(seqs)[n - 1] \o seqs[n]
  BY <1>1, <1>7
<1> DEFINE P == {n \in 0..N : n > 0 => Joining(seqs)[n] \in Q}
<1>9. 0 \in P
  BY <1>1
<1>10. ASSUME NEW n \in 0..N - 1, n \in P
       PROVE  n + 1 \in P
  <2>1. n + 1 \in 1..N /\ (n + 1) - 1 = n
    BY <1>1
  <2>2. \A s, t \in Q : s \o t \in Q
    BY DEF Q
  <2>3. Joining(seqs)[n + 1] = IF n + 1 = 1 THEN seqs[n + 1] ELSE Joining(seqs)[n] \o seqs[n + 1]
    BY <1>8, <2>1
  <2>4. CASE n = 0
    BY <1>1, <2>1, <2>3, <2>4
  <2>5. CASE n > 0
    <3>1. Joining(seqs)[n] \in Q
      BY <1>10, <2>5
    <3> QED BY <1>1, <2>1, <2>2, <2>3, <2>5, <3>1
  <2> QED BY <2>4, <2>5
<1>11. 0..N \subseteq P
  <2> HIDE DEF P
  <2> QED BY <1>1, <1>9, <1>10, Induction
<1>12. DOMAIN Joining(seqs) = 1..N
  BY <1>7
<1>13. \A n \in 1..N : Joining(seqs)[n] \in Q
  BY <1>1, <1>11
<1> QED BY <1>8, <1>12, <1>13 DEF N, Q

\* The last of the joined sequences is what FlattenSeq answers.
LEMMA FlattenSeqIs ==
  ASSUME NEW S, NEW seqs \in Seq(Seq(S))
  PROVE  /\ FlattenSeq(seqs) = IF Len(seqs) = 0 THEN seqs ELSE Joining(seqs)[Len(seqs)]
         /\ FlattenSeq(seqs) \in Seq(S)
<1>1. FlattenSeq(seqs) = IF Len(seqs) = 0 THEN seqs ELSE Joining(seqs)[Len(seqs)]
  BY DEF FlattenSeq, Joining
<1>2. CASE Len(seqs) = 0
  <2>1. seqs = <<>>
    BY <1>2
  <2> QED BY <1>1, <1>2, <2>1
<1>3. CASE Len(seqs) > 0
  <2>1. Len(seqs) \in 1..Len(seqs)
    BY <1>3
  <2> QED BY <1>1, <1>3, <2>1, JoiningExists
<1> QED BY <1>1, <1>2, <1>3, LenProperties

\* One more piece is joined at the end.
LEMMA FlattenAppend ==
  ASSUME NEW S, NEW seqs \in Seq(Seq(S)), NEW x \in Seq(S)
  PROVE  FlattenSeq(Append(seqs, x)) = FlattenSeq(seqs) \o x
<1> DEFINE N == Len(seqs)
           more == Append(seqs, x)
           P == {n \in 0..N : n > 0 => Joining(more)[n] = Joining(seqs)[n]}
<1>1. /\ more \in Seq(Seq(S)) /\ N \in Nat /\ Len(more) = N + 1 /\ more[N + 1] = x
      /\ \A n \in 1..N : more[n] = seqs[n]
  OBVIOUS
<1>2. /\ \A n \in 1..N : Joining(seqs)[n] =
            IF n = 1 THEN seqs[n] ELSE Joining(seqs)[n - 1] \o seqs[n]
      /\ \A n \in 1..N : Joining(seqs)[n] \in Seq(S)
  BY JoiningExists
<1> HIDE DEF more
<1>3. \A n \in 1..N + 1 : Joining(more)[n] =
        IF n = 1 THEN more[n] ELSE Joining(more)[n - 1] \o more[n]
  BY <1>1, JoiningExists
<1> HIDE DEF N
<1>4. 0 \in P
  BY <1>1
<1>5. ASSUME NEW n \in 0..N - 1, n \in P
      PROVE  n + 1 \in P
  <2>1. n + 1 \in 1..N /\ n + 1 \in 1..N + 1 /\ (n + 1) - 1 = n
    BY <1>1
  <2>2. /\ Joining(more)[n + 1] = IF n + 1 = 1 THEN more[n + 1] ELSE Joining(more)[n] \o more[n + 1]
        /\ Joining(seqs)[n + 1] = IF n + 1 = 1 THEN seqs[n + 1] ELSE Joining(seqs)[n] \o seqs[n + 1]
    BY <1>2, <1>3, <2>1
  <2>3. n + 1 # 1 => Joining(more)[n] = Joining(seqs)[n]
    BY <1>1, <1>5
  <2> QED BY <1>1, <2>1, <2>2, <2>3
<1>6. 0..N \subseteq P
  <2> HIDE DEF P
  <2> QED BY <1>1, <1>4, <1>5, Induction
<1>7. FlattenSeq(more) = Joining(more)[N + 1]
  <2>1. Len(more) # 0
    BY <1>1
  <2> QED BY <1>1, <2>1, FlattenSeqIs
<1>8. CASE N = 0
  <2>1. seqs = <<>>
    BY <1>8 DEF N
  <2>2. FlattenSeq(seqs) = <<>>
    BY <1>8, <2>1, FlattenSeqIs DEF N
  <2>3. Joining(more)[N + 1] = x
    BY <1>1, <1>3, <1>8
  <2> QED BY <1>7, <2>2, <2>3 DEF more
<1>9. CASE N > 0
  <2>1. FlattenSeq(seqs) = Joining(seqs)[N]
    BY <1>1, <1>9, FlattenSeqIs DEF N
  <2>2. Joining(more)[N] = Joining(seqs)[N]
    BY <1>1, <1>6, <1>9
  <2>3. Joining(more)[N + 1] = Joining(more)[N] \o x
    <3>1. N + 1 \in 1..N + 1 /\ (N + 1) - 1 = N /\ N + 1 # 1
      BY <1>1, <1>9
    <3> QED BY <1>1, <1>3, <3>1
  <2> QED BY <1>7, <2>1, <2>2, <2>3 DEF more
<1> QED BY <1>1, <1>8, <1>9

\* What the elements of s stand for, one after the other.
Flat(s, f) == FlattenSeq([i \in DOMAIN s |-> f[s[i]]])

\* What the empty sequence and one more element stand for.
LEMMA FlatMade ==
  ASSUME NEW S, NEW T, NEW f \in [S -> Seq(T)]
  PROVE  /\ Flat(<<>>, f) = <<>>
         /\ \A s \in Seq(S) : Flat(s, f) \in Seq(T)
         /\ \A s \in Seq(S), x \in S : Flat(Append(s, x), f) = Flat(s, f) \o f[x]
<1> DEFINE M(s) == [i \in DOMAIN s |-> f[s[i]]]
<1>1. \A s \in Seq(S) : M(s) \in Seq(Seq(T))
  <2> TAKE s \in Seq(S)
  <2>1. DOMAIN s = 1..Len(s) /\ Len(s) \in Nat /\ \A i \in 1..Len(s) : f[s[i]] \in Seq(T)
    OBVIOUS
  <2> QED BY <2>1, IsASeq
<1>2. Flat(<<>>, f) = <<>>
  <2>1. M(<<>>) = <<>>
    OBVIOUS
  <2>2. FlattenSeq(<<>>) = <<>>
    BY DEF FlattenSeq
  <2> QED BY <2>1, <2>2 DEF Flat
<1>3. ASSUME NEW s \in Seq(S)
      PROVE  Flat(s, f) \in Seq(T)
  <2>1. M(s) \in Seq(Seq(T))
    BY <1>1
  <2> HIDE DEF M
  <2>2. FlattenSeq(M(s)) \in Seq(T)
    BY <2>1, FlattenSeqIs
  <2> QED BY <2>2 DEF Flat, M
<1>4. ASSUME NEW s \in Seq(S), NEW x \in S
      PROVE  Flat(Append(s, x), f) = Flat(s, f) \o f[x]
  <2>1. M(Append(s, x)) = Append(M(s), f[x])
    <3>1. M(s) \in Seq(Seq(T)) /\ f[x] \in Seq(T) /\ Append(s, x) \in Seq(S)
      BY <1>1
    <3>2. M(Append(s, x)) \in Seq(Seq(T)) /\ Append(M(s), f[x]) \in Seq(Seq(T))
      BY <1>1, <3>1, AppendProperties
    <3>3. Len(M(s)) = Len(s) /\ Len(M(Append(s, x))) = Len(s) + 1
      OBVIOUS
    <3>4. /\ Len(Append(M(s), f[x])) = Len(s) + 1
          /\ Append(M(s), f[x])[Len(s) + 1] = f[x]
          /\ \A i \in 1..Len(s) : Append(M(s), f[x])[i] = M(s)[i]
      <4> HIDE DEF M
      <4> QED BY <3>1, <3>3, AppendProperties
    <3>5. /\ M(Append(s, x))[Len(s) + 1] = f[x]
          /\ \A i \in 1..Len(s) : M(Append(s, x))[i] = M(s)[i]
      OBVIOUS
    <3> HIDE DEF M
    <3>6. \A i \in 1..Len(s) + 1 : M(Append(s, x))[i] = Append(M(s), f[x])[i]
      <4>1. \A i \in 1..Len(s) + 1 : i = Len(s) + 1 \/ i \in 1..Len(s)
        OBVIOUS
      <4> QED BY <3>4, <3>5, <4>1
    <3> QED BY <3>2, <3>3, <3>4, <3>6, SeqEqual
  <2>2. M(s) \in Seq(Seq(T)) /\ f[x] \in Seq(T)
    BY <1>1
  <2> HIDE DEF M
  <2>3. FlattenSeq(Append(M(s), f[x])) = FlattenSeq(M(s)) \o f[x]
    BY <2>2, FlattenAppend
  <2>4. Flat(Append(s, x), f) = FlattenSeq(M(Append(s, x))) /\ Flat(s, f) = FlattenSeq(M(s))
    BY DEF Flat, M
  <2> QED BY <2>1, <2>3, <2>4
<1> QED BY <1>2, <1>3, <1>4

\* Two sequences, one after the other.
Joins(S, f) == \A s, t \in Seq(S) : Flat(s \o t, f) = Flat(s, f) \o Flat(t, f)

LEMMA FlatJoin ==
  ASSUME NEW S, NEW T, NEW f \in [S -> Seq(T)]
  PROVE  Joins(S, f)
<1>1. /\ Flat(<<>>, f) = <<>>
      /\ \A s \in Seq(S) : Flat(s, f) \in Seq(T)
      /\ \A s \in Seq(S), x \in S : Flat(Append(s, x), f) = Flat(s, f) \o f[x]
  BY FlatMade
<1>2. ASSUME NEW s \in Seq(S)
      PROVE  \A t \in Seq(S) : Flat(s \o t, f) = Flat(s, f) \o Flat(t, f)
  <2> DEFINE P == {t \in Seq(S) : Flat(s \o t, f) = Flat(s, f) \o Flat(t, f)}
  <2>1. <<>> \in P
    <3>1. s \o <<>> = s /\ Flat(s, f) \o <<>> = Flat(s, f)
      BY <1>1, ConcatEmptySeq
    <3> QED BY <1>1, <3>1
  <2>2. ASSUME NEW t \in Seq(S), NEW x \in S, t \in P
        PROVE  Append(t, x) \in P
    <3>1. s \o Append(t, x) = Append(s \o t, x) /\ s \o t \in Seq(S) /\ Append(t, x) \in Seq(S)
      OBVIOUS
    <3>2. Flat(s \o Append(t, x), f) = Flat(s \o t, f) \o f[x]
      BY <1>1, <3>1
    <3>3. Flat(s \o t, f) = Flat(s, f) \o Flat(t, f)
      BY <2>2
    <3>4. Flat(s, f) \in Seq(T) /\ Flat(t, f) \in Seq(T) /\ f[x] \in Seq(T)
      BY <1>1
    <3>5. (Flat(s, f) \o Flat(t, f)) \o f[x] = Flat(s, f) \o (Flat(t, f) \o f[x])
      BY <3>4, ConcatAssociative
    <3>6. Flat(Append(t, x), f) = Flat(t, f) \o f[x]
      BY <1>1
    <3> QED BY <3>1, <3>2, <3>3, <3>5, <3>6
  <2>3. Seq(S) \subseteq P
    <3> HIDE DEF P
    <3> QED BY <2>1, <2>2, SeqInduction
  <2> QED BY <2>3
<1> QED BY <1>2 DEF Joins

\* One element.
LEMMA FlatSingle ==
  ASSUME NEW S, NEW T, NEW f \in [S -> Seq(T)]
  PROVE  \A x \in S : Flat(<<x>>, f) = f[x]
<1>1. /\ Flat(<<>>, f) = <<>>
      /\ \A s \in Seq(S), x \in S : Flat(Append(s, x), f) = Flat(s, f) \o f[x]
  BY FlatMade
<1>2. ASSUME NEW x \in S
      PROVE  Flat(<<x>>, f) = f[x]
  <2>1. <<x>> = Append(<<>>, x) /\ <<>> \in Seq(S)
    OBVIOUS
  <2>2. Flat(<<x>>, f) = <<>> \o f[x]
    BY <1>1, <2>1
  <2>3. f[x] \in Seq(T)
    OBVIOUS
  <2> QED BY <2>2, <2>3, ConcatEmptySeq
<1> QED BY <1>2

\* What h makes of an element, g makes of what f makes of it.
Through(S, T, U, f, g, h) ==
  /\ f \in [S -> Seq(T)] /\ g \in [T -> Seq(U)] /\ h \in [S -> Seq(U)]
  /\ \A x \in S : h[x] = Flat(f[x], g)

LEMMA FlatFlat ==
  ASSUME NEW S, NEW T, NEW U, NEW f, NEW g, NEW h, Through(S, T, U, f, g, h)
  PROVE  \A s \in Seq(S) : Flat(Flat(s, f), g) = Flat(s, h)
<1>9. f \in [S -> Seq(T)] /\ g \in [T -> Seq(U)] /\ h \in [S -> Seq(U)]
  BY DEF Through
<1> DEFINE P == {s \in Seq(S) : Flat(Flat(s, f), g) = Flat(s, h)}
<1>7. /\ Flat(<<>>, f) = <<>>
      /\ \A s \in Seq(S) : Flat(s, f) \in Seq(T)
      /\ \A s \in Seq(S), x \in S : Flat(Append(s, x), f) = Flat(s, f) \o f[x]
  BY <1>9, FlatMade
<1>8. \A s, t \in Seq(T) : Flat(s \o t, g) = Flat(s, g) \o Flat(t, g)
  <2>1. Joins(T, g)
    BY <1>9, FlatJoin
  <2> QED BY <2>1 DEF Joins
<1>2. /\ Flat(<<>>, h) = <<>> /\ Flat(<<>>, g) = <<>>
      /\ \A s \in Seq(S), x \in S : Flat(Append(s, x), h) = Flat(s, h) \o h[x]
  BY <1>9, FlatMade
<1>3. \A x \in S : h[x] = Flat(f[x], g)
  BY DEF Through
<1>4. <<>> \in P
  BY <1>2, <1>7
<1>5. ASSUME NEW s \in Seq(S), NEW x \in S, s \in P
      PROVE  Append(s, x) \in P
  <2>1. Flat(Append(s, x), f) = Flat(s, f) \o f[x] /\ Flat(s, f) \in Seq(T) /\ f[x] \in Seq(T)
    BY <1>7, <1>9
  <2>2. Flat(Flat(s, f) \o f[x], g) = Flat(Flat(s, f), g) \o Flat(f[x], g)
    BY <1>8, <2>1
  <2>3. Flat(Append(s, x), h) = Flat(s, h) \o h[x]
    BY <1>2
  <2>4. Append(s, x) \in Seq(S)
    OBVIOUS
  <2> QED BY <1>3, <1>5, <2>1, <2>2, <2>3, <2>4
<1>6. Seq(S) \subseteq P
  <2> HIDE DEF P
  <2> QED BY <1>4, <1>5, SeqInduction
<1> QED BY <1>6

\* Everything an element stands for is there.
LEMMA FlatHas ==
  ASSUME NEW S, NEW T, NEW f \in [S -> Seq(T)]
  PROVE  \A s \in Seq(S) : \A i \in DOMAIN s : \A j \in DOMAIN f[s[i]] :
           \E k \in DOMAIN Flat(s, f) : Flat(s, f)[k] = f[s[i]][j]
<1> DEFINE P == {s \in Seq(S) : \A i \in DOMAIN s : \A j \in DOMAIN f[s[i]] :
                   \E k \in DOMAIN Flat(s, f) : Flat(s, f)[k] = f[s[i]][j]}
<1>1. <<>> \in P
  OBVIOUS
<1>4. /\ Flat(<<>>, f) = <<>>
      /\ \A s \in Seq(S) : Flat(s, f) \in Seq(T)
      /\ \A s \in Seq(S), x \in S : Flat(Append(s, x), f) = Flat(s, f) \o f[x]
  BY FlatMade
<1>2. ASSUME NEW s \in Seq(S), NEW x \in S, s \in P
      PROVE  Append(s, x) \in P
  <2>1. /\ Flat(Append(s, x), f) = Flat(s, f) \o f[x] /\ Flat(s, f) \in Seq(T)
        /\ f[x] \in Seq(T)
    BY <1>4
  <2>2. ASSUME NEW i \in DOMAIN Append(s, x), NEW j \in DOMAIN f[Append(s, x)[i]]
        PROVE  \E k \in DOMAIN (Flat(s, f) \o f[x]) :
                 (Flat(s, f) \o f[x])[k] = f[Append(s, x)[i]][j]
    <3>1. CASE i \in DOMAIN s
      <4>1. Append(s, x)[i] = s[i]
        BY <3>1
      <4>2. PICK k \in DOMAIN Flat(s, f) : Flat(s, f)[k] = f[s[i]][j]
        BY <1>2, <2>2, <3>1, <4>1
      <4>3. k \in DOMAIN (Flat(s, f) \o f[x]) /\ (Flat(s, f) \o f[x])[k] = Flat(s, f)[k]
        BY <2>1
      <4> QED BY <4>1, <4>2, <4>3
    <3>2. CASE i \notin DOMAIN s
      <4>1. Append(s, x)[i] = x
        BY <2>2, <3>2
      <4> DEFINE k == Len(Flat(s, f)) + j
      <4>2. k \in DOMAIN (Flat(s, f) \o f[x]) /\ (Flat(s, f) \o f[x])[k] = f[x][j]
        BY <2>1, <2>2, <4>1
      <4> HIDE DEF k
      <4> QED BY <4>1, <4>2
    <3> QED BY <3>1, <3>2
  <2>3. Append(s, x) \in Seq(S)
    OBVIOUS
  <2>4. \A i \in DOMAIN Append(s, x) : \A j \in DOMAIN f[Append(s, x)[i]] :
          \E k \in DOMAIN Flat(Append(s, x), f) : Flat(Append(s, x), f)[k] = f[Append(s, x)[i]][j]
    BY <2>1, <2>2
  <2> QED BY <2>3, <2>4
<1>3. Seq(S) \subseteq P
  <2> HIDE DEF P
  <2> QED BY <1>1, <1>2, SeqInduction
<1> QED BY <1>3

\* Two sequences whose elements stand for as many things, pair by pair in R.
LEMMA FlatPaired ==
  ASSUME NEW S, NEW T, NEW f \in [S -> Seq(T)],
         NEW S2, NEW T2, NEW f2 \in [S2 -> Seq(T2)], NEW R
  PROVE  \A s \in Seq(S), s2 \in Seq(S2) :
           /\ Len(s) = Len(s2)
           /\ \A i \in DOMAIN s :
                /\ Len(f[s[i]]) = Len(f2[s2[i]])
                /\ \A j \in DOMAIN f[s[i]] : <<f[s[i]][j], f2[s2[i]][j]>> \in R
           => /\ Len(Flat(s, f)) = Len(Flat(s2, f2))
              /\ \A k \in DOMAIN Flat(s, f) : <<Flat(s, f)[k], Flat(s2, f2)[k]>> \in R
<1> DEFINE Alike(x, y) == Len(f[x]) = Len(f2[y]) /\ \A j \in DOMAIN f[x] : <<f[x][j], f2[y][j]>> \in R
           Lines(s, s2) == Len(s) = Len(s2) /\ \A i \in DOMAIN s : Alike(s[i], s2[i])
           Same(s, s2) == /\ Len(Flat(s, f)) = Len(Flat(s2, f2))
                          /\ \A k \in DOMAIN Flat(s, f) : <<Flat(s, f)[k], Flat(s2, f2)[k]>> \in R
           P == {s \in Seq(S) : \A s2 \in Seq(S2) : Lines(s, s2) => Same(s, s2)}
<1>4. /\ Flat(<<>>, f) = <<>>
      /\ \A s \in Seq(S) : Flat(s, f) \in Seq(T)
      /\ \A s \in Seq(S), x \in S : Flat(Append(s, x), f) = Flat(s, f) \o f[x]
  BY FlatMade
<1>5. /\ Flat(<<>>, f2) = <<>>
      /\ \A s \in Seq(S2) : Flat(s, f2) \in Seq(T2)
      /\ \A s \in Seq(S2), x \in S2 : Flat(Append(s, x), f2) = Flat(s, f2) \o f2[x]
  BY FlatMade
<1>1. <<>> \in P
  <2>1. Flat(<<>>, f) = <<>> /\ Flat(<<>>, f2) = <<>>
    BY FlatMade
  <2>2. ASSUME NEW s2 \in Seq(S2), Len(<<>>) = Len(s2)
        PROVE  Same(<<>>, s2)
    <3>1. s2 = <<>>
      BY <2>2
    <3> QED BY <2>1, <3>1
  <2> HIDE DEF Alike, Same
  <2> QED BY <2>2
<1>2. ASSUME NEW s \in Seq(S), NEW x \in S, s \in P
      PROVE  Append(s, x) \in P
  <2>1. SUFFICES ASSUME NEW s2 \in Seq(S2), Lines(Append(s, x), s2)
                 PROVE  Same(Append(s, x), s2)
    <3> HIDE DEF Same, Lines
    <3> QED OBVIOUS
  <2>2. PICK t \in Seq(S2), y \in S2 : s2 = Append(t, y)
    <3>1. s2 # <<>>
      BY <2>1
    <3> QED BY <3>1, SequenceEmptyOrAppend
  <2>3. Lines(s, t) /\ Alike(x, y)
    <3>1. /\ Len(s) = Len(t) /\ Append(s, x)[Len(s) + 1] = x /\ Append(t, y)[Len(s) + 1] = y
          /\ \A i \in DOMAIN s : Append(s, x)[i] = s[i] /\ Append(t, y)[i] = t[i]
          /\ DOMAIN s \subseteq DOMAIN Append(s, x) /\ Len(s) + 1 \in DOMAIN Append(s, x)
      BY <2>1, <2>2
    <3> HIDE DEF Alike
    <3> QED BY <2>1, <2>2, <3>1
  <2>4. Same(s, t)
    BY <1>2, <2>3
  <2>5. /\ Flat(Append(s, x), f) = Flat(s, f) \o f[x] /\ Flat(s, f) \in Seq(T) /\ f[x] \in Seq(T)
        /\ Flat(s2, f2) = Flat(t, f2) \o f2[y] /\ Flat(t, f2) \in Seq(T2) /\ f2[y] \in Seq(T2)
    BY <1>4, <1>5, <2>2
  <2>6. ASSUME NEW a \in Seq(T), NEW b \in Seq(T), NEW c \in Seq(T2), NEW d \in Seq(T2),
               Len(a) = Len(c), Len(b) = Len(d),
               \A k \in DOMAIN a : <<a[k], c[k]>> \in R,
               \A k \in DOMAIN b : <<b[k], d[k]>> \in R
        PROVE  /\ Len(a \o b) = Len(c \o d)
               /\ \A k \in DOMAIN (a \o b) : <<(a \o b)[k], (c \o d)[k]>> \in R
    <3>1. \A k \in DOMAIN (a \o b) :
            \/ k \in DOMAIN a /\ (a \o b)[k] = a[k] /\ (c \o d)[k] = c[k]
            \/ k - Len(a) \in DOMAIN b /\ (a \o b)[k] = b[k - Len(a)] /\ (c \o d)[k] = d[k - Len(a)]
      BY <2>6
    <3>2. Len(a \o b) = Len(c \o d)
      <4>1. Len(a \o b) = Len(a) + Len(b) /\ Len(c \o d) = Len(c) + Len(d)
        OBVIOUS
      <4> QED BY <2>6, <4>1
    <3>3. ASSUME NEW k \in DOMAIN (a \o b)
          PROVE  <<(a \o b)[k], (c \o d)[k]>> \in R
      BY <2>6, <3>1
    <3> QED BY <3>2, <3>3
  <2>7. \A a, b \in Seq(T), c, d \in Seq(T2) :
          /\ Len(a) = Len(c) /\ Len(b) = Len(d)
          /\ \A k \in DOMAIN a : <<a[k], c[k]>> \in R
          /\ \A k \in DOMAIN b : <<b[k], d[k]>> \in R
          => /\ Len(a \o b) = Len(c \o d)
             /\ \A k \in DOMAIN (a \o b) : <<(a \o b)[k], (c \o d)[k]>> \in R
    BY <2>6
  <2>8. /\ Len(Flat(s, f) \o f[x]) = Len(Flat(t, f2) \o f2[y])
        /\ \A k \in DOMAIN (Flat(s, f) \o f[x]) :
             <<(Flat(s, f) \o f[x])[k], (Flat(t, f2) \o f2[y])[k]>> \in R
    BY <2>3, <2>4, <2>5, <2>7
  <2> QED BY <2>5, <2>8
<1>3. Seq(S) \subseteq P
  <2> HIDE DEF P
  <2> QED BY <1>1, <1>2, SeqInduction
<1> QED BY <1>3

\* A selection of elements is such a sequence, too.
Only(U, S) == [x \in U |-> IF x \in S THEN <<x>> ELSE <<>>]

LEMMA AmongIsFlat ==
  ASSUME NEW U, NEW S
  PROVE  /\ Only(U, S) \in [U -> Seq(U \cap S)]
         /\ \A s \in Seq(U) : Among(s, S) = Flat(s, Only(U, S))
         /\ \A s \in Seq(U) : Among(s, S) \in Seq(U \cap S)
<1>1. Only(U, S) \in [U -> Seq(U \cap S)]
  <2>1. \A x \in U : (IF x \in S THEN <<x>> ELSE <<>>) \in Seq(U \cap S)
    <3> DEFINE V == U \cap S
    <3>1. \A x \in V : <<x>> \in Seq(V)
      OBVIOUS
    <3>2. <<>> \in Seq(V) /\ \A x \in U : x \in S <=> x \in V
      OBVIOUS
    <3> HIDE DEF V
    <3>3. \A x \in U : (IF x \in S THEN <<x>> ELSE <<>>) \in Seq(V)
      BY <3>1, <3>2
    <3> QED BY <3>3 DEF V
  <2> QED BY <2>1 DEF Only
<1>2. ASSUME NEW s \in Seq(U)
      PROVE  Among(s, S) = Flat(s, Only(U, S))
  <2>1. \A i \in DOMAIN s : s[i] \in U
    OBVIOUS
  <2>2. [i \in DOMAIN s |-> IF s[i] \in S THEN <<s[i]>> ELSE <<>>]
          = [i \in DOMAIN s |-> Only(U, S)[s[i]]]
    BY <2>1 DEF Only
  <2> QED BY <2>2 DEF Among, Flat
<1>3. \A s \in Seq(U) : Flat(s, Only(U, S)) \in Seq(U \cap S)
  BY <1>1, FlatMade
<1> QED BY <1>1, <1>2, <1>3

\* A selection from one element more.
LEMMA AmongMade ==
  ASSUME NEW U, NEW S
  PROVE  /\ Among(<<>>, S) = <<>>
         /\ \A s \in Seq(U), x \in U :
              Among(Append(s, x), S) = Among(s, S) \o (IF x \in S THEN <<x>> ELSE <<>>)
<1>1. Only(U, S) \in [U -> Seq(U \cap S)]
  BY AmongIsFlat
<1>2. \A s \in Seq(U) : Among(s, S) = Flat(s, Only(U, S))
  BY AmongIsFlat
<1>3. /\ Flat(<<>>, Only(U, S)) = <<>>
      /\ \A s \in Seq(U), x \in U : Flat(Append(s, x), Only(U, S)) = Flat(s, Only(U, S)) \o Only(U, S)[x]
  BY <1>1, FlatMade
<1>6. \A s \in Seq(U), x \in U : Append(s, x) \in Seq(U)
  BY AppendProperties
<1>7. \A x \in U : Only(U, S)[x] = IF x \in S THEN <<x>> ELSE <<>>
  BY DEF Only
<1>8. Among(<<>>, S) = <<>>
  <2>1. <<>> \in Seq(U)
    OBVIOUS
  <2> QED BY <1>2, <1>3, <2>1
<1>10. \A s \in Seq(U), x \in U :
         Among(Append(s, x), S) = Among(s, S) \o (IF x \in S THEN <<x>> ELSE <<>>)
  BY <1>2, <1>3, <1>6, <1>7
<1> QED BY <1>8, <1>10

\* A selection from two sequences, one after the other.
LEMMA AmongJoin ==
  ASSUME NEW U, NEW S
  PROVE  \A s, t \in Seq(U) : Among(s \o t, S) = Among(s, S) \o Among(t, S)
<1>1. Only(U, S) \in [U -> Seq(U \cap S)]
  BY AmongIsFlat
<1>2. \A s \in Seq(U) : Among(s, S) = Flat(s, Only(U, S))
  BY AmongIsFlat
<1>3. \A s, t \in Seq(U) : Flat(s \o t, Only(U, S)) = Flat(s, Only(U, S)) \o Flat(t, Only(U, S))
  <2>1. Joins(U, Only(U, S))
    BY <1>1, FlatJoin
  <2> QED BY <2>1 DEF Joins
<1>4. \A s, t \in Seq(U) : s \o t \in Seq(U)
  BY ConcatProperties
<1> QED BY <1>2, <1>3, <1>4

\* All of the elements, and none.
LEMMA AmongAll ==
  ASSUME NEW U, NEW S
  PROVE  /\ U \subseteq S => \A s \in Seq(U) : Among(s, S) = s
         /\ U \cap S = {} => \A s \in Seq(U) : Among(s, S) = <<>>
<1>1. /\ Among(<<>>, S) = <<>>
      /\ \A s \in Seq(U), x \in U :
           Among(Append(s, x), S) = Among(s, S) \o (IF x \in S THEN <<x>> ELSE <<>>)
  BY AmongMade
<1>2. ASSUME U \subseteq S
      PROVE  \A s \in Seq(U) : Among(s, S) = s
  <2> DEFINE P == {s \in Seq(U) : Among(s, S) = s}
  <2>1. <<>> \in P
    BY <1>1
  <2>2. ASSUME NEW s \in Seq(U), NEW x \in U, s \in P
        PROVE  Append(s, x) \in P
    <3>1. Append(s, x) = s \o <<x>> /\ Append(s, x) \in Seq(U)
      BY AppendIsConcat
    <3> QED BY <1>1, <1>2, <2>2, <3>1
  <2>3. Seq(U) \subseteq P
    <3> HIDE DEF P
    <3> QED BY <2>1, <2>2, SeqInduction
  <2> QED BY <2>3
<1>3. ASSUME U \cap S = {}
      PROVE  \A s \in Seq(U) : Among(s, S) = <<>>
  <2> DEFINE P == {s \in Seq(U) : Among(s, S) = <<>>}
  <2>1. <<>> \in P
    BY <1>1
  <2>2. ASSUME NEW s \in Seq(U), NEW x \in U, s \in P
        PROVE  Append(s, x) \in P
    <3>1. Among(Append(s, x), S) = <<>> \o <<>> /\ Append(s, x) \in Seq(U)
      BY <1>1, <1>3, <2>2, AppendProperties
    <3> QED BY <3>1
  <2>3. Seq(U) \subseteq P
    <3> HIDE DEF P
    <3> QED BY <2>1, <2>2, SeqInduction
  <2> QED BY <2>3
<1> QED BY <1>2, <1>3

\* A selection from a selection.
LEMMA AmongAmong ==
  ASSUME NEW U, NEW S, NEW T
  PROVE  /\ S \subseteq T => \A s \in Seq(U) : Among(Among(s, S), T) = Among(s, S)
         /\ S \cap T = {} => \A s \in Seq(U) : Among(Among(s, S), T) = <<>>
<1>1. \A s \in Seq(U) : Among(s, S) \in Seq(U \cap S)
  BY AmongIsFlat
<1> DEFINE V == U \cap S
<1>2. (S \subseteq T => V \subseteq T) /\ (S \cap T = {} => V \cap T = {})
  OBVIOUS
<1> HIDE DEF V
<1>3. /\ V \subseteq T => \A s \in Seq(V) : Among(s, T) = s
      /\ V \cap T = {} => \A s \in Seq(V) : Among(s, T) = <<>>
  BY AmongAll
<1> QED BY <1>1, <1>2, <1>3 DEF V
-----------------------------------------------------------------------------
(***************************************************************************)
(* What a provider is sent, and what its own model said of it.             *)
(***************************************************************************)
UPart == UserPart({"text", "result"})
APart == AssistantPart(Kinds)
Message == [role : {"user"}, parts : Seq(UPart)] \cup [role : {"assistant"}, parts : Seq(APart)]
WireItem == [role : {"user"}, part : UPart] \cup [role : {"assistant"}, part : APart]

\* The parts of kinds K the model said, by the messages and by the items.
OwnIn(K) == [m \in Message |->
               IF m.role = "assistant" THEN Among(m.parts, AssistantPart(K)) ELSE <<>>]
Own(K, ms) == Flat(ms, OwnIn(K))
ToldIn(K) == [x \in WireItem |->
                IF x.role = "assistant" /\ x.part \in AssistantPart(K) THEN <<x.part>> ELSE <<>>]
Told(K, w) == Flat(w, ToldIn(K))

LEMMA PartsOf ==
  \A K \in SUBSET Kinds : AssistantPart(K) \subseteq APart
BY DEF AssistantPart, APart

LEMMA OwnType ==
  ASSUME NEW K \in SUBSET Kinds
  PROVE  OwnIn(K) \in [Message -> Seq(AssistantPart(K))]
<1>1. \A s \in Seq(APart) : Among(s, AssistantPart(K)) \in Seq(APart \cap AssistantPart(K))
  BY AmongIsFlat
<1>2. APart \cap AssistantPart(K) = AssistantPart(K)
  BY PartsOf
<1>3. \A m \in Message : m.role = "assistant" => m.parts \in Seq(APart)
  BY DEF Message
<1>4. \A m \in Message : OwnIn(K)[m] \in Seq(AssistantPart(K))
  BY <1>1, <1>2, <1>3 DEF OwnIn
<1> QED BY <1>4 DEF OwnIn

LEMMA OwnMade ==
  ASSUME NEW K \in SUBSET Kinds
  PROVE  /\ Own(K, <<>>) = <<>>
         /\ \A ms \in Seq(Message) : Own(K, ms) \in Seq(AssistantPart(K))
         /\ \A ms \in Seq(Message), m \in Message :
              Own(K, Append(ms, m)) = Own(K, ms) \o OwnIn(K)[m]
         /\ \A ms, ns \in Seq(Message) : Own(K, ms \o ns) = Own(K, ms) \o Own(K, ns)
<1>1. OwnIn(K) \in [Message -> Seq(AssistantPart(K))]
  BY OwnType
<1>2. /\ Flat(<<>>, OwnIn(K)) = <<>>
      /\ \A s \in Seq(Message) : Flat(s, OwnIn(K)) \in Seq(AssistantPart(K))
      /\ \A s \in Seq(Message), x \in Message :
           Flat(Append(s, x), OwnIn(K)) = Flat(s, OwnIn(K)) \o OwnIn(K)[x]
  BY <1>1, FlatMade
<1>3. \A s, t \in Seq(Message) : Flat(s \o t, OwnIn(K)) = Flat(s, OwnIn(K)) \o Flat(t, OwnIn(K))
  <2>1. Joins(Message, OwnIn(K))
    BY <1>1, FlatJoin
  <2> QED BY <2>1 DEF Joins
<1> QED BY <1>2, <1>3 DEF Own

LEMMA ToldMade ==
  ASSUME NEW K \in SUBSET Kinds
  PROVE  /\ ToldIn(K) \in [WireItem -> Seq(AssistantPart(K))]
         /\ Told(K, <<>>) = <<>>
         /\ \A w \in Seq(WireItem) : Told(K, w) \in Seq(AssistantPart(K))
         /\ \A v, w \in Seq(WireItem) : Told(K, v \o w) = Told(K, v) \o Told(K, w)
<1>1. ToldIn(K) \in [WireItem -> Seq(AssistantPart(K))]
  BY DEF ToldIn
<1>2. /\ Flat(<<>>, ToldIn(K)) = <<>>
      /\ \A s \in Seq(WireItem) : Flat(s, ToldIn(K)) \in Seq(AssistantPart(K))
  BY <1>1, FlatMade
<1>3. \A s, t \in Seq(WireItem) : Flat(s \o t, ToldIn(K)) = Flat(s, ToldIn(K)) \o Flat(t, ToldIn(K))
  <2>1. Joins(WireItem, ToldIn(K))
    BY <1>1, FlatJoin
  <2> QED BY <2>1 DEF Joins
<1> QED BY <1>1, <1>2, <1>3 DEF Told

\* One line of the conversation for each part of a message.
LinesIn == [m \in Message |-> [j \in DOMAIN m.parts |-> [role |-> m.role, part |-> m.parts[j]]]]

LEMMA ItemsMade ==
  /\ LinesIn \in [Message -> Seq(WireItem)]
  /\ \A ms \in Seq(Message) : Items(ms) = Flat(ms, LinesIn) /\ Items(ms) \in Seq(WireItem)
<1>1. ASSUME NEW m \in Message
      PROVE  LinesIn[m] \in Seq(WireItem)
  <2>1. CASE m.role = "user"
    <3>1. m.parts \in Seq(UPart)
      BY <2>1 DEF Message
    <3>2. \A j \in DOMAIN m.parts : [role |-> m.role, part |-> m.parts[j]] \in WireItem
      BY <2>1, <3>1 DEF WireItem
    <3>3. LinesIn[m] = [j \in DOMAIN m.parts |-> [role |-> m.role, part |-> m.parts[j]]]
      BY DEF LinesIn
    <3>4. DOMAIN m.parts = 1..Len(m.parts) /\ Len(m.parts) \in Nat
      BY <3>1
    <3>5. LinesIn[m] \in [1..Len(m.parts) -> WireItem]
      BY <3>2, <3>3, <3>4
    <3> QED BY <3>4, <3>5, SeqDef
  <2>2. CASE m.role = "assistant"
    <3>1. m.parts \in Seq(APart)
      BY <2>2 DEF Message
    <3>2. \A j \in DOMAIN m.parts : [role |-> m.role, part |-> m.parts[j]] \in WireItem
      BY <2>2, <3>1 DEF WireItem
    <3>3. LinesIn[m] = [j \in DOMAIN m.parts |-> [role |-> m.role, part |-> m.parts[j]]]
      BY DEF LinesIn
    <3>4. DOMAIN m.parts = 1..Len(m.parts) /\ Len(m.parts) \in Nat
      BY <3>1
    <3>5. LinesIn[m] \in [1..Len(m.parts) -> WireItem]
      BY <3>2, <3>3, <3>4
    <3> QED BY <3>4, <3>5, SeqDef
  <2> QED BY <2>1, <2>2 DEF Message
<1>2. LinesIn \in [Message -> Seq(WireItem)]
  <2>1. LinesIn = [m \in Message |-> LinesIn[m]]
    BY DEF LinesIn
  <2> QED BY <1>1, <2>1
<1>3. ASSUME NEW ms \in Seq(Message)
      PROVE  Items(ms) = Flat(ms, LinesIn)
  <2>1. \A i \in DOMAIN ms : ms[i] \in Message
    OBVIOUS
  <2>2. [i \in DOMAIN ms |-> [j \in DOMAIN ms[i].parts |-> [role |-> ms[i].role, part |-> ms[i].parts[j]]]]
          = [i \in DOMAIN ms |-> LinesIn[ms[i]]]
    BY <2>1 DEF LinesIn
  <2> QED BY <2>2 DEF Items, Flat
<1>4. \A ms \in Seq(Message) : Flat(ms, LinesIn) \in Seq(WireItem)
  BY <1>2, FlatMade
<1> QED BY <1>2, <1>3, <1>4

LEMMA LinesMade ==
  /\ Flat(<<>>, LinesIn) = <<>>
  /\ \A s \in Seq(Message) : Flat(s, LinesIn) \in Seq(WireItem)
  /\ \A s \in Seq(Message), x \in Message :
       Flat(Append(s, x), LinesIn) = Flat(s, LinesIn) \o LinesIn[x]
  /\ \A x \in Message : LinesIn[x] \in Seq(WireItem)
<1>1. LinesIn \in [Message -> Seq(WireItem)]
  BY ItemsMade
<1>2. /\ Flat(<<>>, LinesIn) = <<>>
      /\ \A s \in Seq(Message) : Flat(s, LinesIn) \in Seq(WireItem)
      /\ \A s \in Seq(Message), x \in Message :
           Flat(Append(s, x), LinesIn) = Flat(s, LinesIn) \o LinesIn[x]
  BY <1>1, FlatMade
<1> QED BY <1>1, <1>2

LEMMA FlatNothing ==
  ASSUME NEW S, NEW s \in Seq(S), NEW f, \A i \in DOMAIN s : f[s[i]] = <<>>
  PROVE  Flat(s, f) = <<>>
<1> DEFINE g == [x \in S |-> <<>>]
<1>1. [i \in DOMAIN s |-> f[s[i]]] = [i \in DOMAIN s |-> g[s[i]]]
  OBVIOUS
<1>2. Flat(s, f) = Flat(s, g)
  BY <1>1 DEF Flat
<1>3. g \in [S -> Seq({})] /\ \A x \in S : g[x] = <<>>
  OBVIOUS
<1> HIDE DEF g
<1>4. Flat(s, g) \in Seq({})
  BY <1>3, FlatMade
<1>5. \A r \in Seq({}) : r = <<>>
  OBVIOUS
<1> QED BY <1>2, <1>4, <1>5

\* The lines of a message show what the message holds.
LEMMA ToldLines ==
  ASSUME NEW K \in SUBSET Kinds, NEW m \in Message
  PROVE  Told(K, LinesIn[m]) = OwnIn(K)[m]
<1>1. LinesIn[m] = [j \in DOMAIN m.parts |-> [role |-> m.role, part |-> m.parts[j]]]
  BY DEF LinesIn
<1>2. LinesIn[m] \in Seq(WireItem)
  BY ItemsMade
<1>3. CASE m.role = "user"
  <2>1. \A i \in DOMAIN LinesIn[m] : ToldIn(K)[LinesIn[m][i]] = <<>>
    BY <1>1, <1>2, <1>3 DEF ToldIn
  <2>2. Told(K, LinesIn[m]) = <<>>
    BY <1>2, <2>1, FlatNothing DEF Told
  <2> QED BY <1>3, <2>2 DEF OwnIn
<1>4. CASE m.role = "assistant"
  <2>1. \A i \in DOMAIN m.parts : LinesIn[m][i] \in WireItem
    BY <1>1, <1>2
  <2>2. DOMAIN LinesIn[m] = DOMAIN m.parts
    BY <1>1
  <2>4. \A i \in DOMAIN m.parts :
          ToldIn(K)[LinesIn[m][i]]
            = IF m.parts[i] \in AssistantPart(K) THEN <<m.parts[i]>> ELSE <<>>
    <3> TAKE i \in DOMAIN m.parts
    <3>1. LinesIn[m][i].role = "assistant" /\ LinesIn[m][i].part = m.parts[i]
      BY <1>1, <1>4
    <3> QED BY <2>1, <3>1 DEF ToldIn
  <2>3. [i \in DOMAIN LinesIn[m] |-> ToldIn(K)[LinesIn[m][i]]]
          = [i \in DOMAIN m.parts |-> IF m.parts[i] \in AssistantPart(K) THEN <<m.parts[i]>> ELSE <<>>]
    BY <2>2, <2>4
  <2> QED BY <1>4, <2>3 DEF Told, Flat, Among, OwnIn
<1> QED BY <1>3, <1>4 DEF Message

\* What reaches the server of a message, as Anthropic gets it and as OpenAI does.
WiredIn == [m \in Message |-> LinesIn[Msg(m.role, ToBlocks(m))]]
ItemizedIn == [m \in Message |-> LinesIn[ToItems(m)]]

LEMMA MessageParts ==
  \A m \in Message : \/ m.role = "user" /\ m.parts \in Seq(UPart)
                     \/ m.role = "assistant" /\ m.parts \in Seq(APart)
BY DEF Message

LEMMA MsgType ==
  /\ \A ps \in Seq(UPart) : Msg("user", ps) \in Message
  /\ \A ps \in Seq(APart) : Msg("assistant", ps) \in Message
BY DEF Msg, Message

LEMMA SelectedParts ==
  /\ \A S : \A s \in Seq(UPart) : Among(s, S) \in Seq(UPart)
  /\ \A S : \A s \in Seq(APart) : Among(s, S) \in Seq(APart)
<1>1. \A S : \A s \in Seq(UPart) : Among(s, S) \in Seq(UPart \cap S)
  BY AmongIsFlat
<1>2. \A S : \A s \in Seq(APart) : Among(s, S) \in Seq(APart \cap S)
  BY AmongIsFlat
<1>3. \A U, S : Seq(U \cap S) \subseteq Seq(U)
  BY SeqMonotonic
<1> QED BY <1>1, <1>2, <1>3

LEMMA SentType ==
  ASSUME NEW m \in Message
  PROVE  /\ Msg(m.role, ToBlocks(m)) \in Message
         /\ ToItems(m) \in Message
<1>1. CASE m.role = "user"
  <2>1. m.parts \in Seq(UPart)
    BY <1>1, MessageParts
  <2>2. \A S, T : Among(m.parts, S) \o Among(m.parts, T) \in Seq(UPart)
    BY <2>1, SelectedParts, ConcatProperties
  <2> QED BY <1>1, <2>2, MsgType DEF ToBlocks, ToItems
<1>2. CASE m.role = "assistant"
  <2>1. m.parts \in Seq(APart)
    BY <1>2, MessageParts
  <2>2. \A S, T : Among(m.parts, S) \o Among(m.parts, T) \in Seq(APart)
    BY <2>1, SelectedParts, ConcatProperties
  <2> QED BY <1>2, <2>1, <2>2, MsgType DEF ToBlocks, ToItems
<1> QED BY <1>1, <1>2, MessageParts

LEMMA WiredType ==
  WiredIn \in [Message -> Seq(WireItem)] /\ ItemizedIn \in [Message -> Seq(WireItem)]
<1>1. \A m \in Message : LinesIn[Msg(m.role, ToBlocks(m))] \in Seq(WireItem)
  BY SentType, ItemsMade
<1>2. \A m \in Message : LinesIn[ToItems(m)] \in Seq(WireItem)
  BY SentType, ItemsMade
<1> QED BY <1>1, <1>2 DEF WiredIn, ItemizedIn

LEMMA WiredMade ==
  /\ Flat(<<>>, WiredIn) = <<>>
  /\ \A s \in Seq(Message) : Flat(s, WiredIn) \in Seq(WireItem)
  /\ \A s \in Seq(Message), x \in Message :
       Flat(Append(s, x), WiredIn) = Flat(s, WiredIn) \o WiredIn[x]
  /\ \A s, u \in Seq(Message) : Flat(s \o u, WiredIn) = Flat(s, WiredIn) \o Flat(u, WiredIn)
<1>1. WiredIn \in [Message -> Seq(WireItem)]
  BY WiredType
<1>2. /\ Flat(<<>>, WiredIn) = <<>>
      /\ \A s \in Seq(Message) : Flat(s, WiredIn) \in Seq(WireItem)
      /\ \A s \in Seq(Message), x \in Message :
           Flat(Append(s, x), WiredIn) = Flat(s, WiredIn) \o WiredIn[x]
  BY <1>1, FlatMade
<1>3. \A s, u \in Seq(Message) : Flat(s \o u, WiredIn) = Flat(s, WiredIn) \o Flat(u, WiredIn)
  <2>1. Joins(Message, WiredIn)
    BY <1>1, FlatJoin
  <2> QED BY <2>1 DEF Joins
<1> QED BY <1>2, <1>3

\* The loop of foldMessages.
Folding(ms) ==
  CHOOSE folded : folded = [n \in 0..Len(ms) |->
                              IF n = 0 THEN <<>> ELSE FoldedIn(folded[n - 1], ms[n])]

LEMMA FoldedInType ==
  \A out \in Seq(Message), m \in Message : FoldedIn(out, m) \in Seq(Message)
<1> SUFFICES ASSUME NEW out \in Seq(Message), NEW m \in Message
             PROVE  FoldedIn(out, m) \in Seq(Message)
  OBVIOUS
<1> DEFINE bs == ToBlocks(m)
<1>1. Msg(m.role, bs) \in Message
  BY SentType
<1> HIDE DEF bs
<1>2. CASE bs = <<>>
  BY <1>2 DEF FoldedIn, bs
<1>3. CASE bs # <<>> /\ out # <<>> /\ out[Len(out)].role = m.role
  <2>1. Len(out) \in DOMAIN out /\ out[Len(out)] \in Message
    BY <1>3
  <2> DEFINE last == Msg(m.role, out[Len(out)].parts \o bs)
  <2>2. last \in Message
    BY <1>1, <1>3, <2>1, ConcatProperties DEF Message, Msg
  <2>3. FoldedIn(out, m) = [out EXCEPT ![Len(out)] = last]
    BY <1>3, <2>1 DEF FoldedIn, bs
  <2> HIDE DEF last
  <2> QED BY <2>1, <2>2, <2>3, ExceptSeq
<1>4. CASE bs # <<>> /\ ~(out # <<>> /\ out[Len(out)].role = m.role)
  <2>1. FoldedIn(out, m) = Append(out, Msg(m.role, bs))
    BY <1>4 DEF FoldedIn, bs
  <2> QED BY <1>1, <2>1, AppendProperties
<1> QED BY <1>2, <1>3, <1>4

LEMMA FoldingExists ==
  ASSUME NEW ms \in Seq(Message)
  PROVE  /\ Folding(ms)[0] = <<>>
         /\ \A n \in 1..Len(ms) : Folding(ms)[n] = FoldedIn(Folding(ms)[n - 1], ms[n])
         /\ \A n \in 0..Len(ms) : Folding(ms)[n] \in Seq(Message)
<1> DEFINE N == Len(ms)
           S == Seq(Message)
           F == [n \in 1..N |-> [s \in S |-> FoldedIn(s, ms[n])]]
           Obeys(f) == f = [n \in 0..N |-> IF n = 0 THEN <<>> ELSE FoldedIn(f[n - 1], ms[n])]
<1>1. N \in Nat /\ <<>> \in S
  BY LenProperties
<1>2. F \in [1..N -> [S -> S]]
  BY LenProperties, FoldedInType
<1>3. \A n \in 1..N, x \in S : F[n][x] = FoldedIn(x, ms[n])
  OBVIOUS
<1>4. Folding(ms) = CHOOSE f : Obeys(f)
  BY DEF Folding
<1> HIDE DEF N, S, F
<1>5. PICK f \in [0..N -> S] : Iterates(f, N, S, <<>>, F)
  BY <1>1, <1>2, Recursion
<1>6. Obeys(f)
  <2>1. \A n \in 1..N : f[n - 1] \in S
    BY <1>1
  <2>2. f[0] = <<>> /\ \A n \in 1..N : f[n] = FoldedIn(f[n - 1], ms[n])
    BY <1>3, <1>5, <2>1 DEF Iterates
  <2> QED BY <1>1, <2>2
<1>7. Obeys(Folding(ms))
  BY <1>4, <1>6
<1>8. Folding(ms)[0] = <<>> /\ \A n \in 1..N : Folding(ms)[n] = FoldedIn(Folding(ms)[n - 1], ms[n])
  BY <1>1, <1>7
<1>9. Iterates(Folding(ms), N, S, <<>>, F)
  BY <1>3, <1>8 DEF Iterates
<1>10. \A n \in 0..N : Folding(ms)[n] \in S
  BY <1>1, <1>2, <1>9, Unrolled
<1> QED BY <1>8, <1>10 DEF N, S

LEMMA LastReplaced ==
  ASSUME NEW S, NEW s \in Seq(S), NEW x \in S, NEW y \in S
  PROVE  [Append(s, x) EXCEPT ![Len(s) + 1] = y] = Append(s, y)
<1> DEFINE a == Append(s, x)
           b == Append(s, y)
           c == [a EXCEPT ![Len(s) + 1] = y]
<1>1. /\ Len(s) \in Nat /\ a \in Seq(S) /\ b \in Seq(S)
      /\ Len(a) = Len(s) + 1 /\ Len(b) = Len(s) + 1
      /\ \A i \in 1..Len(s) : a[i] = b[i]
      /\ b[Len(s) + 1] = y
  OBVIOUS
<1> HIDE DEF a, b
<1>2. Len(s) + 1 \in 1..Len(a)
  BY <1>1
<1>3. /\ c \in Seq(S) /\ Len(c) = Len(a)
      /\ \A i \in 1..Len(a) : c[i] = IF i = Len(s) + 1 THEN y ELSE a[i]
  BY <1>1, <1>2, ExceptSeq
<1> HIDE DEF c
<1>4. \A i \in 1..Len(b) : c[i] = b[i]
  BY <1>1, <1>3
<1>5. c = b
  BY <1>1, <1>3, <1>4, SeqEqual
<1> QED BY <1>5 DEF a, b, c

\* The lines of a message of one role.
Spoken(r, ps) == [j \in DOMAIN ps |-> [role |-> r, part |-> ps[j]]]

LEMMA SpokenJoin ==
  ASSUME NEW S, NEW s \in Seq(S), NEW u \in Seq(S), NEW r
  PROVE  Spoken(r, s \o u) = Spoken(r, s) \o Spoken(r, u)
<1> DEFINE L == [role : {r}, part : S]
<1>1. \A v \in Seq(S) : Spoken(r, v) \in Seq(L) /\ Len(Spoken(r, v)) = Len(v)
  <2> TAKE v \in Seq(S)
  <2>1. Spoken(r, v) \in [1..Len(v) -> L] /\ Len(v) \in Nat
    BY DEF Spoken
  <2> HIDE DEF L
  <2> QED BY <2>1, SeqDef
<1>2. \A v \in Seq(S) : \A i \in 1..Len(v) : Spoken(r, v)[i] = [role |-> r, part |-> v[i]]
  BY DEF Spoken
<1> HIDE DEF L
<1>3. /\ s \o u \in Seq(S) /\ Len(s \o u) = Len(s) + Len(u) /\ Len(s) \in Nat /\ Len(u) \in Nat
      /\ \A i \in 1..Len(s) + Len(u) :
           (s \o u)[i] = IF i <= Len(s) THEN s[i] ELSE u[i - Len(s)]
  BY ConcatProperties, LenProperties
<1> DEFINE a == Spoken(r, s)
           b == Spoken(r, u)
<1>4. a \in Seq(L) /\ b \in Seq(L) /\ Len(a) = Len(s) /\ Len(b) = Len(u)
  BY <1>1
<1> HIDE DEF a, b
<1>5. /\ a \o b \in Seq(L) /\ Len(a \o b) = Len(s) + Len(u)
      /\ \A i \in 1..Len(s) + Len(u) :
           (a \o b)[i] = IF i <= Len(s) THEN a[i] ELSE b[i - Len(s)]
  <2>1. \A p, q \in Seq(L) :
          /\ p \o q \in Seq(L) /\ Len(p \o q) = Len(p) + Len(q)
          /\ \A i \in 1..Len(p) + Len(q) :
               (p \o q)[i] = IF i <= Len(p) THEN p[i] ELSE q[i - Len(p)]
    BY ConcatProperties
  <2>2. /\ a \o b \in Seq(L) /\ Len(a \o b) = Len(a) + Len(b)
        /\ \A i \in 1..Len(a) + Len(b) :
             (a \o b)[i] = IF i <= Len(a) THEN a[i] ELSE b[i - Len(a)]
    BY <1>4, <2>1
  <2> QED BY <1>4, <2>2
<1>6. \A i \in 1..Len(s) + Len(u) : Spoken(r, s \o u)[i] = (a \o b)[i]
  <2> TAKE i \in 1..Len(s) + Len(u)
  <2>1. Spoken(r, s \o u)[i] = [role |-> r, part |-> (s \o u)[i]]
    BY <1>2, <1>3
  <2>2. CASE i <= Len(s)
    <3>1. a[i] = [role |-> r, part |-> s[i]]
      BY <1>2, <1>3, <2>2 DEF a
    <3> QED BY <1>3, <1>5, <2>1, <2>2, <3>1
  <2>3. CASE ~(i <= Len(s))
    <3>1. i - Len(s) \in 1..Len(u)
      BY <1>3, <2>3
    <3>2. b[i - Len(s)] = [role |-> r, part |-> u[i - Len(s)]]
      BY <1>2, <3>1 DEF b
    <3> QED BY <1>3, <1>5, <2>1, <2>3, <3>2
  <2> QED BY <2>2, <2>3
<1>7. Spoken(r, s \o u) \in Seq(L) /\ Len(Spoken(r, s \o u)) = Len(s) + Len(u)
  BY <1>1, <1>3
<1>8. Spoken(r, s \o u) = a \o b
  BY <1>5, <1>6, <1>7, SeqEqual
<1> QED BY <1>8 DEF a, b

\* Merging neighbours changes no line of the conversation.
LEMMA FoldedInLines ==
  ASSUME NEW out \in Seq(Message), NEW m \in Message
  PROVE  Flat(FoldedIn(out, m), LinesIn) = Flat(out, LinesIn) \o WiredIn[m]
<1> DEFINE bs == ToBlocks(m)
           new == Msg(m.role, bs)
<1>1. new \in Message /\ WiredIn[m] = LinesIn[new]
  BY SentType DEF WiredIn
<1>2. /\ \A s \in Seq(Message) : Flat(s, LinesIn) \in Seq(WireItem)
      /\ \A s \in Seq(Message), x \in Message : Flat(Append(s, x), LinesIn) = Flat(s, LinesIn) \o LinesIn[x]
      /\ \A x \in Message : LinesIn[x] \in Seq(WireItem)
  BY LinesMade
<1>3. CASE bs = <<>>
  <2>1. LinesIn[new] = <<>>
    BY <1>1, <1>3 DEF LinesIn, Msg
  <2>2. FoldedIn(out, m) = out
    BY <1>3 DEF FoldedIn
  <2>3. Flat(out, LinesIn) \o <<>> = Flat(out, LinesIn)
    BY <1>2, ConcatEmptySeq
  <2> QED BY <1>1, <2>1, <2>2, <2>3
<1>4. CASE bs # <<>> /\ out # <<>> /\ out[Len(out)].role = m.role
  <2>1. PICK front \in Seq(Message), last \in Message : out = Append(front, last)
    BY <1>4, SequenceEmptyOrAppend
  <2>2. out[Len(out)] = last /\ Len(out) = Len(front) + 1 /\ Len(front) \in Nat
    BY <2>1
  <2> DEFINE both == Msg(m.role, last.parts \o bs)
  <2>3. both \in Message /\ last.role = m.role
    <3>1. last.role = m.role
      BY <1>4, <2>2
    <3>2. \/ last.parts \in Seq(UPart) /\ bs \in Seq(UPart) /\ m.role = "user"
          \/ last.parts \in Seq(APart) /\ bs \in Seq(APart) /\ m.role = "assistant"
      BY <1>1, <3>1 DEF Message, Msg
    <3> HIDE DEF bs
    <3>4. \/ last.parts \o bs \in Seq(UPart) /\ m.role = "user"
          \/ last.parts \o bs \in Seq(APart) /\ m.role = "assistant"
      BY <3>2, ConcatProperties
    <3>5. both \in Message
      BY <3>4, MsgType
    <3> QED BY <3>1, <3>5
  <2>4. FoldedIn(out, m) = Append(front, both)
    <3>1. FoldedIn(out, m) = [out EXCEPT ![Len(out)] = both]
      BY <1>4, <2>2, <2>3 DEF FoldedIn
    <3>2. both \in Message
      BY <2>3
    <3> HIDE DEF both, bs
    <3>3. [out EXCEPT ![Len(out)] = both] = Append(front, both)
      BY <2>1, <2>2, <3>2, LastReplaced
    <3> QED BY <3>1, <3>3
  <2>5. LinesIn[both] = LinesIn[last] \o LinesIn[new]
    <3>1. \/ last.parts \in Seq(UPart) /\ bs \in Seq(UPart)
          \/ last.parts \in Seq(APart) /\ bs \in Seq(APart)
      BY <1>1, <2>3 DEF Message, Msg
    <3>2. /\ LinesIn[both] = Spoken(m.role, last.parts \o bs)
          /\ LinesIn[last] = Spoken(m.role, last.parts) /\ LinesIn[new] = Spoken(m.role, bs)
      BY <1>1, <2>3 DEF LinesIn, Msg, Spoken
    <3> HIDE DEF both, new, bs
    <3>3. \A p, q \in Seq(UPart) : Spoken(m.role, p \o q) = Spoken(m.role, p) \o Spoken(m.role, q)
      BY SpokenJoin
    <3>4. \A p, q \in Seq(APart) : Spoken(m.role, p \o q) = Spoken(m.role, p) \o Spoken(m.role, q)
      BY SpokenJoin
    <3> QED BY <3>1, <3>2, <3>3, <3>4
  <2> HIDE DEF both, new
  <2>6. Flat(Append(front, both), LinesIn) = Flat(front, LinesIn) \o (LinesIn[last] \o LinesIn[new])
    BY <1>2, <2>3, <2>5
  <2>7. Flat(out, LinesIn) = Flat(front, LinesIn) \o LinesIn[last]
    BY <1>2, <2>1
  <2>8. (Flat(front, LinesIn) \o LinesIn[last]) \o LinesIn[new]
          = Flat(front, LinesIn) \o (LinesIn[last] \o LinesIn[new])
    <3>1. Flat(front, LinesIn) \in Seq(WireItem) /\ LinesIn[last] \in Seq(WireItem)
          /\ LinesIn[new] \in Seq(WireItem)
      BY <1>1, <1>2
    <3>2. \A a, b, c \in Seq(WireItem) : (a \o b) \o c = a \o (b \o c)
      BY ConcatAssociative, SMTT(30)
    <3> QED BY <3>1, <3>2
  <2> QED BY <1>1, <2>4, <2>6, <2>7, <2>8
<1>5. CASE bs # <<>> /\ ~(out # <<>> /\ out[Len(out)].role = m.role)
  <2>1. FoldedIn(out, m) = Append(out, new)
    BY <1>5 DEF FoldedIn
  <2> HIDE DEF new
  <2> QED BY <1>1, <1>2, <2>1
<1> QED BY <1>3, <1>4, <1>5

\* What foldMessages merges is, item for item, what the messages hold.
LEMMA ItemsFolded ==
  ASSUME NEW ms \in Seq(Message)
  PROVE  Folded(ms) \in Seq(Message) /\ Items(Folded(ms)) = Flat(ms, WiredIn)
<1> DEFINE N == Len(ms)
           P == {n \in 0..N : Flat(Folding(ms)[n], LinesIn) = Flat(SubSeq(ms, 1, n), WiredIn)}
<1>1. N \in Nat /\ Folded(ms) = Folding(ms)[N]
  BY LenProperties DEF Folded, Folding
<1>2. /\ Folding(ms)[0] = <<>>
      /\ \A n \in 1..N : Folding(ms)[n] = FoldedIn(Folding(ms)[n - 1], ms[n])
      /\ \A n \in 0..N : Folding(ms)[n] \in Seq(Message)
  BY FoldingExists
<1>4. 0 \in P
  <2>1. SubSeq(ms, 1, 0) = <<>> /\ 0 \in 0..N
    BY <1>1
  <2>2. Flat(<<>>, LinesIn) = <<>> /\ Flat(<<>>, WiredIn) = <<>>
    BY LinesMade, WiredMade
  <2> HIDE DEF N
  <2> QED BY <1>2, <2>1, <2>2
<1>5. ASSUME NEW n \in 0..N - 1, n \in P
      PROVE  n + 1 \in P
  <2>1. n + 1 \in 1..N /\ n + 1 \in 0..N /\ n \in 0..N /\ (n + 1) - 1 = n
    BY <1>1
  <2>2. /\ SubSeq(ms, 1, n) \in Seq(Message) /\ ms[n + 1] \in Message
        /\ SubSeq(ms, 1, n + 1) = Append(SubSeq(ms, 1, n), ms[n + 1])
    BY <2>1
  <2> HIDE DEF N
  <2>3. Folding(ms)[n + 1] = FoldedIn(Folding(ms)[n], ms[n + 1]) /\ Folding(ms)[n] \in Seq(Message)
    BY <1>2, <2>1
  <2>4. Flat(Folding(ms)[n + 1], LinesIn) = Flat(Folding(ms)[n], LinesIn) \o WiredIn[ms[n + 1]]
    BY <2>2, <2>3, FoldedInLines
  <2>5. Flat(SubSeq(ms, 1, n + 1), WiredIn) = Flat(SubSeq(ms, 1, n), WiredIn) \o WiredIn[ms[n + 1]]
    BY <2>2, WiredMade
  <2> QED BY <1>5, <2>1, <2>4, <2>5
<1>6. 0..N \subseteq P
  <2> HIDE DEF P
  <2> QED BY <1>1, <1>4, <1>5, Induction
<1>7. SubSeq(ms, 1, N) = ms
  OBVIOUS
<1>8. Flat(Folded(ms), LinesIn) = Flat(ms, WiredIn) /\ Folded(ms) \in Seq(Message)
  <2>1. N \in 0..N
    BY <1>1
  <2>2. Flat(Folding(ms)[N], LinesIn) = Flat(SubSeq(ms, 1, N), WiredIn)
    BY <1>6, <2>1
  <2> HIDE DEF N
  <2> QED BY <1>1, <1>2, <1>7, <2>1, <2>2
<1> QED BY <1>8, ItemsMade

LEMMA ToldFlat ==
  ASSUME NEW K \in SUBSET Kinds, NEW f \in [Message -> Seq(WireItem)],
         \A m \in Message : Told(K, f[m]) = OwnIn(K)[m]
  PROVE  \A ms \in Seq(Message) : Told(K, Flat(ms, f)) = Own(K, ms)
<1>1. OwnIn(K) \in [Message -> Seq(AssistantPart(K))] /\ ToldIn(K) \in [WireItem -> Seq(AssistantPart(K))]
  BY OwnType, ToldMade
<1>2. Through(Message, WireItem, AssistantPart(K), f, ToldIn(K), OwnIn(K))
  BY <1>1 DEF Through, Told
<1>3. \A ms \in Seq(Message) : Flat(Flat(ms, f), ToldIn(K)) = Flat(ms, OwnIn(K))
  BY <1>2, FlatFlat
<1> QED BY <1>3 DEF Told, Own

\* The items of a request say, of the kinds K, what its messages say.
LEMMA ToldSent ==
  ASSUME NEW K \in SUBSET Kinds
  PROVE  \A ms \in Seq(Message) : Told(K, Items(Folded(ms))) = Own(K, ms)
<1>1. ASSUME NEW m \in Message
      PROVE  Told(K, WiredIn[m]) = OwnIn(K)[m]
  <2> DEFINE b == Msg(m.role, ToBlocks(m))
  <2>1. b \in Message /\ WiredIn[m] = LinesIn[b]
    BY SentType DEF WiredIn
  <2>2. b.role = m.role /\ (m.role # "user" => b.parts = m.parts)
    BY DEF Msg, ToBlocks
  <2> HIDE DEF b
  <2>3. Told(K, LinesIn[b]) = OwnIn(K)[b]
    BY <2>1, ToldLines
  <2>4. OwnIn(K)[b] = OwnIn(K)[m]
    BY <2>1, <2>2 DEF OwnIn
  <2> QED BY <2>1, <2>3, <2>4
<1>2. WiredIn \in [Message -> Seq(WireItem)]
  BY WiredType
<1>3. \A ms \in Seq(Message) : Told(K, Flat(ms, WiredIn)) = Own(K, ms)
  BY <1>1, <1>2, ToldFlat
<1> QED BY <1>3, ItemsFolded

LEMMA ItemsItemized ==
  ASSUME NEW ms \in Seq(Message)
  PROVE  Items([i \in DOMAIN ms |-> ToItems(ms[i])]) = Flat(ms, ItemizedIn)
<1> DEFINE ns == [i \in DOMAIN ms |-> ToItems(ms[i])]
<1>1. \A i \in DOMAIN ms : ms[i] \in Message
  OBVIOUS
<1>2. DOMAIN ns = DOMAIN ms /\ \A i \in DOMAIN ms : ns[i] = ToItems(ms[i]) /\ ns[i] \in Message
  BY <1>1, SentType
<1> HIDE DEF ns
<1>3. \A i \in DOMAIN ms :
        [j \in DOMAIN ns[i].parts |-> [role |-> ns[i].role, part |-> ns[i].parts[j]]] = ItemizedIn[ms[i]]
  BY <1>1, <1>2 DEF ItemizedIn, LinesIn
<1>4. [i \in DOMAIN ns |-> [j \in DOMAIN ns[i].parts |-> [role |-> ns[i].role, part |-> ns[i].parts[j]]]]
        = [i \in DOMAIN ms |-> ItemizedIn[ms[i]]]
  BY <1>2, <1>3
<1>5. Items(ns) = Flat(ms, ItemizedIn)
  BY <1>4 DEF Items, Flat
<1> QED BY <1>5 DEF ns

\* The items for OpenAI keep every call the messages hold.
LEMMA ToldItemized ==
  \A ms \in Seq(Message) :
    Told({"use"}, Items([i \in DOMAIN ms |-> ToItems(ms[i])])) = Own({"use"}, ms)
<1> DEFINE K == {"use"}
<1>0. K \in SUBSET Kinds
  BY DEF Kinds
<1>1. ASSUME NEW m \in Message
      PROVE  Told(K, ItemizedIn[m]) = OwnIn(K)[m]
  <2> DEFINE b == ToItems(m)
  <2>1. b \in Message /\ ItemizedIn[m] = LinesIn[b]
    BY SentType DEF ItemizedIn
  <2>2. b.role = m.role
    BY DEF Msg, ToItems
  <2>3. Told(K, LinesIn[b]) = OwnIn(K)[b]
    BY <1>0, <2>1, ToldLines
  <2>4. CASE m.role = "user"
    <3> HIDE DEF b
    <3> QED BY <2>1, <2>2, <2>3, <2>4 DEF OwnIn
  <2>5. CASE m.role = "assistant"
    <3>1. m.parts \in Seq(APart)
      BY <2>5, MessageParts
    <3> DEFINE T == AssistantPart({"text"})
               C == AssistantPart(K)
               a == Among(m.parts, T)
               c == Among(m.parts, C)
    <3>2. b.parts = a \o c
      BY <2>5 DEF ToItems, Msg
    <3>3. T \cap C = {} /\ C \subseteq C
      BY DEF AssistantPart
    <3>4. a \in Seq(APart) /\ c \in Seq(APart)
      BY <3>1, SelectedParts
    <3>5. Among(a \o c, C) = Among(a, C) \o Among(c, C)
      <4>1. \A S : \A s, u \in Seq(APart) : Among(s \o u, S) = Among(s, S) \o Among(u, S)
        BY AmongJoin
      <4> HIDE DEF a, c, C
      <4> QED BY <3>4, <4>1
    <3> HIDE DEF T, C
    <3>6. Among(a, C) = <<>> /\ Among(c, C) = c
      BY <3>1, <3>3, AmongAmong
    <3>7. <<>> \o c = c
      BY <3>4, ConcatEmptySeq
    <3>8. OwnIn(K)[b] = Among(b.parts, C) /\ OwnIn(K)[m] = c
      BY <2>1, <2>2, <2>5 DEF OwnIn, C
    <3> QED BY <2>1, <2>3, <3>2, <3>5, <3>6, <3>7, <3>8
  <2> QED BY <2>4, <2>5, MessageParts
<1>2. ItemizedIn \in [Message -> Seq(WireItem)]
  BY WiredType
<1> HIDE DEF K
<1>3. \A ms \in Seq(Message) : Told(K, Flat(ms, ItemizedIn)) = Own(K, ms)
  BY <1>0, <1>1, <1>2, ToldFlat
<1> QED BY <1>3, ItemsItemized DEF K

\* What was pruned of a message is not what the model said.
LEMMA PrunedType ==
  ASSUME NEW ms \in Seq(Message)
  PROVE  /\ Pruned(ms) \in Seq(Message) /\ Len(Pruned(ms)) = Len(ms)
         /\ \A i \in DOMAIN ms : (ms[i].role = "user" /\ Pruned(ms)[i].role = "user") \/ Pruned(ms)[i] = ms[i]
<1> DEFINE Q(m) == [j \in DOMAIN m.parts |-> Mentioned(m.parts[j])]
           P(m) == Msg(m.role, Q(m))
<1>1. ASSUME NEW m \in Message
      PROVE  P(m) \in Message /\ ((m.role = "user" /\ P(m).role = "user") \/ P(m) = m)
  <2>1. CASE m.role = "user"
    <3>1. m.parts \in Seq(UPart)
      BY <2>1, MessageParts
    <3>2. \A p \in UPart : Mentioned(p) \in UPart
      BY DEF UPart, UserPart, Mentioned, Part
    <3>3. Q(m) \in [1..Len(m.parts) -> UPart] /\ Len(m.parts) \in Nat
      BY <3>1, <3>2
    <3> HIDE DEF Q
    <3>4. Q(m) \in Seq(UPart)
      BY <3>3, SeqDef
    <3>5. P(m) \in Message
      BY <2>1, <3>4, MsgType
    <3> QED BY <2>1, <3>5 DEF Msg
  <2>2. CASE m.role = "assistant"
    <3>1. m.parts \in Seq(APart)
      BY <2>2, MessageParts
    <3>2. \A p \in APart : Mentioned(p) = p
      BY DEF APart, AssistantPart, Mentioned
    <3>3. \A j \in DOMAIN m.parts : Mentioned(m.parts[j]) = m.parts[j]
      BY <3>1, <3>2
    <3>4. Q(m) = [j \in DOMAIN m.parts |-> m.parts[j]]
      BY <3>3
    <3>5. [j \in DOMAIN m.parts |-> m.parts[j]] = m.parts
      BY <3>1
    <3> HIDE DEF Q
    <3>6. P(m) = m
      BY <2>2, <3>4, <3>5 DEF Message, Msg
    <3> QED BY <3>6
  <2> QED BY <2>1, <2>2, MessageParts
<1>2. Pruned(ms) = [i \in 1..Len(ms) |-> P(ms[i])] /\ Len(ms) \in Nat
  BY DEF Pruned
<1> HIDE DEF P, Q
<1>3. Pruned(ms) \in [1..Len(ms) -> Message]
  BY <1>1, <1>2
<1>4. Pruned(ms) \in Seq(Message) /\ Len(Pruned(ms)) = Len(ms)
  BY <1>2, <1>3, SeqDef
<1> QED BY <1>1, <1>2, <1>4

\* Pruning the assets changes nothing the model said.
LEMMA OwnPruned ==
  ASSUME NEW K \in SUBSET Kinds, NEW ms \in Seq(Message)
  PROVE  Own(K, Pruned(ms)) = Own(K, ms)
<1>1. DOMAIN Pruned(ms) = DOMAIN ms
  BY PrunedType
<1>2. \A i \in DOMAIN ms : OwnIn(K)[Pruned(ms)[i]] = OwnIn(K)[ms[i]]
  <2> TAKE i \in DOMAIN ms
  <2>1. ms[i] \in Message /\ Pruned(ms)[i] \in Message
    BY PrunedType
  <2> QED BY <2>1, PrunedType DEF OwnIn
<1>3. [i \in DOMAIN Pruned(ms) |-> OwnIn(K)[Pruned(ms)[i]]] = [i \in DOMAIN ms |-> OwnIn(K)[ms[i]]]
  BY <1>1, <1>2
<1> QED BY <1>3 DEF Own, Flat

\* The messages of the user hold nothing of the model.
LEMMA OwnUsers ==
  ASSUME NEW K \in SUBSET Kinds, NEW ms \in Seq(Message), \A i \in DOMAIN ms : ms[i].role = "user"
  PROVE  Own(K, ms) = <<>>
<1>1. \A i \in DOMAIN ms : OwnIn(K)[ms[i]] = <<>>
  <2> TAKE i \in DOMAIN ms
  <2>1. ms[i] \in Message /\ ms[i].role # "assistant"
    OBVIOUS
  <2> QED BY <2>1 DEF OwnIn
<1> QED BY <1>1, FlatNothing DEF Own

\* The items a property looks at are those parts, one for one.
LEMMA ShownTold ==
  ASSUME NEW K \in SUBSET Kinds, NEW w \in Seq(WireItem)
  PROVE  LET shown == Among(w, [role : {"assistant"}, part : AssistantPart(K)]) IN
         Len(shown) = Len(Told(K, w)) /\ \A i \in DOMAIN shown : shown[i].part = Told(K, w)[i]
<1> DEFINE S == [role : {"assistant"}, part : AssistantPart(K)]
           R == {q \in WireItem \X APart : q[1].part = q[2]}
           f == Only(WireItem, S)
           g == ToldIn(K)
<1>1. f \in [WireItem -> Seq(WireItem \cap S)] /\ Among(w, S) = Flat(w, f) /\ Among(w, S) \in Seq(WireItem \cap S)
  BY AmongIsFlat
<1>2. g \in [WireItem -> Seq(AssistantPart(K))]
  BY ToldMade
<1>3. ASSUME NEW x \in WireItem
      PROVE  Len(f[x]) = Len(g[x]) /\ \A j \in DOMAIN f[x] : <<f[x][j], g[x][j]>> \in R
  <2>1. x \in S <=> x.role = "assistant" /\ x.part \in AssistantPart(K)
    BY DEF WireItem
  <2>2. CASE x \in S
    <3>1. f[x] = <<x>> /\ g[x] = <<x.part>>
      BY <2>1, <2>2 DEF Only, ToldIn
    <3>2. <<x, x.part>> \in R
      BY <2>1, <2>2, PartsOf
    <3> HIDE DEF f, g, R
    <3> QED BY <3>1, <3>2
  <2>3. CASE x \notin S
    <3>1. f[x] = <<>> /\ g[x] = <<>>
      BY <2>1, <2>3 DEF Only, ToldIn
    <3> HIDE DEF f, g, R
    <3> QED BY <3>1
  <2> QED BY <2>2, <2>3
<1> HIDE DEF f, g, R, S
<1>4. \A s \in Seq(WireItem), s2 \in Seq(WireItem) :
        /\ Len(s) = Len(s2)
        /\ \A i \in DOMAIN s :
             /\ Len(f[s[i]]) = Len(g[s2[i]])
             /\ \A j \in DOMAIN f[s[i]] : <<f[s[i]][j], g[s2[i]][j]>> \in R
        => /\ Len(Flat(s, f)) = Len(Flat(s2, g))
           /\ \A k \in DOMAIN Flat(s, f) : <<Flat(s, f)[k], Flat(s2, g)[k]>> \in R
  BY <1>1, <1>2, FlatPaired
<1>5. /\ Len(Flat(w, f)) = Len(Flat(w, g))
      /\ \A k \in DOMAIN Flat(w, f) : <<Flat(w, f)[k], Flat(w, g)[k]>> \in R
  <2>1. \A i \in DOMAIN w : w[i] \in WireItem
    OBVIOUS
  <2> QED BY <1>3, <1>4, <2>1
<1>6. \A a, b : <<a, b>> \in R => a.part = b
  BY DEF R
<1>7. Told(K, w) = Flat(w, g)
  BY DEF Told, g
<1> QED BY <1>1, <1>5, <1>6, <1>7 DEF S
-----------------------------------------------------------------------------
(***************************************************************************)
(* The inductive invariant of the conversation with the provider.          *)
(***************************************************************************)
\* A block as the server streams it, and what the accumulator may hold.
Block == {b \in BlockOf(Kinds, {"said", "object", "broken"}) : b.type = "use" => b.body # "said"}
Call == [id : Nat, args : {"undefined", "none", "object", "raw"}]
Turn == [thinking : Seq(Nat), signed : BOOLEAN, text : Seq(Nat), calls : Seq(Call)]
Execution == [id : Nat, args : {"none", "object", "raw"}]

WireTypes ==
  /\ api \in {"anthropic", "openai"} /\ point \in {"request", "stream", "tools", "idle"}
  /\ talk \in Seq(Message) /\ replay \in Seq(Message) /\ sent \in Seq(Message)
  /\ seen \in Nat /\ resumable \in BOOLEAN /\ wire \in Seq(WireItem)
  /\ streamed \in Seq(Block) /\ blocks \in Seq(Block) /\ parts \in Seq(APart)
  /\ accum \in Turn /\ answers \in Seq(Seq(Block)) /\ ran \in Seq(Execution)
  /\ spent \in [requests : Nat, blocks : Nat, breaks : Nat]

\* What the translator of provider a makes of a block.
ArgsOf(a, b) ==
  IF b.body = "object" THEN "object"
  ELSE IF b.body = "broken" /\ a = "openai" THEN "raw" ELSE "none"
ShapeOf(a, b) ==
  CASE b.type = "use" -> <<Part("use", <<b.id>>, ArgsOf(a, b))>>
    [] b.type = "thinking" ->
         <<Part("thinking", <<b.id>>, IF b.signed THEN "signed" ELSE "unsigned")>>
    [] b.type = "text" ->
         IF b.body = "empty" THEN <<>> ELSE <<Part("text", <<b.id>>, "said")>>
ShapesIn(a) == [b \in Block |-> ShapeOf(a, b)]
Shapes(a, bs) == Flat(bs, ShapesIn(a))

\* The translator while an answer streams: Anthropic has one block open at most,
\* and everything before it is in the message.
OneOpen ==
  \/ blocks = <<>> /\ parts = Shapes(api, streamed) /\ \A i \in DOMAIN streamed : streamed[i].ended > 0
  \/ /\ streamed # <<>> /\ blocks = <<streamed[Len(streamed)]>> /\ blocks[1].ended = 0
     /\ parts = Shapes(api, SubSeq(streamed, 1, Len(streamed) - 1))
     /\ \A i \in 1..Len(streamed) - 1 : streamed[i].ended > 0
AllKept ==
  /\ parts = <<>> /\ Len(blocks) = Len(streamed)
  /\ \A i \in DOMAIN streamed :
       /\ blocks[i].id = streamed[i].id /\ blocks[i].type = streamed[i].type
       /\ blocks[i].body = streamed[i].body
       /\ blocks[i].ended = 0 <=> streamed[i].ended = 0

TranslatorInv ==
  /\ point # "stream" => streamed = <<>> /\ blocks = <<>> /\ parts = <<>>
  /\ \A i \in DOMAIN streamed : streamed[i].id <= spent.blocks
  /\ \A i, j \in DOMAIN streamed : streamed[i].id = streamed[j].id => i = j
  /\ api = "anthropic" => OneOpen
  /\ api = "openai" => AllKept

\* The calls the accumulator heard of are those of the answer.
Matched(a, calls, bs) ==
  /\ Len(calls) = Len(bs)
  /\ \A k \in DOMAIN bs :
       /\ calls[k].id = bs[k].id
       /\ calls[k].args = IF bs[k].ended = 0 THEN "undefined" ELSE ArgsOf(a, bs[k])
CallsHeard == point = "stream" => Matched(api, accum.calls, CallBlocks(streamed))

\* us are the calls made as they are shown, and as they were run.
Agree(a, us, made) ==
  /\ Len(us) = Len(made)
  /\ \A i \in DOMAIN made :
       us[i].of = <<made[i].id>> /\ (made[i].ended > 0 => us[i].body = ArgsOf(a, made[i]))
RanAs(a, rs, made) ==
  /\ Len(rs) = Len(made)
  /\ \A i \in DOMAIN made :
       rs[i].id = made[i].id /\ rs[i].args = IF made[i].ended = 0 THEN "none" ELSE ArgsOf(a, made[i])

Use == {"use"}
Made == CallBlocks(Streamed)
ViewsAgree ==
  /\ RanAs(api, ran, Made)
  /\ Agree(api, Own(Use, talk), Made)
  /\ api = "anthropic" /\ resumable => Agree(api, Own(Use, replay), Made)
  /\ api = "anthropic" /\ point = "stream" =>
       Agree(api, Own(Use, sent), Made) /\ wire = Items(Folded(sent))
  /\ api = "openai" /\ (resumable \/ point = "stream") => Agree(api, Told(Use, wire), Made)

\* After the handle there is only what the model has not seen: nothing of its own.
UnseenIsUser == resumable => \A i \in DOMAIN talk : i > seen => talk[i].role = "user"

\* As long as no turn was asked again, every request was answered or is in flight.
Whole == spent.requests = Len(answers) + (IF point = "stream" THEN 1 ELSE 0)
ChainInv ==
  /\ spent.requests >= Len(answers) + (IF point = "stream" THEN 1 ELSE 0)
  /\ Len(answers) = 0 => \A i \in DOMAIN talk : talk[i].role = "user"
  /\ api = "anthropic" /\ Whole =>
       /\ resumable \/ Len(answers) = 0
       /\ resumable => Own(Kinds, replay) = Shapes(api, Streamed)
       /\ point = "stream" =>
            /\ Own(Kinds, sent) = Shapes(api, Streamed)
            /\ resumable => sent = replay \o Delta

LEMMA Replaced ==
  ASSUME NEW S, NEW s \in Seq(S), NEW i \in DOMAIN s, NEW x \in S
  PROVE  /\ [s EXCEPT ![i] = x] \in Seq(S)
         /\ Len([s EXCEPT ![i] = x]) = Len(s) /\ DOMAIN [s EXCEPT ![i] = x] = DOMAIN s
         /\ \A j \in DOMAIN s : [s EXCEPT ![i] = x][j] = IF j = i THEN x ELSE s[j]
<1>1. i \in 1..Len(s) /\ DOMAIN s = 1..Len(s)
  OBVIOUS
<1> QED BY <1>1, ExceptSeq

LEMMA BlockFields ==
  ASSUME NEW b \in Block
  PROVE  /\ b.id \in Nat /\ b.type \in Kinds /\ b.body \in {"empty", "said", "object", "broken"}
         /\ b.signed \in BOOLEAN /\ b.ended \in 0..2 /\ (b.type = "use" => b.body # "said")
BY DEF Block, BlockOf

\* A block of which one field is another.
LEMMA BlockFilled ==
  ASSUME NEW b \in Block, NEW y \in {"said", "object", "broken"}, b.type = "use" => y # "said",
         NEW x, x = [b EXCEPT !.body = y]
  PROVE  x \in Block /\ x.id = b.id /\ x.type = b.type /\ x.body = y /\ x.ended = b.ended
BY DEF Block, BlockOf

LEMMA BlockSigned ==
  ASSUME NEW b \in Block, NEW x, x = [b EXCEPT !.signed = TRUE]
  PROVE  x \in Block /\ x.id = b.id /\ x.type = b.type /\ x.body = b.body /\ x.ended = b.ended
BY DEF Block, BlockOf

LEMMA BlockEnded ==
  ASSUME NEW b \in Block, NEW y \in 0..2, NEW x, x = [b EXCEPT !.ended = y]
  PROVE  /\ x \in Block /\ x.id = b.id /\ x.type = b.type /\ x.body = b.body
         /\ x.signed = b.signed /\ x.ended = y
BY DEF Block, BlockOf

\* What the translator of this conversation makes of a block.
LEMMA ArgsAre ==
  ASSUME WireTypes, NEW b \in Block
  PROVE  /\ b.type = "use" => Parsed(b) = ArgsOf(api, b)
         /\ Materialized(b) = ShapeOf(api, b)
         /\ ArgsOf(api, b) \in {"none", "object", "raw"}
<1>1. b.type \in Kinds /\ b.body \in {"empty", "said", "object", "broken"} /\ (b.type = "use" => b.body # "said")
  BY BlockFields
<1>2. b.type = "use" => Parsed(b) = ArgsOf(api, b)
  BY <1>1 DEF WireTypes, Parsed, ArgsOf
<1>3. ArgsOf(api, b) \in {"none", "object", "raw"}
  BY DEF ArgsOf
<1>4. Materialized(b) = ShapeOf(api, b)
  BY <1>1, <1>2 DEF Materialized, ShapeOf, Kinds
<1> QED BY <1>2, <1>3, <1>4

LEMMA ShapeType ==
  ASSUME NEW a, NEW b \in Block
  PROVE  ShapeOf(a, b) \in Seq(APart)
<1>1. b.id \in Nat /\ b.type \in Kinds
  BY BlockFields
<1>2. ArgsOf(a, b) \in {"none", "object", "raw"}
  BY DEF ArgsOf
<1>3. <<b.id>> \in Seq(Nat)
  BY <1>1
<1>4. \A k \in Kinds, x \in {"said", "signed", "unsigned", "none", "object", "raw"} :
         Part(k, <<b.id>>, x) \in APart
  BY <1>3 DEF APart, AssistantPart, Part
<1>5. \A k \in Kinds, x \in {"said", "signed", "unsigned", "none", "object", "raw"} :
         <<Part(k, <<b.id>>, x)>> \in Seq(APart)
  BY <1>4
<1>6. CASE b.type = "use"
  BY <1>2, <1>5, <1>6 DEF ShapeOf, Kinds
<1>7. CASE b.type = "thinking"
  <2>1. ShapeOf(a, b) = <<Part("thinking", <<b.id>>, IF b.signed THEN "signed" ELSE "unsigned")>>
    BY <1>7 DEF ShapeOf
  <2> QED BY <1>5, <2>1 DEF Kinds
<1>8. CASE b.type = "text"
  <2>1. ShapeOf(a, b) = IF b.body = "empty" THEN <<>> ELSE <<Part("text", <<b.id>>, "said")>>
    BY <1>8 DEF ShapeOf
  <2>2. <<>> \in Seq(APart)
    OBVIOUS
  <2> QED BY <1>5, <2>1, <2>2 DEF Kinds
<1> QED BY <1>1, <1>6, <1>7, <1>8 DEF Kinds

\* The parts that blocks leave, one block after another.
LEMMA ShapesMade ==
  ASSUME NEW a
  PROVE  /\ ShapesIn(a) \in [Block -> Seq(APart)]
         /\ Shapes(a, <<>>) = <<>>
         /\ \A bs \in Seq(Block) : Shapes(a, bs) \in Seq(APart)
         /\ \A bs \in Seq(Block), b \in Block : Shapes(a, Append(bs, b)) = Shapes(a, bs) \o ShapeOf(a, b)
         /\ \A b \in Block : Shapes(a, <<b>>) = ShapeOf(a, b)
<1>2. ShapesIn(a) \in [Block -> Seq(APart)]
  BY ShapeType DEF ShapesIn
<1>3. /\ Flat(<<>>, ShapesIn(a)) = <<>>
      /\ \A s \in Seq(Block) : Flat(s, ShapesIn(a)) \in Seq(APart)
      /\ \A s \in Seq(Block), x \in Block :
           Flat(Append(s, x), ShapesIn(a)) = Flat(s, ShapesIn(a)) \o ShapesIn(a)[x]
  BY <1>2, FlatMade
<1>4. \A x \in Block : ShapesIn(a)[x] = ShapeOf(a, x)
  BY DEF ShapesIn
<1>5. \A x \in Block : Flat(<<x>>, ShapesIn(a)) = ShapesIn(a)[x]
  BY <1>2, FlatSingle
<1> QED BY <1>2, <1>3, <1>4, <1>5 DEF Shapes

LEMMA ShapesJoin ==
  ASSUME NEW a
  PROVE  \A s, u \in Seq(Block) : Shapes(a, s \o u) = Shapes(a, s) \o Shapes(a, u)
<1>1. ShapesIn(a) \in [Block -> Seq(APart)]
  BY ShapesMade
<1>2. \A s, u \in Seq(Block) : Flat(s \o u, ShapesIn(a)) = Flat(s, ShapesIn(a)) \o Flat(u, ShapesIn(a))
  <2>1. Joins(Block, ShapesIn(a))
    BY <1>1, FlatJoin
  <2> QED BY <2>1 DEF Joins
<1> QED BY <1>2 DEF Shapes

\* The block an event is about is where the translator finds it.
LEMMA BlockAt ==
  ASSUME WireTypes, TranslatorInv, NEW i \in DOMAIN streamed,
         api = "openai" \/ streamed[i].ended = 0, NEW k, k = WithId(blocks, streamed[i].id)
  PROVE  /\ k \in DOMAIN blocks
         /\ blocks[k].id = streamed[i].id /\ blocks[k].type = streamed[i].type
         /\ blocks[k].body = streamed[i].body
         /\ api = "openai" => k = i
         /\ api = "anthropic" => i = Len(streamed) /\ blocks = <<streamed[i]>> /\ k = 1
<1>t. /\ DOMAIN streamed = 1..Len(streamed) /\ DOMAIN blocks = 1..Len(blocks)
      /\ Len(streamed) \in Nat /\ api \in {"anthropic", "openai"}
  BY DEF WireTypes
<1>1. CASE api = "openai"
  <2>1. AllKept
    BY <1>1 DEF TranslatorInv
  <2>2. DOMAIN blocks = DOMAIN streamed
    BY <1>t, <2>1 DEF AllKept
  <2>3. \A j \in DOMAIN blocks : blocks[j].id = streamed[j].id
    BY <2>1, <2>2 DEF AllKept
  <2>4. \A j \in DOMAIN blocks : blocks[j].id = streamed[i].id <=> j = i
    BY <2>2, <2>3 DEF TranslatorInv
  <2>5. k = i
    BY <2>2, <2>4 DEF WithId
  <2> QED BY <1>1, <2>1, <2>2, <2>5 DEF AllKept
<1>2. CASE api = "anthropic"
  <2>1. OneOpen /\ streamed[i].ended = 0
    BY <1>2 DEF TranslatorInv
  <2>2. ~ \A j \in DOMAIN streamed : streamed[j].ended > 0
    BY <2>1
  <2>3. /\ blocks = <<streamed[Len(streamed)]>>
        /\ \A j \in 1..Len(streamed) - 1 : streamed[j].ended > 0
    BY <2>1, <2>2 DEF OneOpen
  <2>4. i \notin 1..Len(streamed) - 1
    BY <2>1, <2>3
  <2>5. i = Len(streamed)
    BY <1>t, <2>4
  <2>6. DOMAIN blocks = {1} /\ blocks[1] = streamed[i] /\ blocks = <<streamed[i]>>
    BY <2>3, <2>5
  <2>7. k = 1
    BY <2>6 DEF WithId
  <2> QED BY <1>2, <2>5, <2>6, <2>7
<1> QED BY <1>t, <1>1, <1>2

LEMMA AnswerTypes ==
  ASSUME WireTypes
  PROVE  /\ streamed \in Seq(Block) /\ blocks \in Seq(Block) /\ parts \in Seq(APart)
         /\ Len(streamed) \in Nat /\ DOMAIN streamed = 1..Len(streamed)
         /\ Len(blocks) \in Nat /\ DOMAIN blocks = 1..Len(blocks)
         /\ \A i \in DOMAIN streamed : streamed[i] \in Block
         /\ \A i \in DOMAIN blocks : blocks[i] \in Block
<1>1. streamed \in Seq(Block) /\ blocks \in Seq(Block) /\ parts \in Seq(APart)
  BY DEF WireTypes
<1> QED BY <1>1

LEMMA HeardTypes ==
  ASSUME WireTypes
  PROVE  /\ accum \in Turn /\ accum.calls \in Seq(Call) /\ accum.text \in Seq(Nat)
         /\ accum.thinking \in Seq(Nat) /\ accum.signed \in BOOLEAN
         /\ spent \in [requests : Nat, blocks : Nat, breaks : Nat]
         /\ spent.requests \in Nat /\ spent.blocks \in Nat /\ spent.breaks \in Nat
         /\ api \in {"anthropic", "openai"}
<1>1. accum \in Turn /\ spent \in [requests : Nat, blocks : Nat, breaks : Nat] /\ api \in {"anthropic", "openai"}
  BY DEF WireTypes
<1> QED BY <1>1 DEF Turn

\* A turn with one field changed.
LEMMA TurnChanged ==
  ASSUME NEW t \in Turn
  PROVE  /\ \A y \in Seq(Call) : LET u == [t EXCEPT !.calls = y] IN u \in Turn /\ u.calls = y
         /\ \A y \in Seq(Nat) : LET u == [t EXCEPT !.text = y] IN u \in Turn /\ u.calls = t.calls
         /\ \A y \in Seq(Nat) : LET u == [t EXCEPT !.thinking = y] IN u \in Turn /\ u.calls = t.calls
         /\ \A y \in BOOLEAN : LET u == [t EXCEPT !.signed = y] IN u \in Turn /\ u.calls = t.calls
BY DEF Turn

LEMMA StartedType ==
  ASSUME WireTypes, NEW b \in Block
  PROVE  /\ Started(accum, b) \in Turn
         /\ Started(accum, b).calls = IF b.type = "use"
              THEN Append(accum.calls, [id |-> b.id, args |-> "undefined"]) ELSE accum.calls
<1> DEFINE more == Append(accum.calls, [id |-> b.id, args |-> "undefined"])
<1>1. [id |-> b.id, args |-> "undefined"] \in Call
  BY BlockFields DEF Call
<1>2. accum \in Turn /\ more \in Seq(Call)
  BY <1>1, HeardTypes, AppendProperties
<1>3. Started(accum, b) = IF b.type = "use" THEN [accum EXCEPT !.calls = more] ELSE accum
  BY DEF Started
<1> HIDE DEF more
<1>4. [accum EXCEPT !.calls = more] \in Turn /\ [accum EXCEPT !.calls = more].calls = more
  BY <1>2, TurnChanged
<1> QED BY <1>2, <1>3, <1>4 DEF more

LEMMA HeardType ==
  ASSUME WireTypes, NEW b \in Block
  PROVE  Heard(accum, b) \in Turn /\ Heard(accum, b).calls = accum.calls
<1>1. b.id \in Nat /\ b.type \in {"text", "thinking", "use"}
  BY BlockFields DEF Kinds
<1>2. accum \in Turn /\ Append(accum.text, b.id) \in Seq(Nat) /\ Append(accum.thinking, b.id) \in Seq(Nat)
  BY <1>1, HeardTypes, AppendProperties
<1> QED BY <1>1, <1>2, TurnChanged DEF Heard

LEMMA EndedType ==
  ASSUME WireTypes, NEW b \in Block
  PROVE  /\ Ended(accum, b) \in Turn
         /\ b.type # "use" => Ended(accum, b).calls = accum.calls
         /\ b.type = "use" =>
              /\ Len(Ended(accum, b).calls) = Len(accum.calls)
              /\ \A i \in DOMAIN accum.calls :
                   /\ Ended(accum, b).calls[i].id = accum.calls[i].id
                   /\ Ended(accum, b).calls[i].args =
                        IF accum.calls[i].id = b.id THEN ArgsOf(api, b) ELSE accum.calls[i].args
<1>1. b.id \in Nat /\ b.type \in {"text", "thinking", "use"} /\ b.signed \in BOOLEAN
  BY BlockFields DEF Kinds
<1>2. accum \in Turn /\ accum.signed \in BOOLEAN /\ accum.calls \in Seq(Call)
  BY HeardTypes
<1>3. CASE b.type = "use"
  <2> DEFINE E(c) == IF c.id = b.id THEN [c EXCEPT !.args = Parsed(b)] ELSE c
             cs == [i \in DOMAIN accum.calls |-> E(accum.calls[i])]
  <2>1. Parsed(b) = ArgsOf(api, b) /\ ArgsOf(api, b) \in {"none", "object", "raw"}
    BY <1>3, ArgsAre
  <2>2. ASSUME NEW c \in Call
        PROVE  E(c) \in Call /\ E(c).id = c.id /\ E(c).args = IF c.id = b.id THEN ArgsOf(api, b) ELSE c.args
    BY <2>1 DEF Call
  <2>3. \A i \in 1..Len(accum.calls) : accum.calls[i] \in Call
    BY <1>2
  <2>4. DOMAIN accum.calls = 1..Len(accum.calls) /\ Len(accum.calls) \in Nat
    BY <1>2
  <2> HIDE DEF E
  <2>5. cs \in Seq(Call) /\ Len(cs) = Len(accum.calls)
    <3>1. cs \in [1..Len(accum.calls) -> Call]
      BY <2>2, <2>3, <2>4
    <3> QED BY <2>4, <3>1, SeqDef
  <2>6. \A i \in DOMAIN accum.calls : cs[i] = E(accum.calls[i])
    OBVIOUS
  <2>7. Ended(accum, b) = [accum EXCEPT !.calls = cs]
    BY <1>3 DEF Ended, E
  <2> HIDE DEF cs
  <2>8. Ended(accum, b) \in Turn /\ Ended(accum, b).calls = cs
    BY <1>2, <2>5, <2>7, TurnChanged
  <2> QED BY <1>3, <2>2, <2>3, <2>4, <2>5, <2>6, <2>8
<1>4. CASE b.type = "thinking"
  <2>1. Ended(accum, b) = [accum EXCEPT !.signed = accum.signed \/ b.signed]
    BY <1>4 DEF Ended
  <2>2. (accum.signed \/ b.signed) \in BOOLEAN
    OBVIOUS
  <2> QED BY <1>2, <1>4, <2>1, <2>2, TurnChanged
<1>5. CASE b.type = "text"
  BY <1>2, <1>5 DEF Ended
<1> QED BY <1>1, <1>3, <1>4, <1>5

\* The types, and what the translator knows, step by step.
LEMMA BeginTypes ==
  ASSUME WireTypes, TranslatorInv, NEW type \in Kinds, Begin(type)
  PROVE  WireTypes' /\ TranslatorInv'
<1> DEFINE b == [id |-> spent.blocks + 1, type |-> type, body |-> "empty", signed |-> FALSE, ended |-> 0]
<1>1. /\ streamed' = Append(streamed, b) /\ blocks' = Append(blocks, b) /\ accum' = Started(accum, b)
      /\ spent' = [spent EXCEPT !.blocks = spent.blocks + 1]
      /\ point = "stream" /\ (api = "anthropic" => \A i \in DOMAIN streamed : streamed[i].ended > 0)
  BY DEF Begin
<1>u. UNCHANGED <<api, point, talk, seen, replay, resumable, sent, wire, parts, answers, ran>>
  BY DEF Begin
<1>2. b \in Block /\ b.id = spent.blocks + 1 /\ b.ended = 0 /\ b.type = type /\ b.body = "empty"
  BY HeardTypes DEF Block, BlockOf
<1> HIDE DEF b
<1>3. accum' \in Turn
  BY <1>1, <1>2, StartedType
<1>4. spent' \in [requests : Nat, blocks : Nat, breaks : Nat] /\ spent'.blocks = spent.blocks + 1 /\ spent.blocks \in Nat
  <2>1. spent' = [spent EXCEPT !.blocks = spent.blocks + 1]
    BY <1>1
  <2>2. spent \in [requests : Nat, blocks : Nat, breaks : Nat]
    BY HeardTypes
  <2> QED BY <2>1, <2>2
<1>5. /\ streamed' \in Seq(Block) /\ blocks' \in Seq(Block)
      /\ Len(streamed') = Len(streamed) + 1 /\ Len(blocks') = Len(blocks) + 1
      /\ \A i \in 1..Len(streamed) : streamed'[i] = streamed[i]
      /\ \A i \in 1..Len(blocks) : blocks'[i] = blocks[i]
      /\ streamed'[Len(streamed) + 1] = b /\ blocks'[Len(blocks) + 1] = b
  BY <1>1, <1>2, AnswerTypes, AppendProperties
<1>6. WireTypes'
  BY <1>3, <1>4, <1>5, <1>u DEF WireTypes
<1>7. /\ DOMAIN streamed' = 1..Len(streamed) + 1 /\ Len(streamed) \in Nat
      /\ DOMAIN streamed = 1..Len(streamed) /\ DOMAIN blocks = 1..Len(blocks)
  BY <1>5, AnswerTypes
<1>8. \A i \in DOMAIN streamed' :
        \/ i \in DOMAIN streamed /\ streamed'[i] = streamed[i]
        \/ i = Len(streamed) + 1 /\ streamed'[i] = b
  BY <1>5, <1>7
<1>9. \A i \in DOMAIN streamed : streamed[i].id \in Nat /\ streamed[i].id <= spent.blocks
  BY AnswerTypes, BlockFields DEF TranslatorInv
<1>10. \A i \in DOMAIN streamed' : streamed'[i].id <= spent'.blocks
  BY <1>2, <1>4, <1>8, <1>9
<1>11. \A i, j \in DOMAIN streamed' : streamed'[i].id = streamed'[j].id => i = j
  <2>1. \A i, j \in DOMAIN streamed : streamed[i].id = streamed[j].id => i = j
    BY DEF TranslatorInv
  <2>2. \A i \in DOMAIN streamed : streamed[i].id # b.id
    BY <1>2, <1>4, <1>9
  <2> QED BY <1>8, <2>1, <2>2
<1>12. ASSUME api = "anthropic"
       PROVE  OneOpen'
  <2>1. OneOpen /\ \A i \in DOMAIN streamed : streamed[i].ended > 0
    BY <1>1, <1>12 DEF TranslatorInv
  <2>2. blocks = <<>> /\ parts = Shapes(api, streamed)
    <3>1. ASSUME streamed # <<>> /\ blocks = <<streamed[Len(streamed)]>> /\ blocks[1].ended = 0
          PROVE  FALSE
      <4>1. Len(streamed) \in DOMAIN streamed
        BY <1>7, <3>1, AnswerTypes, EmptySeq
      <4>2. streamed[Len(streamed)].ended = 0
        BY <3>1
      <4> QED BY <2>1, <4>1, <4>2
    <3> QED BY <2>1, <3>1 DEF OneOpen
  <2>3. blocks' = <<b>> /\ streamed' # <<>> /\ streamed'[Len(streamed')] = b
    BY <1>1, <1>5, <1>7, <2>2
  <2>4. SubSeq(streamed', 1, Len(streamed') - 1) = streamed
    BY <1>1, <1>2, <1>5, <1>7, AnswerTypes
  <2>5. \A i \in 1..Len(streamed') - 1 : streamed'[i].ended > 0
    <3>1. Len(streamed') - 1 = Len(streamed)
      BY <1>5, <1>7
    <3> QED BY <1>5, <1>7, <2>1, <3>1
  <2>6. blocks'[1].ended = 0 /\ blocks' = <<streamed'[Len(streamed')]>>
    BY <1>2, <2>3
  <2> QED BY <1>u, <2>2, <2>3, <2>4, <2>5, <2>6 DEF OneOpen
<1>13. ASSUME api = "openai"
       PROVE  AllKept'
  <2>1. AllKept
    BY <1>13 DEF TranslatorInv
  <2>2. /\ parts = <<>> /\ Len(blocks) = Len(streamed)
        /\ \A i \in DOMAIN streamed :
             /\ blocks[i].id = streamed[i].id /\ blocks[i].type = streamed[i].type
             /\ blocks[i].body = streamed[i].body
             /\ blocks[i].ended = 0 <=> streamed[i].ended = 0
    BY <2>1 DEF AllKept
  <2>3. \A i \in DOMAIN streamed : blocks'[i] = blocks[i] /\ streamed'[i] = streamed[i]
    BY <1>5, <1>7, <2>2
  <2>4. blocks'[Len(streamed) + 1] = b /\ streamed'[Len(streamed) + 1] = b
    BY <1>5, <2>2
  <2>5. parts' = <<>> /\ Len(blocks') = Len(streamed')
    BY <1>5, <1>u, <2>2
  <2> QED BY <1>8, <2>2, <2>3, <2>4, <2>5 DEF AllKept
<1>14. TranslatorInv'
  BY <1>1, <1>10, <1>11, <1>12, <1>13, <1>u DEF TranslatorInv
<1> QED BY <1>6, <1>14

\* An event of a block replaces it where the server streamed it.
LEMMA EventTypes ==
  ASSUME WireTypes, TranslatorInv, NEW i \in DOMAIN streamed, NEW x \in Block,
         x.id = streamed[i].id, streamed' = [streamed EXCEPT ![i] = x], spent' = spent
  PROVE  /\ streamed' \in Seq(Block) /\ Len(streamed') = Len(streamed)
         /\ DOMAIN streamed' = DOMAIN streamed
         /\ \A j \in DOMAIN streamed : streamed'[j] = IF j = i THEN x ELSE streamed[j]
         /\ \A j \in DOMAIN streamed' : streamed'[j].id <= spent'.blocks
         /\ \A j, n \in DOMAIN streamed' : streamed'[j].id = streamed'[n].id => j = n
<1>1. /\ streamed' \in Seq(Block) /\ Len(streamed') = Len(streamed)
      /\ DOMAIN streamed' = DOMAIN streamed
      /\ \A j \in DOMAIN streamed : streamed'[j] = IF j = i THEN x ELSE streamed[j]
  BY AnswerTypes, Replaced
<1>2. \A j \in DOMAIN streamed : streamed'[j].id = streamed[j].id
  BY <1>1
<1>3. /\ \A j \in DOMAIN streamed : streamed[j].id <= spent.blocks
      /\ \A j, n \in DOMAIN streamed : streamed[j].id = streamed[n].id => j = n
  BY DEF TranslatorInv
<1> QED BY <1>1, <1>2, <1>3

LEMMA KeptAfter ==
  ASSUME WireTypes, AllKept, NEW i \in DOMAIN streamed, NEW x \in Block, NEW y \in Block,
         streamed' = [streamed EXCEPT ![i] = x], blocks' = [blocks EXCEPT ![i] = y],
         x.id = y.id /\ x.type = y.type /\ x.body = y.body, y.ended = 0 <=> x.ended = 0,
         parts' = parts
  PROVE  AllKept'
<1>1. /\ parts = <<>> /\ Len(blocks) = Len(streamed)
      /\ \A j \in DOMAIN streamed :
           /\ blocks[j].id = streamed[j].id /\ blocks[j].type = streamed[j].type
           /\ blocks[j].body = streamed[j].body
           /\ blocks[j].ended = 0 <=> streamed[j].ended = 0
  BY DEF AllKept
<1>2. DOMAIN blocks = DOMAIN streamed
  BY <1>1, AnswerTypes
<1>3. /\ Len(streamed') = Len(streamed) /\ DOMAIN streamed' = DOMAIN streamed
      /\ \A j \in DOMAIN streamed : streamed'[j] = IF j = i THEN x ELSE streamed[j]
  BY AnswerTypes, Replaced
<1>4. /\ Len(blocks') = Len(blocks)
      /\ \A j \in DOMAIN streamed : blocks'[j] = IF j = i THEN y ELSE blocks[j]
  BY <1>2, AnswerTypes, Replaced
<1> QED BY <1>1, <1>3, <1>4 DEF AllKept

LEMMA OpenAfter ==
  ASSUME WireTypes, OneOpen, NEW i, i = Len(streamed), i \in DOMAIN streamed, blocks = <<streamed[i]>>,
         NEW x \in Block, x.ended = 0,
         streamed' = [streamed EXCEPT ![i] = x], blocks' = <<x>>, parts' = parts, api' = api
  PROVE  OneOpen'
<1>1. DOMAIN streamed = 1..Len(streamed) /\ Len(streamed) \in Nat
  BY AnswerTypes
<1>2. /\ parts = Shapes(api, SubSeq(streamed, 1, Len(streamed) - 1))
      /\ \A j \in 1..Len(streamed) - 1 : streamed[j].ended > 0
  BY DEF OneOpen
<1>3. /\ Len(streamed') = Len(streamed) /\ streamed' \in Seq(Block)
      /\ \A j \in DOMAIN streamed : streamed'[j] = IF j = i THEN x ELSE streamed[j]
  BY AnswerTypes, Replaced
<1>4. \A j \in 1..Len(streamed) - 1 : streamed'[j] = streamed[j]
  BY <1>1, <1>3
<1>5. SubSeq(streamed', 1, Len(streamed') - 1) = SubSeq(streamed, 1, Len(streamed) - 1)
  BY <1>1, <1>3, <1>4, AnswerTypes
<1>6. streamed'[Len(streamed')] = x /\ streamed' # <<>>
  BY <1>1, <1>3
<1>7. blocks'[1].ended = 0
  OBVIOUS
<1>8. \A j \in 1..Len(streamed') - 1 : streamed'[j].ended > 0
  BY <1>2, <1>3, <1>4
<1> QED BY <1>2, <1>5, <1>6, <1>7, <1>8 DEF OneOpen

LEMMA FillTypes ==
  ASSUME WireTypes, TranslatorInv, NEW i \in DOMAIN streamed, NEW body, Fill(i, body)
  PROVE  WireTypes' /\ TranslatorInv'
<1> DEFINE k == WithId(blocks, streamed[i].id)
           s == [streamed[i] EXCEPT !.body = body]
           b == [blocks[k] EXCEPT !.body = body]
<1>1. /\ point = "stream" /\ streamed[i].ended = 0
      /\ body \in (IF streamed[i].type = "use" THEN {"object", "broken"} ELSE {"said"})
      /\ streamed' = [streamed EXCEPT ![i] = s] /\ blocks' = [blocks EXCEPT ![k] = b]
      /\ accum' = Heard(accum, streamed[i])
  BY DEF Fill
<1>u. UNCHANGED <<api, point, talk, seen, replay, resumable, sent, wire, parts, answers, ran, spent>>
  BY DEF Fill
<1>2. /\ k \in DOMAIN blocks
      /\ blocks[k].id = streamed[i].id /\ blocks[k].type = streamed[i].type
      /\ api = "openai" => k = i
      /\ api = "anthropic" => i = Len(streamed) /\ blocks = <<streamed[i]>> /\ k = 1
  BY <1>1, BlockAt
<1>3. streamed[i] \in Block /\ blocks[k] \in Block
  BY <1>2, AnswerTypes
<1>b. body \in {"said", "object", "broken"} /\ (streamed[i].type = "use" => body # "said")
  BY <1>1
<1>4. /\ s \in Block /\ s.id = streamed[i].id /\ s.type = streamed[i].type /\ s.body = body
      /\ s.ended = streamed[i].ended
  BY <1>b, <1>3, BlockFilled
<1>5. /\ b \in Block /\ b.id = blocks[k].id /\ b.type = blocks[k].type /\ b.body = body
      /\ b.ended = blocks[k].ended
  BY <1>b, <1>2, <1>3, BlockFilled
<1>6. accum' \in Turn
  BY <1>1, <1>3, HeardType
<1>7. api = "anthropic" => s = b
  BY <1>2
<1> HIDE DEF k, s, b
<1>8. blocks' \in Seq(Block)
  BY <1>1, <1>2, <1>5, AnswerTypes, Replaced
<1>9. /\ streamed' \in Seq(Block)
      /\ \A j \in DOMAIN streamed' : streamed'[j].id <= spent'.blocks
      /\ \A j, n \in DOMAIN streamed' : streamed'[j].id = streamed'[n].id => j = n
  BY <1>1, <1>4, <1>u, EventTypes
<1>10. WireTypes'
  BY <1>6, <1>8, <1>9, <1>u DEF WireTypes
<1>11. ASSUME api = "anthropic"
       PROVE  OneOpen'
  <2>1. OneOpen
    BY <1>11 DEF TranslatorInv
  <2>2. blocks' = <<s>>
    BY <1>1, <1>2, <1>7, <1>11
  <2>3. s.ended = 0
    BY <1>1, <1>4
  <2> QED BY <1>1, <1>2, <1>4, <1>11, <1>u, <2>1, <2>2, <2>3, OpenAfter
<1>12. ASSUME api = "openai"
       PROVE  AllKept'
  <2>1. AllKept /\ k = i
    BY <1>2, <1>12 DEF TranslatorInv
  <2>2. blocks[i].ended = 0 <=> streamed[i].ended = 0
    BY <2>1 DEF AllKept
  <2> QED BY <1>1, <1>2, <1>4, <1>5, <1>u, <2>1, <2>2, KeptAfter
<1>13. TranslatorInv'
  BY <1>1, <1>9, <1>11, <1>12, <1>u DEF TranslatorInv
<1> QED BY <1>10, <1>13

LEMMA SignTypes ==
  ASSUME WireTypes, TranslatorInv, NEW i \in DOMAIN streamed, Sign(i)
  PROVE  WireTypes' /\ TranslatorInv'
<1> DEFINE k == WithId(blocks, streamed[i].id)
           s == [streamed[i] EXCEPT !.signed = TRUE]
           b == [blocks[k] EXCEPT !.signed = TRUE]
<1>1. /\ point = "stream" /\ streamed[i].ended = 0 /\ api = "anthropic"
      /\ streamed' = [streamed EXCEPT ![i] = s] /\ blocks' = [blocks EXCEPT ![k] = b]
  BY DEF Sign
<1>u. UNCHANGED <<api, point, talk, seen, replay, resumable, sent, wire, parts, accum, answers, ran, spent>>
  BY DEF Sign
<1>2. k \in DOMAIN blocks /\ i = Len(streamed) /\ blocks = <<streamed[i]>> /\ k = 1
  BY <1>1, BlockAt
<1>3. streamed[i] \in Block
  BY AnswerTypes
<1>4. s \in Block /\ s.id = streamed[i].id /\ s.ended = streamed[i].ended
  BY <1>3, BlockSigned
<1>5. b = s
  <2>1. blocks[k] = streamed[i]
    BY <1>2
  <2> QED BY <2>1
<1> HIDE DEF k, s, b
<1>6. blocks' = <<s>>
  BY <1>1, <1>2, <1>5
<1>7. /\ streamed' \in Seq(Block)
      /\ \A j \in DOMAIN streamed' : streamed'[j].id <= spent'.blocks
      /\ \A j, n \in DOMAIN streamed' : streamed'[j].id = streamed'[n].id => j = n
  BY <1>1, <1>4, <1>u, EventTypes
<1>8. blocks' \in Seq(Block)
  BY <1>4, <1>6
<1>9. WireTypes'
  BY <1>7, <1>8, <1>u DEF WireTypes
<1>10. OneOpen'
  <2>1. OneOpen
    BY <1>1 DEF TranslatorInv
  <2>2. s.ended = 0
    BY <1>1, <1>4
  <2> QED BY <1>1, <1>2, <1>4, <1>6, <1>u, <2>1, <2>2, OpenAfter
<1>11. TranslatorInv'
  BY <1>1, <1>7, <1>10, <1>u DEF TranslatorInv
<1> QED BY <1>9, <1>11

\* Whether a block has ended is not seen in what it leaves.
LEMMA ShapeEnded ==
  ASSUME NEW a, NEW b \in Block, NEW y \in 0..2, NEW x, x = [b EXCEPT !.ended = y]
  PROVE  ShapeOf(a, x) = ShapeOf(a, b)
<1>1. x.id = b.id /\ x.type = b.type /\ x.body = b.body /\ x.signed = b.signed
  BY BlockEnded
<1>2. ArgsOf(a, x) = ArgsOf(a, b)
  BY <1>1 DEF ArgsOf
<1>3. CASE b.type = "use"
  BY <1>1, <1>2, <1>3 DEF ShapeOf
<1>4. CASE b.type = "thinking"
  BY <1>1, <1>4 DEF ShapeOf
<1>5. CASE b.type = "text"
  BY <1>1, <1>5 DEF ShapeOf
<1>6. b.type \in {"text", "thinking", "use"}
  BY BlockFields DEF Kinds
<1> QED BY <1>3, <1>4, <1>5, <1>6

LEMMA LastIndex ==
  ASSUME NEW n \in Nat
  PROVE  \A j \in 1..n : j \in 1..n - 1 \/ j = n
OBVIOUS

LEMMA LastOther ==
  ASSUME NEW S, NEW s \in Seq(S), NEW i, i = Len(s), i \in DOMAIN s, NEW y \in S
  PROVE  /\ SubSeq(s, 1, i - 1) \in Seq(S)
         /\ s = Append(SubSeq(s, 1, i - 1), s[i])
         /\ [s EXCEPT ![i] = y] = Append(SubSeq(s, 1, i - 1), y)
<1> DEFINE u == SubSeq(s, 1, i - 1)
<1>1. DOMAIN s = 1..i /\ i \in Nat /\ s[i] \in S /\ i >= 1
  OBVIOUS
<1>2. u \in Seq(S) /\ Len(u) = i - 1 /\ \A j \in 1..i - 1 : u[j] = s[j]
  BY <1>1
<1>3. s = Append(u, s[i])
  BY <1>1
<1>4. Len(u) + 1 = i
  BY <1>1, <1>2
<1> HIDE DEF u
<1>5. [Append(u, s[i]) EXCEPT ![Len(u) + 1] = y] = Append(u, y)
  BY <1>1, <1>2, LastReplaced
<1>6. [Append(u, s[i]) EXCEPT ![i] = y] = Append(u, y)
  BY <1>4, <1>5
<1> QED BY <1>2, <1>3, <1>6 DEF u

LEMMA BlockStopTypes ==
  ASSUME WireTypes, TranslatorInv, NEW i \in DOMAIN streamed, BlockStop(i)
  PROVE  WireTypes' /\ TranslatorInv'
<1> DEFINE k == WithId(blocks, streamed[i].id)
           s == [streamed[i] EXCEPT !.ended = 1]
           L == Len(streamed)
           before == SubSeq(streamed, 1, L - 1)
<1>1. /\ point = "stream" /\ streamed[i].ended = 0 /\ api = "anthropic"
      /\ streamed' = [streamed EXCEPT ![i] = s] /\ blocks' = RemoveAt(blocks, k)
      /\ parts' = parts \o Materialized(blocks[k]) /\ accum' = Ended(accum, blocks[k])
  BY DEF BlockStop, Unfinished
<1>u. UNCHANGED <<api, point, talk, seen, replay, resumable, sent, wire, answers, ran, spent>>
  BY DEF BlockStop
<1>2. k \in DOMAIN blocks /\ i = L /\ blocks = <<streamed[i]>> /\ k = 1
  BY <1>1, BlockAt
<1>3. streamed[i] \in Block /\ blocks[k] = streamed[i]
  BY <1>2, AnswerTypes
<1>4. s \in Block /\ s.id = streamed[i].id /\ s.ended = 1
  BY <1>3, BlockEnded
<1>5. ShapeOf(api, s) = ShapeOf(api, streamed[i])
  BY <1>3, ShapeEnded
<1>6. Materialized(blocks[k]) = ShapeOf(api, streamed[i]) /\ ShapeOf(api, streamed[i]) \in Seq(APart)
  BY <1>3, ArgsAre, ShapeType
<1>7. accum' \in Turn
  BY <1>1, <1>3, EndedType
<1> HIDE DEF k, s
<1>8. blocks' = <<>>
  <2>1. RemoveAt(<<streamed[i]>>, 1) = <<>>
    BY DEF RemoveAt
  <2> QED BY <1>1, <1>2, <2>1
<1>9. parts' = parts \o ShapeOf(api, streamed[i])
  BY <1>1, <1>6
<1>10. parts' \in Seq(APart)
  BY <1>6, <1>9, AnswerTypes, ConcatProperties
<1>11. /\ streamed' \in Seq(Block) /\ Len(streamed') = L /\ DOMAIN streamed' = DOMAIN streamed
       /\ \A j \in DOMAIN streamed : streamed'[j] = IF j = i THEN s ELSE streamed[j]
       /\ \A j \in DOMAIN streamed' : streamed'[j].id <= spent'.blocks
       /\ \A j, n \in DOMAIN streamed' : streamed'[j].id = streamed'[n].id => j = n
  BY <1>1, <1>4, <1>u, EventTypes
<1>12. WireTypes'
  BY <1>7, <1>8, <1>10, <1>11, <1>u DEF WireTypes
<1>13. OneOpen'
  <2>1. OneOpen
    BY <1>1 DEF TranslatorInv
  <2>2. parts = Shapes(api, before) /\ \A j \in 1..L - 1 : streamed[j].ended > 0
    BY <1>2, <2>1 DEF OneOpen
  <2>3. DOMAIN streamed = 1..L /\ L \in Nat /\ L >= 1 /\ streamed \in Seq(Block)
    BY <1>2, AnswerTypes
  <2>4. before \in Seq(Block) /\ Len(before) = L - 1 /\ \A j \in 1..L - 1 : before[j] = streamed[j]
    BY <2>3
  <2> HIDE DEF before
  <2>5. streamed' = Append(before, s)
    BY <1>1, <1>2, <1>4, <2>3, LastOther DEF before
  <2>6. Shapes(api, streamed') = Shapes(api, before) \o ShapeOf(api, s)
    BY <1>4, <2>4, <2>5, ShapesMade
  <2>7. parts' = Shapes(api', streamed')
    BY <1>5, <1>9, <1>u, <2>2, <2>6
  <2>8. \A j \in DOMAIN streamed' : streamed'[j].ended > 0
    <3>1. \A j \in 1..L : j \in 1..L - 1 \/ j = L
      BY <2>3, LastIndex
    <3> QED BY <1>2, <1>4, <1>11, <2>2, <2>3, <3>1
  <2> QED BY <1>8, <2>7, <2>8 DEF OneOpen
<1>14. TranslatorInv'
  BY <1>1, <1>11, <1>13, <1>u DEF TranslatorInv
<1> QED BY <1>12, <1>14

LEMMA CallDoneTypes ==
  ASSUME WireTypes, TranslatorInv, NEW i \in DOMAIN streamed, CallDone(i)
  PROVE  WireTypes' /\ TranslatorInv'
<1> DEFINE k == WithId(blocks, streamed[i].id)
           s == [streamed[i] EXCEPT !.ended = streamed[i].ended + 1]
           b == [blocks[k] EXCEPT !.ended = 1]
<1>1. /\ point = "stream" /\ api = "openai" /\ streamed[i].ended < 2
      /\ streamed' = [streamed EXCEPT ![i] = s] /\ blocks' = [blocks EXCEPT ![k] = b]
      /\ accum' = IF blocks[k].ended = 0 THEN Ended(accum, blocks[k]) ELSE accum
  BY DEF CallDone
<1>u. UNCHANGED <<api, point, talk, seen, replay, resumable, sent, wire, parts, answers, ran, spent>>
  BY DEF CallDone
<1>2. /\ k \in DOMAIN blocks /\ k = i
      /\ blocks[k].id = streamed[i].id /\ blocks[k].type = streamed[i].type
      /\ blocks[k].body = streamed[i].body
  BY <1>1, BlockAt
<1>3. streamed[i] \in Block /\ blocks[k] \in Block
  BY <1>2, AnswerTypes
<1>4. streamed[i].ended + 1 \in 0..2 /\ streamed[i].ended + 1 # 0
  BY <1>1, <1>3, BlockFields
<1>5. /\ s \in Block /\ s.id = streamed[i].id /\ s.type = streamed[i].type /\ s.body = streamed[i].body
      /\ s.ended # 0
  BY <1>3, <1>4, BlockEnded
<1>6. /\ b \in Block /\ b.id = blocks[k].id /\ b.type = blocks[k].type /\ b.body = blocks[k].body
      /\ b.ended # 0
  BY <1>3, BlockEnded
<1>7. accum' \in Turn
  BY <1>1, <1>3, EndedType, HeardTypes
<1> HIDE DEF k, s, b
<1>8. blocks' \in Seq(Block)
  BY <1>1, <1>2, <1>6, AnswerTypes, Replaced
<1>9. /\ streamed' \in Seq(Block)
      /\ \A j \in DOMAIN streamed' : streamed'[j].id <= spent'.blocks
      /\ \A j, n \in DOMAIN streamed' : streamed'[j].id = streamed'[n].id => j = n
  BY <1>1, <1>5, <1>u, EventTypes
<1>10. WireTypes'
  BY <1>7, <1>8, <1>9, <1>u DEF WireTypes
<1>11. AllKept'
  <2>1. AllKept
    BY <1>1 DEF TranslatorInv
  <2>2. blocks' = [blocks EXCEPT ![i] = b]
    BY <1>1, <1>2
  <2>3. s.id = b.id /\ s.type = b.type /\ s.body = b.body
    BY <1>2, <1>5, <1>6
  <2>4. b.ended = 0 <=> s.ended = 0
    BY <1>5, <1>6
  <2>5. streamed' = [streamed EXCEPT ![i] = s] /\ s \in Block /\ b \in Block /\ parts' = parts
    BY <1>1, <1>5, <1>6, <1>u
  <2> QED BY <2>1, <2>2, <2>3, <2>4, <2>5, KeptAfter
<1>12. TranslatorInv'
  BY <1>1, <1>9, <1>11, <1>u DEF TranslatorInv
<1> QED BY <1>10, <1>12

\* What the conversation may be given: the message of a user, the calls an
\* answer is said to make, and what is left of the blocks still open.
LEMMA DeltaType ==
  ASSUME WireTypes
  PROVE  /\ Delta \in Seq(Message)
         /\ ~resumable => Delta = talk
         /\ \A i \in DOMAIN Delta : \E j \in DOMAIN talk : Delta[i] = talk[j] /\ (resumable => j > seen)
<1>1. talk \in Seq(Message) /\ seen \in Nat /\ resumable \in BOOLEAN /\ Len(talk) \in Nat
  BY DEF WireTypes
<1> DEFINE from == IF resumable THEN seen + 1 ELSE 1
<1>2. from \in Nat /\ from >= 1 /\ (resumable => from > seen)
  BY <1>1
<1>3. Delta = SubSeq(talk, from, Len(talk))
  BY DEF Delta
<1>4. ~resumable => from = 1
  OBVIOUS
<1> HIDE DEF from
<1>5. \A i \in from..Len(talk) : talk[i] \in Message /\ i \in DOMAIN talk
  BY <1>1, <1>2
<1>6. /\ Delta \in Seq(Message)
      /\ Len(Delta) = IF from <= Len(talk) THEN Len(talk) - from + 1 ELSE 0
      /\ \A i \in 1..Len(talk) - from + 1 : Delta[i] = talk[from + i - 1]
  BY <1>1, <1>2, <1>3, <1>5, SubSeqProperties
<1>7. ~resumable => Delta = talk
  BY <1>1, <1>3, <1>4
<1>8. ASSUME NEW i \in DOMAIN Delta
      PROVE  \E j \in DOMAIN talk : Delta[i] = talk[j] /\ (resumable => j > seen)
  <2>1. i \in 1..Len(talk) - from + 1
    BY <1>1, <1>2, <1>6
  <2>2. from + i - 1 \in from..Len(talk) /\ (resumable => from + i - 1 > seen)
    BY <1>1, <1>2, <2>1
  <2>3. from + i - 1 \in DOMAIN talk /\ Delta[i] = talk[from + i - 1]
    BY <1>5, <1>6, <2>1, <2>2
  <2> QED BY <2>2, <2>3
<1> QED BY <1>6, <1>7, <1>8

\* What message_stop flushes is what the open blocks leave.
LEMMA FlushedIs ==
  ASSUME WireTypes
  PROVE  Flushed = Shapes(api, blocks) /\ Flushed \in Seq(APart)
<1>1. \A i \in DOMAIN blocks : Materialized(blocks[i]) = ShapesIn(api)[blocks[i]]
  <2> TAKE i \in DOMAIN blocks
  <2>1. blocks[i] \in Block
    BY AnswerTypes
  <2> QED BY <2>1, ArgsAre DEF ShapesIn
<1>2. [i \in DOMAIN blocks |-> Materialized(blocks[i])] = [i \in DOMAIN blocks |-> ShapesIn(api)[blocks[i]]]
  BY <1>1
<1>3. Flushed = Shapes(api, blocks)
  BY <1>2 DEF Flushed, Shapes, Flat
<1> QED BY <1>3, AnswerTypes, ShapesMade

\* The assistant message holds exactly what the blocks of the answer leave, whether
\* their stops arrived or not.
LEMMA MessageIs ==
  ASSUME WireTypes, TranslatorInv
  PROVE  /\ parts \o Flushed \in Seq(APart)
         /\ api = "anthropic" => parts \o Flushed = Shapes(api, streamed)
<1>1. parts \o Flushed \in Seq(APart)
  BY FlushedIs, AnswerTypes, ConcatProperties
<1>2. ASSUME api = "anthropic"
      PROVE  parts \o Flushed = Shapes(api, streamed)
  <2>0. OneOpen
    BY <1>2 DEF TranslatorInv
  <2>1. CASE blocks = <<>> /\ parts = Shapes(api, streamed)
    <3>1. Flushed = <<>>
      BY <2>1, FlushedIs, ShapesMade
    <3> QED BY <2>1, <3>1, AnswerTypes
  <2>2. CASE streamed # <<>> /\ blocks = <<streamed[Len(streamed)]>>
             /\ parts = Shapes(api, SubSeq(streamed, 1, Len(streamed) - 1))
    <3>1. Len(streamed) \in DOMAIN streamed /\ streamed[Len(streamed)] \in Block
      BY <2>2, AnswerTypes, EmptySeq
    <3> DEFINE u == SubSeq(streamed, 1, Len(streamed) - 1)
               x == streamed[Len(streamed)]
    <3>2. u \in Seq(Block) /\ streamed = Append(u, x)
      BY <3>1, AnswerTypes, LastOther
    <3>3. Flushed = ShapeOf(api, x)
      BY <2>2, <3>1, FlushedIs, ShapesMade
    <3>4. parts = Shapes(api, u)
      BY <2>2
    <3> HIDE DEF u
    <3>5. Shapes(api, Append(u, x)) = Shapes(api, u) \o ShapeOf(api, x)
      BY <3>1, <3>2, ShapesMade
    <3> QED BY <3>2, <3>3, <3>4, <3>5
  <2> QED BY <2>0, <2>1, <2>2 DEF OneOpen
<1> QED BY <1>1, <1>2

LEMMA GivenType ==
  ASSUME NEW c \in Call
  PROVE  c.id \in Nat /\ Given(c.args) \in {"none", "object", "raw"}
BY DEF Call, Given

\* The calls of a turn, as the message for the history says them.
CallParts(t) == [i \in DOMAIN t.calls |-> Part("use", <<t.calls[i].id>>, Given(t.calls[i].args))]

LEMMA FinalizedIs ==
  ASSUME NEW t \in Turn
  PROVE  /\ Finalized(t) \in Seq(APart) /\ CallParts(t) \in Seq(AssistantPart(Use))
         /\ Among(Finalized(t), AssistantPart(Use)) = CallParts(t)
         /\ \E u \in Seq(AssistantPart({"thinking", "text"})) : Finalized(t) = u \o CallParts(t)
<1> DEFINE th == IF t.thinking = <<>> THEN <<>>
                 ELSE <<Part("thinking", t.thinking, IF t.signed THEN "signed" ELSE "unsigned")>>
           tx == IF t.text = <<>> THEN <<>> ELSE <<Part("text", t.text, "said")>>
           cs == CallParts(t)
           Other == AssistantPart({"thinking", "text"})
<1>1. t.thinking \in Seq(Nat) /\ t.text \in Seq(Nat) /\ t.calls \in Seq(Call)
  BY DEF Turn
<1>2. \A y \in {"signed", "unsigned"} : Part("thinking", t.thinking, y) \in Other
  BY <1>1 DEF AssistantPart, Part
<1>3. Part("text", t.text, "said") \in Other
  BY <1>1 DEF AssistantPart, Part
<1>4. th \in Seq(Other)
  <2>1. <<>> \in Seq(Other) /\ \A q \in Other : <<q>> \in Seq(Other)
    OBVIOUS
  <2> HIDE DEF Other
  <2> QED BY <1>2, <2>1
<1>5. tx \in Seq(Other)
  <2>1. <<>> \in Seq(Other) /\ \A q \in Other : <<q>> \in Seq(Other)
    OBVIOUS
  <2> HIDE DEF Other
  <2> QED BY <1>3, <2>1
<1>6. cs \in Seq(AssistantPart(Use))
  <2>1. \A i \in DOMAIN t.calls : t.calls[i].id \in Nat /\ Given(t.calls[i].args) \in {"none", "object", "raw"}
    BY <1>1, GivenType
  <2>2. \A id \in Nat, y \in {"none", "object", "raw"} : Part("use", <<id>>, y) \in AssistantPart(Use)
    <3>1. \A id \in Nat : <<id>> \in Seq(Nat)
      OBVIOUS
    <3> QED BY <3>1 DEF AssistantPart, Part, Use
  <2>3. DOMAIN t.calls = 1..Len(t.calls) /\ Len(t.calls) \in Nat
    BY <1>1
  <2>4. cs \in [1..Len(t.calls) -> AssistantPart(Use)]
    BY <2>1, <2>2, <2>3 DEF CallParts
  <2> HIDE DEF cs
  <2> QED BY <2>3, <2>4, SeqDef
<1>7. Finalized(t) = (th \o tx) \o cs
  BY DEF Finalized, CallParts
<1>8. Other \subseteq APart /\ AssistantPart(Use) \subseteq APart
  BY PartsOf DEF Use, Kinds
<1>9. Other \cap AssistantPart(Use) = {}
  BY DEF AssistantPart, Use
<1> HIDE DEF th, tx, cs, Other
<1>10. th \in Seq(APart) /\ tx \in Seq(APart) /\ cs \in Seq(APart)
  BY <1>4, <1>5, <1>6, <1>8, SeqMonotonic
<1>11. th \o tx \in Seq(APart) /\ th \o tx \in Seq(Other) /\ Finalized(t) \in Seq(APart)
  BY <1>4, <1>5, <1>7, <1>10, ConcatProperties
<1>12. Among(th \o tx, AssistantPart(Use)) = <<>> /\ Among(cs, AssistantPart(Use)) = cs
  BY <1>6, <1>9, <1>11, AmongAll
<1>13. Among((th \o tx) \o cs, AssistantPart(Use)) = Among(th \o tx, AssistantPart(Use)) \o Among(cs, AssistantPart(Use))
  <2>1. \A s, t2 \in Seq(APart) :
          Among(s \o t2, AssistantPart(Use)) = Among(s, AssistantPart(Use)) \o Among(t2, AssistantPart(Use))
    BY AmongJoin
  <2> QED BY <1>10, <1>11, <2>1
<1>14. \E u \in Seq(Other) : Finalized(t) = u \o cs
  BY <1>7, <1>11
<1>15. <<>> \o cs = cs
  BY <1>6, ConcatEmptySeq
<1>16. Among(Finalized(t), AssistantPart(Use)) = cs
  BY <1>7, <1>12, <1>13, <1>15
<1> QED BY <1>6, <1>11, <1>14, <1>16 DEF cs, Other

LEMMA NoAnswer ==
  ASSUME streamed' = <<>>, blocks' = <<>>, parts' = <<>>
  PROVE  TranslatorInv'
<1>1. Shapes(api', <<>>) = <<>>
  BY ShapesMade
<1>2. OneOpen' /\ AllKept'
  BY <1>1 DEF OneOpen, AllKept
<1> QED BY <1>2 DEF TranslatorInv

LEMMA NoTurnType == NoTurn \in Turn
BY DEF NoTurn, Turn

\* What the user says, and what the tools answer.
LEMMA UserMessages ==
  ASSUME WireTypes, NEW asset \in BOOLEAN, NEW extra
  PROVE  /\ Msg("user", <<Part("text", <<>>, "said")>>) \in Message
         /\ LET results == [i \in DOMAIN accum.calls |->
                              Part("result", <<accum.calls[i].id>>, IF asset THEN "asset" ELSE "said")]
                said == <<Part("text", <<>>, "said")>>
            IN  /\ Msg("user", results \o (IF extra = "repair" THEN said ELSE <<>>)) \in Message
                /\ (IF extra = "feedback" THEN <<Msg("user", said)>> ELSE <<>>) \in Seq(Message)
<1> DEFINE results == [i \in DOMAIN accum.calls |->
                         Part("result", <<accum.calls[i].id>>, IF asset THEN "asset" ELSE "said")]
           said == <<Part("text", <<>>, "said")>>
<1>1. Part("text", <<>>, "said") \in UPart
  BY DEF Part, UPart, UserPart
<1>2. said \in Seq(UPart)
  BY <1>1
<1>3. results \in Seq(UPart)
  <2>1. accum.calls \in Seq(Call)
    BY HeardTypes
  <2>2. DOMAIN accum.calls = 1..Len(accum.calls) /\ Len(accum.calls) \in Nat
    BY <2>1
  <2>3. \A i \in DOMAIN accum.calls : accum.calls[i].id \in Nat
    BY <2>1, GivenType
  <2>4. \A id \in Nat, y \in {"asset", "said"} : Part("result", <<id>>, y) \in UPart
    <3>1. \A id \in Nat : <<id>> \in Seq(Nat)
      OBVIOUS
    <3> QED BY <3>1 DEF UserPart, Part, UPart
  <2>5. results \in [1..Len(accum.calls) -> UPart]
    BY <2>2, <2>3, <2>4
  <2> HIDE DEF results
  <2> QED BY <2>2, <2>5, SeqDef
<1>4. <<>> \in Seq(UPart)
  OBVIOUS
<1>5. Msg("user", said) \in Message
  BY <1>2, MsgType
<1>6. <<Msg("user", said)>> \in Seq(Message) /\ <<>> \in Seq(Message)
  BY <1>5
<1> HIDE DEF results, said
<1>7. results \o (IF extra = "repair" THEN said ELSE <<>>) \in Seq(UPart)
  BY <1>2, <1>3, <1>4, ConcatProperties
<1>8. Msg("user", results \o (IF extra = "repair" THEN said ELSE <<>>)) \in Message
  BY <1>7, MsgType
<1> QED BY <1>5, <1>6, <1>8 DEF results, said

LEMMA SendTypes ==
  ASSUME WireTypes, SendMessages
  PROVE  WireTypes' /\ TranslatorInv'
<1>1. /\ spent' = [spent EXCEPT !.requests = spent.requests + 1]
      /\ sent' = IF api = "anthropic" /\ resumable THEN replay \o Delta ELSE Delta
      /\ wire' = IF api = "anthropic" THEN Items(Folded(sent'))
                 ELSE (IF resumable THEN wire ELSE <<>>)
                      \o Items([i \in DOMAIN sent' |-> ToItems(sent'[i])])
      /\ point' = "stream" /\ accum' = NoTurn /\ streamed' = <<>> /\ blocks' = <<>> /\ parts' = <<>>
  BY DEF SendMessages
<1>u. UNCHANGED <<api, talk, seen, replay, resumable, answers, ran>>
  BY DEF SendMessages
<1>2. replay \in Seq(Message) /\ wire \in Seq(WireItem)
  BY DEF WireTypes
<1>3. Delta \in Seq(Message)
  BY DeltaType
<1>4. sent' \in Seq(Message)
  BY <1>1, <1>2, <1>3, ConcatProperties
<1>5. Items(Folded(sent')) \in Seq(WireItem)
  BY <1>4, ItemsFolded, WiredMade
<1>6. Items([i \in DOMAIN sent' |-> ToItems(sent'[i])]) \in Seq(WireItem)
  <2>1. ItemizedIn \in [Message -> Seq(WireItem)]
    BY WiredType
  <2>2. \A s \in Seq(Message) : Flat(s, ItemizedIn) \in Seq(WireItem)
    BY <2>1, FlatMade
  <2> QED BY <1>4, <2>2, ItemsItemized
<1>7. <<>> \in Seq(WireItem)
  OBVIOUS
<1> HIDE DEF Items
<1>8. wire' \in Seq(WireItem)
  BY <1>1, <1>2, <1>5, <1>6, <1>7, ConcatProperties
<1>9. spent' \in [requests : Nat, blocks : Nat, breaks : Nat]
  <2>1. spent \in [requests : Nat, blocks : Nat, breaks : Nat]
    BY HeardTypes
  <2> QED BY <1>1, <2>1
<1>10. accum' \in Turn
  BY <1>1, NoTurnType
<1>11. streamed' \in Seq(Block) /\ blocks' \in Seq(Block) /\ parts' \in Seq(APart)
  BY <1>1
<1>12. WireTypes'
  BY <1>1, <1>4, <1>8, <1>9, <1>10, <1>11, <1>u DEF WireTypes
<1> QED BY <1>1, <1>12, NoAnswer

LEMMA BreakTypes ==
  ASSUME WireTypes, Break
  PROVE  WireTypes' /\ TranslatorInv'
<1>1. streamed' = <<>> /\ blocks' = <<>> /\ parts' = <<>>
  BY DEF Break
<1>u. UNCHANGED <<api, point, talk, seen, replay, resumable, sent, wire, accum, answers, ran>>
  BY DEF Break
<1>2. spent' \in [requests : Nat, blocks : Nat, breaks : Nat]
  <2>1. spent \in [requests : Nat, blocks : Nat, breaks : Nat]
    BY HeardTypes
  <2>2. spent' = spent \/ spent' = [spent EXCEPT !.breaks = spent.breaks + 1]
    BY DEF Break
  <2> QED BY <2>1, <2>2
<1>3. streamed' \in Seq(Block) /\ blocks' \in Seq(Block) /\ parts' \in Seq(APart)
  BY <1>1
<1>4. WireTypes'
  BY <1>2, <1>3, <1>u DEF WireTypes
<1> QED BY <1>1, <1>4, NoAnswer

LEMMA FallbackTypes ==
  ASSUME WireTypes, Fallback
  PROVE  WireTypes' /\ TranslatorInv'
<1>1. /\ streamed' = <<>> /\ blocks' = <<>> /\ parts' = <<>> /\ accum' = NoTurn
      /\ resumable' = FALSE /\ replay' = <<>> /\ seen' = 0 /\ point' = "request" /\ sent' = <<>> /\ wire' = <<>>
  BY DEF Fallback
<1>u. UNCHANGED <<api, talk, answers, ran, spent>>
  BY DEF Fallback
<1>2. /\ streamed' \in Seq(Block) /\ blocks' \in Seq(Block) /\ parts' \in Seq(APart) /\ accum' \in Turn
      /\ replay' \in Seq(Message) /\ sent' \in Seq(Message) /\ wire' \in Seq(WireItem)
  BY <1>1, NoTurnType
<1>3. WireTypes'
  BY <1>1, <1>2, <1>u DEF WireTypes
<1> QED BY <1>1, <1>3, NoAnswer

LEMMA ResultsTypes ==
  ASSUME WireTypes, TranslatorInv, NEW asset \in BOOLEAN, NEW extra, Results(asset, extra)
  PROVE  WireTypes' /\ TranslatorInv'
<1> DEFINE results == [i \in DOMAIN accum.calls |->
                         Part("result", <<accum.calls[i].id>>, IF asset THEN "asset" ELSE "said")]
           said == <<Part("text", <<>>, "said")>>
           first == Msg("user", results \o (IF extra = "repair" THEN said ELSE <<>>))
           second == IF extra = "feedback" THEN <<Msg("user", said)>> ELSE <<>>
<1>1. point = "tools" /\ talk' = talk \o <<first>> \o second /\ point' = "request" /\ accum' = NoTurn
  BY DEF Results
<1>u. UNCHANGED <<api, seen, replay, resumable, sent, wire, streamed, blocks, parts, answers, ran, spent>>
  BY DEF Results
<1>2. first \in Message /\ second \in Seq(Message)
  BY UserMessages
<1> HIDE DEF first, second
<1>3. talk \in Seq(Message) /\ <<first>> \in Seq(Message)
  BY <1>2 DEF WireTypes
<1>4. talk' \in Seq(Message)
  BY <1>1, <1>2, <1>3, ConcatProperties
<1>5. WireTypes'
  BY <1>1, <1>4, <1>u, NoTurnType DEF WireTypes
<1>6. streamed' = <<>> /\ blocks' = <<>> /\ parts' = <<>>
  BY <1>1, <1>u DEF TranslatorInv
<1> QED BY <1>5, <1>6, NoAnswer

LEMMA SayTypes ==
  ASSUME WireTypes, TranslatorInv, Say
  PROVE  WireTypes' /\ TranslatorInv'
<1> DEFINE m == Msg("user", <<Part("text", <<>>, "said")>>)
<1>1. point = "idle" /\ talk' = Append(talk, m) /\ point' = "request"
  BY DEF Say
<1>u. UNCHANGED <<api, seen, replay, resumable, sent, wire, streamed, blocks, parts, accum, answers, ran, spent>>
  BY DEF Say
<1>2. m \in Message
  BY UserMessages
<1> HIDE DEF m
<1>3. talk \in Seq(Message)
  BY DEF WireTypes
<1>4. talk' \in Seq(Message)
  BY <1>1, <1>2, <1>3, AppendProperties
<1>5. WireTypes'
  BY <1>1, <1>4, <1>u DEF WireTypes
<1>6. streamed' = <<>> /\ blocks' = <<>> /\ parts' = <<>>
  BY <1>1, <1>u DEF TranslatorInv
<1> QED BY <1>5, <1>6, NoAnswer

\* What the server remembers of a block.
ItemOf(a, b) ==
  [role |-> "assistant",
   part |-> Part(b.type, <<b.id>>, IF b.type = "use" THEN ArgsOf(a, b) ELSE "said")]
Remembered(a, bs) == [i \in DOMAIN bs |-> ItemOf(a, bs[i])]

LEMMA ItemType ==
  ASSUME NEW a, NEW b \in Block
  PROVE  ItemOf(a, b) \in WireItem
<1>1. b.id \in Nat /\ b.type \in Kinds /\ ArgsOf(a, b) \in {"none", "object", "raw"}
  BY BlockFields DEF ArgsOf
<1>2. <<b.id>> \in Seq(Nat)
  BY <1>1
<1>3. \A y \in {"said", "none", "object", "raw"} : Part(b.type, <<b.id>>, y) \in APart
  BY <1>1, <1>2 DEF APart, AssistantPart, Part
<1>4. Part(b.type, <<b.id>>, IF b.type = "use" THEN ArgsOf(a, b) ELSE "said") \in APart
  BY <1>1, <1>3
<1> QED BY <1>4 DEF ItemOf, WireItem

LEMMA RememberedType ==
  ASSUME NEW a, NEW bs \in Seq(Block)
  PROVE  Remembered(a, bs) \in Seq(WireItem)
<1>1. DOMAIN bs = 1..Len(bs) /\ Len(bs) \in Nat /\ \A i \in DOMAIN bs : bs[i] \in Block
  OBVIOUS
<1>2. Remembered(a, bs) \in [1..Len(bs) -> WireItem]
  BY <1>1, ItemType DEF Remembered
<1> QED BY <1>1, <1>2, SeqDef

\* The calls of an accepted answer, as they are run.
Runs(t) == [i \in DOMAIN t.calls |-> [id |-> t.calls[i].id, args |-> Given(t.calls[i].args)]]

LEMMA RunsType ==
  ASSUME NEW t \in Turn
  PROVE  Runs(t) \in Seq(Execution) /\ Len(Runs(t)) = Len(t.calls)
<1>1. t.calls \in Seq(Call)
  BY DEF Turn
<1>2. DOMAIN t.calls = 1..Len(t.calls) /\ Len(t.calls) \in Nat
  BY <1>1
<1>3. \A i \in DOMAIN t.calls : t.calls[i].id \in Nat /\ Given(t.calls[i].args) \in {"none", "object", "raw"}
  BY <1>1, GivenType
<1>4. Runs(t) \in [1..Len(t.calls) -> Execution]
  BY <1>2, <1>3 DEF Runs, Execution
<1> QED BY <1>2, <1>4, SeqDef

\* Finish, in the terms of the invariant.
LEMMA FinishDoes ==
  ASSUME WireTypes, TranslatorInv, Finish
  PROVE  /\ point = "stream" /\ resumable' /\ spent' = spent /\ api' = api
         /\ point' # "stream" /\ point' \in {"idle", "tools"}
         /\ api = "anthropic" =>
              replay' = Pruned(sent) \o
                (IF Shapes(api, streamed) = <<>> THEN <<>>
                 ELSE <<Msg("assistant", Shapes(api, streamed))>>)
         /\ api = "openai" => replay' = <<>> /\ wire' = wire \o Remembered(api, streamed)
         /\ api = "anthropic" => wire' = <<>>
         /\ talk' = Append(talk, Msg("assistant", Finalized(accum)))
         /\ seen' = Len(talk') /\ answers' = Append(answers, streamed)
         /\ ran' = ran \o Runs(accum) /\ sent' = <<>>
         /\ streamed' = <<>> /\ blocks' = <<>> /\ parts' = <<>> /\ accum' = accum
<1>1. \A i \in DOMAIN streamed : streamed[i].type = "use" => Parsed(streamed[i]) = ArgsOf(api, streamed[i])
  BY AnswerTypes, ArgsAre
<1>2. [i \in DOMAIN streamed |->
         [role |-> "assistant", part |-> Part(streamed[i].type, <<streamed[i].id>>,
            IF streamed[i].type = "use" THEN Parsed(streamed[i]) ELSE "said")]] = Remembered(api, streamed)
  BY <1>1 DEF Remembered, ItemOf
<1>3. api = "anthropic" => parts \o Flushed = Shapes(api, streamed)
  BY MessageIs
<1>4. api \in {"anthropic", "openai"}
  BY HeardTypes
<1>5. api = "anthropic" =>
        /\ wire' = <<>>
        /\ replay' = Pruned(sent) \o
             (IF parts \o Flushed = <<>> THEN <<>> ELSE <<Msg("assistant", parts \o Flushed)>>)
  BY DEF Finish
<1>6. api = "openai" => replay' = <<>> /\ wire' = wire \o Remembered(api, streamed)
  BY <1>2 DEF Finish
<1>7. ran' = ran \o Runs(accum)
  BY DEF Finish, Runs
<1>8. /\ point = "stream" /\ resumable' /\ spent' = spent /\ api' = api
      /\ point' # "stream" /\ point' \in {"idle", "tools"}
      /\ talk' = Append(talk, Msg("assistant", Finalized(accum)))
      /\ seen' = Len(talk') /\ answers' = Append(answers, streamed) /\ sent' = <<>>
      /\ streamed' = <<>> /\ blocks' = <<>> /\ parts' = <<>> /\ accum' = accum
  BY DEF Finish
<1> QED BY <1>3, <1>5, <1>6, <1>7, <1>8

LEMMA FinishTypes ==
  ASSUME WireTypes, TranslatorInv, Finish
  PROVE  WireTypes' /\ TranslatorInv'
<1> DEFINE shown == Shapes(api, streamed)
           last == IF shown = <<>> THEN <<>> ELSE <<Msg("assistant", shown)>>
           told == Msg("assistant", Finalized(accum))
<1>1. /\ api = "anthropic" => replay' = Pruned(sent) \o last /\ wire' = <<>>
      /\ api = "openai" => replay' = <<>> /\ wire' = wire \o Remembered(api, streamed)
      /\ talk' = Append(talk, told) /\ seen' = Len(talk') /\ answers' = Append(answers, streamed)
      /\ ran' = ran \o Runs(accum) /\ sent' = <<>> /\ resumable' = TRUE
      /\ streamed' = <<>> /\ blocks' = <<>> /\ parts' = <<>> /\ accum' = accum
      /\ spent' = spent /\ api' = api /\ point' \in {"idle", "tools"}
  BY FinishDoes DEF Finish
<1>2. /\ talk \in Seq(Message) /\ sent \in Seq(Message) /\ wire \in Seq(WireItem)
      /\ answers \in Seq(Seq(Block)) /\ ran \in Seq(Execution) /\ accum \in Turn
      /\ streamed \in Seq(Block) /\ spent \in [requests : Nat, blocks : Nat, breaks : Nat]
      /\ api \in {"anthropic", "openai"}
  BY DEF WireTypes
<1>3. shown \in Seq(APart)
  BY AnswerTypes, ShapesMade
<1>4. Msg("assistant", shown) \in Message /\ told \in Message
  BY <1>2, <1>3, FinalizedIs, MsgType
<1>5. last \in Seq(Message)
  <2>1. <<Msg("assistant", shown)>> \in Seq(Message) /\ <<>> \in Seq(Message)
    BY <1>4
  <2> QED BY <2>1
<1> HIDE DEF shown, last, told
<1>6. Pruned(sent) \in Seq(Message)
  BY <1>2, PrunedType
<1>7. replay' \in Seq(Message) /\ sent' \in Seq(Message)
  <2>1. Pruned(sent) \o last \in Seq(Message)
    BY <1>5, <1>6, ConcatProperties
  <2>2. <<>> \in Seq(Message)
    OBVIOUS
  <2> QED BY <1>1, <1>2, <2>1, <2>2
<1>8. wire' \in Seq(WireItem)
  <2>1. wire \o Remembered(api, streamed) \in Seq(WireItem)
    BY <1>2, RememberedType, ConcatProperties
  <2>2. <<>> \in Seq(WireItem)
    OBVIOUS
  <2> QED BY <1>1, <1>2, <2>1, <2>2
<1>9. talk' \in Seq(Message) /\ seen' \in Nat
  <2>1. Append(talk, told) \in Seq(Message)
    BY <1>2, <1>4, AppendProperties
  <2>2. Len(talk') \in Nat
    BY <1>1, <2>1, LenProperties
  <2> QED BY <1>1, <2>1, <2>2
<1>10. answers' \in Seq(Seq(Block))
  BY <1>1, <1>2, AppendProperties
<1>11. ran' \in Seq(Execution)
  BY <1>1, <1>2, RunsType, ConcatProperties
<1>12. streamed' \in Seq(Block) /\ blocks' \in Seq(Block) /\ parts' \in Seq(APart)
  BY <1>1
<1>13. WireTypes'
  BY <1>1, <1>2, <1>7, <1>8, <1>9, <1>10, <1>11, <1>12 DEF WireTypes
<1> QED BY <1>1, <1>13, NoAnswer

LEMMA WireInitTypes ==
  ASSUME WireInit
  PROVE  WireTypes /\ TranslatorInv
<1>1. Part("text", <<>>, "said") \in UPart
  BY DEF Part, UPart, UserPart
<1>2. <<Part("text", <<>>, "said")>> \in Seq(UPart)
  BY <1>1
<1>3. Msg("user", <<Part("text", <<>>, "said")>>) \in Message
  BY <1>2, MsgType
<1>4. <<Msg("user", <<Part("text", <<>>, "said")>>)>> \in Seq(Message)
  BY <1>3
<1>5. spent \in [requests : Nat, blocks : Nat, breaks : Nat]
  BY DEF WireInit
<1>6. /\ replay \in Seq(Message) /\ sent \in Seq(Message) /\ wire \in Seq(WireItem)
      /\ streamed \in Seq(Block) /\ blocks \in Seq(Block) /\ parts \in Seq(APart)
      /\ answers \in Seq(Seq(Block)) /\ ran \in Seq(Execution) /\ accum \in Turn
  BY NoTurnType DEF WireInit
<1>7. WireTypes
  BY <1>4, <1>5, <1>6 DEF WireInit, WireTypes
<1>8. Shapes(api, <<>>) = <<>>
  BY ShapesMade
<1>9. TranslatorInv
  BY <1>8 DEF WireInit, TranslatorInv, OneOpen, AllKept
<1> QED BY <1>7, <1>9

(***************************************************************************)
(* The calls of an answer, as the accumulator heard of them.               *)
(***************************************************************************)
LEMMA SinglePair ==
  ASSUME NEW p, NEW q, NEW R, <<p, q>> \in R, NEW u, u = <<p>>, NEW v, v = <<q>>
  PROVE  Len(u) = Len(v) /\ \A n \in DOMAIN u : <<u[n], v[n]>> \in R
<1>1. DOMAIN u = {1} /\ u[1] = p /\ v[1] = q /\ Len(u) = 1 /\ Len(v) = 1
  OBVIOUS
<1> QED BY <1>1

LEMMA CallOrNot ==
  ASSUME NEW b \in Block
  PROVE  b \in CallBlock <=> b.type = "use"
<1>1. /\ b.type \in Kinds /\ b.body \in {"empty", "said", "object", "broken"}
      /\ (b.type = "use" => b.body # "said") /\ b.signed \in BOOLEAN /\ b.ended \in 0..2 /\ b.id \in Nat
      /\ b = [id |-> b.id, type |-> b.type, body |-> b.body, signed |-> b.signed, ended |-> b.ended]
  BY DEF Block, BlockOf
<1>2. b \in CallBlock => b.type = "use"
  BY DEF CallBlock, BlockOf
<1>3. ASSUME b.type = "use"
      PROVE  b \in CallBlock
  <2>1. b.body \in {"empty"} \cup {"object", "broken"}
    BY <1>1, <1>3
  <2> QED BY <1>1, <1>3, <2>1 DEF CallBlock, BlockOf
<1> QED BY <1>2, <1>3

LEMMA CallBlocksMade ==
  /\ CallBlocks(<<>>) = <<>>
  /\ \A s \in Seq(Block) : CallBlocks(s) \in Seq(Block \cap CallBlock)
  /\ \A s \in Seq(Block), b \in Block :
       CallBlocks(Append(s, b)) = CallBlocks(s) \o (IF b.type = "use" THEN <<b>> ELSE <<>>)
  /\ \A s, u \in Seq(Block) : CallBlocks(s \o u) = CallBlocks(s) \o CallBlocks(u)
<1>1. Among(<<>>, CallBlock) = <<>>
  BY AmongMade
<1>2. \A s \in Seq(Block) : Among(s, CallBlock) \in Seq(Block \cap CallBlock)
  BY AmongIsFlat
<1>3. \A s \in Seq(Block), b \in Block :
        Among(Append(s, b), CallBlock) = Among(s, CallBlock) \o (IF b \in CallBlock THEN <<b>> ELSE <<>>)
  BY AmongMade
<1>4. \A s, u \in Seq(Block) : Among(s \o u, CallBlock) = Among(s, CallBlock) \o Among(u, CallBlock)
  BY AmongJoin
<1> QED BY <1>1, <1>2, <1>3, <1>4, CallOrNot DEF CallBlocks

Distinct(s) == \A j, n \in DOMAIN s : s[j].id = s[n].id => j = n

Replaces(t, s, i, x) ==
  t = [s EXCEPT ![i] = x] /\ x.id = s[i].id /\ x.type = s[i].type /\ Distinct(s)

\* A block that is replaced is replaced among the calls.
LEMMA CallsReplaced ==
  ASSUME NEW s \in Seq(Block), NEW i \in DOMAIN s, NEW x \in Block, NEW t, Replaces(t, s, i, x)
  PROVE  /\ Len(CallBlocks(s)) = Len(CallBlocks(t))
         /\ \A k \in DOMAIN CallBlocks(s) :
              /\ CallBlocks(s)[k].id = x.id => CallBlocks(s)[k] = s[i] /\ CallBlocks(t)[k] = x
              /\ CallBlocks(s)[k].id # x.id => CallBlocks(t)[k] = CallBlocks(s)[k]
<1> DEFINE f == Only(Block, CallBlock)
           R == {q \in Block \X Block :
                   /\ q[1].id = x.id => q[1] = s[i] /\ q[2] = x
                   /\ q[1].id # x.id => q[2] = q[1]}
<1>r. t = [s EXCEPT ![i] = x] /\ x.id = s[i].id /\ x.type = s[i].type /\ Distinct(s)
  BY DEF Replaces
<1>1. /\ t \in Seq(Block) /\ Len(t) = Len(s)
      /\ \A j \in DOMAIN s : t[j] = IF j = i THEN x ELSE s[j]
  BY <1>r, Replaced
<1>2. f \in [Block -> Seq(Block \cap CallBlock)]
  BY AmongIsFlat
<1>3. ASSUME NEW j \in DOMAIN s
      PROVE  /\ Len(f[s[j]]) = Len(f[t[j]])
             /\ \A n \in DOMAIN f[s[j]] : <<f[s[j]][n], f[t[j]][n]>> \in R
  <2>1. s[j] \in Block /\ t[j] \in Block /\ s[i] \in Block
    BY <1>1
  <2>2. <<s[j], t[j]>> \in R
    <3>1. CASE j = i
      BY <1>r, <1>1, <2>1, <3>1
    <3>2. CASE j # i
      <4>1. s[j].id # s[i].id
        BY <1>r, <3>2 DEF Distinct
      <4> QED BY <1>r, <1>1, <2>1, <3>2, <4>1
    <3> QED BY <3>1, <3>2
  <2>3. s[j] \in CallBlock <=> t[j] \in CallBlock
    BY <1>r, <1>1, <2>1, CallOrNot
  <2>4. f[s[j]] = (IF s[j] \in CallBlock THEN <<s[j]>> ELSE <<>>) /\ f[t[j]] = IF t[j] \in CallBlock THEN <<t[j]>> ELSE <<>>
    BY <2>1 DEF Only
  <2> HIDE DEF R, f
  <2>5. CASE s[j] \in CallBlock
    <3>1. f[s[j]] = <<s[j]>> /\ f[t[j]] = <<t[j]>>
      BY <2>3, <2>4, <2>5
    <3> QED BY <2>2, <3>1, SinglePair
  <2>6. CASE s[j] \notin CallBlock
    <3>1. f[s[j]] = <<>> /\ f[t[j]] = <<>>
      BY <2>3, <2>4, <2>6
    <3> QED BY <3>1
  <2> QED BY <2>5, <2>6
<1>4. \A u \in Seq(Block), v \in Seq(Block) :
        /\ Len(u) = Len(v)
        /\ \A j \in DOMAIN u :
             /\ Len(f[u[j]]) = Len(f[v[j]])
             /\ \A n \in DOMAIN f[u[j]] : <<f[u[j]][n], f[v[j]][n]>> \in R
        => /\ Len(Flat(u, f)) = Len(Flat(v, f))
           /\ \A k \in DOMAIN Flat(u, f) : <<Flat(u, f)[k], Flat(v, f)[k]>> \in R
  <2> HIDE DEF R, f
  <2> QED BY <1>2, FlatPaired
<1>5. /\ Len(Flat(s, f)) = Len(Flat(t, f))
      /\ \A k \in DOMAIN Flat(s, f) : <<Flat(s, f)[k], Flat(t, f)[k]>> \in R
  <2> HIDE DEF R, f
  <2> QED BY <1>1, <1>3, <1>4
<1>6. CallBlocks(s) = Flat(s, f) /\ CallBlocks(t) = Flat(t, f)
  BY <1>1, AmongIsFlat DEF CallBlocks
<1>7. \A p, q : <<p, q>> \in R => /\ p.id = x.id => p = s[i] /\ q = x
                                  /\ p.id # x.id => q = p
  OBVIOUS
<1> HIDE DEF R, f
<1> QED BY <1>5, <1>6, <1>7

\* What the accumulator was told of a call, and of a block that is none.
ToldOf(a, b) == IF b.ended = 0 THEN "undefined" ELSE ArgsOf(a, b)

LEMMA MatchedOf ==
  ASSUME NEW a, NEW calls \in Seq(Call), NEW s \in Seq(Block), NEW i \in DOMAIN s,
         Distinct(s),
         Matched(a, calls, CallBlocks(s)), NEW k \in DOMAIN calls, calls[k].id = s[i].id
  PROVE  s[i].type = "use" /\ calls[k].args = ToldOf(a, s[i])
<1> DEFINE cs == CallBlocks(s)
<1>1. cs \in Seq(Block \cap CallBlock)
  BY CallBlocksMade
<1>2. Len(calls) = Len(cs) /\ \A n \in DOMAIN cs : calls[n].id = cs[n].id /\ calls[n].args = ToldOf(a, cs[n])
  BY DEF Matched, ToldOf
<1>3. k \in DOMAIN cs
  BY <1>1, <1>2
<1>4. cs[k] \in Block /\ cs[k] \in CallBlock
  BY <1>1, <1>3
<1>5. s[i] \in Block
  OBVIOUS
<1>6. Replaces([s EXCEPT ![i] = s[i]], s, i, s[i])
  BY DEF Replaces
<1>7. cs[k].id = s[i].id => cs[k] = s[i]
  BY <1>3, <1>5, <1>6, CallsReplaced
<1>8. cs[k] = s[i]
  BY <1>2, <1>3, <1>7
<1> QED BY <1>2, <1>3, <1>4, <1>8, CallOrNot

\* A call the accumulator knows by its id is a call of the answer, as far as it was told.
KnownCalls(a, calls, s) ==
  \A i \in DOMAIN s, k \in DOMAIN calls :
    calls[k].id = s[i].id => s[i].type = "use" /\ calls[k].args = ToldOf(a, s[i])

LEMMA MatchedKnown ==
  ASSUME NEW a, NEW calls \in Seq(Call), NEW s \in Seq(Block), Distinct(s), Matched(a, calls, CallBlocks(s))
  PROVE  KnownCalls(a, calls, s)
BY MatchedOf DEF KnownCalls

\* The accumulator keeps up with a block that has changed.
LEMMA MatchedReplaced ==
  ASSUME NEW a, NEW calls \in Seq(Call), NEW s \in Seq(Block), NEW i \in DOMAIN s,
         Distinct(s),
         Matched(a, calls, CallBlocks(s)),
         NEW x \in Block, NEW t, Replaces(t, s, i, x),
         NEW heard \in Seq(Call), Len(heard) = Len(calls),
         \A k \in DOMAIN calls :
           /\ heard[k].id = calls[k].id
           /\ heard[k].args = IF calls[k].id = x.id THEN ToldOf(a, x) ELSE calls[k].args
  PROVE  Matched(a, heard, CallBlocks(t))
<1> DEFINE cs == CallBlocks(s)
           ct == CallBlocks(t)
<1>1. Len(calls) = Len(cs) /\ \A n \in DOMAIN cs : calls[n].id = cs[n].id /\ calls[n].args = ToldOf(a, cs[n])
  BY DEF Matched, ToldOf
<1>2. /\ Len(cs) = Len(ct)
      /\ \A k \in DOMAIN cs : /\ cs[k].id = x.id => cs[k] = s[i] /\ ct[k] = x
                              /\ cs[k].id # x.id => ct[k] = cs[k]
  BY CallsReplaced
<1>3. cs \in Seq(Block \cap CallBlock) /\ ct \in Seq(Block \cap CallBlock)
  BY CallBlocksMade, Replaced DEF Replaces
<1> HIDE DEF cs, ct
<1>4. DOMAIN ct = DOMAIN cs /\ DOMAIN calls = DOMAIN cs
  BY <1>1, <1>2, <1>3
<1>5. ASSUME NEW k \in DOMAIN cs
      PROVE  heard[k].id = ct[k].id /\ heard[k].args = ToldOf(a, ct[k])
  <2>1. CASE cs[k].id = x.id
    BY <1>1, <1>2, <1>4, <2>1
  <2>2. CASE cs[k].id # x.id
    BY <1>1, <1>2, <1>4, <2>2
  <2> QED BY <2>1, <2>2
<1> QED BY <1>1, <1>2, <1>4, <1>5 DEF Matched, ToldOf, ct

\* Every event of a stream is heard as it is streamed.
LEMMA CallsHeardBegin ==
  ASSUME WireTypes, TranslatorInv, CallsHeard, NEW type \in Kinds, Begin(type)
  PROVE  CallsHeard'
<1> DEFINE b == [id |-> spent.blocks + 1, type |-> type, body |-> "empty", signed |-> FALSE, ended |-> 0]
           c == [id |-> b.id, args |-> "undefined"]
           cs == CallBlocks(streamed)
<1>1. point = "stream" /\ streamed' = Append(streamed, b) /\ accum' = Started(accum, b) /\ api' = api
  BY DEF Begin
<1>2. b \in Block /\ b.ended = 0 /\ b.type = type
  BY HeardTypes DEF Block, BlockOf
<1>3. c.id = b.id /\ c.args = ToldOf(api, b) /\ c \in Call
  <2>1. c.id = b.id /\ c.args = "undefined" /\ c \in Call
    BY <1>2, BlockFields DEF Call
  <2> QED BY <1>2, <2>1 DEF ToldOf
<1> HIDE DEF b, c
<1>4. /\ accum'.calls = IF type = "use" THEN Append(accum.calls, c) ELSE accum.calls
      /\ CallBlocks(streamed') = cs \o (IF type = "use" THEN <<b>> ELSE <<>>)
  BY <1>1, <1>2, AnswerTypes, StartedType, CallBlocksMade DEF c
<1>5. /\ Len(accum.calls) = Len(cs)
      /\ \A n \in DOMAIN cs : accum.calls[n].id = cs[n].id /\ accum.calls[n].args = ToldOf(api, cs[n])
  BY <1>1 DEF CallsHeard, Matched, ToldOf
<1>6. cs \in Seq(Block \cap CallBlock) /\ accum.calls \in Seq(Call)
  BY AnswerTypes, CallBlocksMade, HeardTypes
<1> HIDE DEF cs
<1>7. CASE type = "use"
  <2> DEFINE ds == cs \o <<b>>
             calls == Append(accum.calls, c)
  <2>1. cs \in Seq(Block) /\ Len(cs) \in Nat
    BY <1>6
  <2>2. ds = Append(cs, b)
    BY <1>2, <2>1
  <2>3. /\ ds \in Seq(Block) /\ Len(ds) = Len(cs) + 1
        /\ \A n \in 1..Len(cs) : ds[n] = cs[n]
        /\ ds[Len(cs) + 1] = b
    BY <1>2, <2>1, <2>2, AppendProperties
  <2>4. /\ Len(calls) = Len(cs) + 1
        /\ \A n \in 1..Len(cs) : calls[n] = accum.calls[n]
        /\ calls[Len(cs) + 1] = c
    BY <1>3, <1>5, <1>6, AppendProperties
  <2> HIDE DEF ds, calls
  <2>5. DOMAIN ds = 1..Len(cs) + 1 /\ DOMAIN cs = 1..Len(cs)
    BY <2>1, <2>3
  <2>6. ASSUME NEW n \in DOMAIN ds
        PROVE  calls[n].id = ds[n].id /\ calls[n].args = ToldOf(api, ds[n])
    <3>1. CASE n \in 1..Len(cs)
      BY <1>5, <2>3, <2>4, <2>5, <3>1
    <3>2. CASE n = Len(cs) + 1
      BY <1>3, <2>3, <2>4, <3>2
    <3> QED BY <2>1, <2>5, <3>1, <3>2
  <2>7. Matched(api, calls, ds)
    BY <2>3, <2>4, <2>6 DEF Matched, ToldOf
  <2> QED BY <1>1, <1>4, <1>7, <2>7 DEF CallsHeard, ds, calls
<1>8. CASE type # "use"
  <2>1. CallBlocks(streamed') = cs
    BY <1>4, <1>6, <1>8
  <2> QED BY <1>1, <1>4, <1>8, <2>1 DEF CallsHeard, cs
<1> QED BY <1>7, <1>8

\* The calls heard of when block i is replaced by x.
LEMMA HeardReplaced ==
  ASSUME WireTypes, TranslatorInv, CallsHeard, point = "stream", NEW i \in DOMAIN streamed, NEW x \in Block,
         x.id = streamed[i].id, x.type = streamed[i].type, streamed' = [streamed EXCEPT ![i] = x],
         accum'.calls \in Seq(Call), Len(accum'.calls) = Len(accum.calls),
         \A k \in DOMAIN accum.calls :
           /\ accum'.calls[k].id = accum.calls[k].id
           /\ accum.calls[k].id # x.id => accum'.calls[k].args = accum.calls[k].args
           /\ accum.calls[k].id = x.id /\ x.type = "use" /\ accum.calls[k].args = ToldOf(api, streamed[i])
                => accum'.calls[k].args = ToldOf(api, x),
         api' = api
  PROVE  CallsHeard'
<1>1. Distinct(streamed) /\ Matched(api, accum.calls, CallBlocks(streamed))
  BY DEF TranslatorInv, Distinct, CallsHeard
<1>2. streamed \in Seq(Block) /\ accum.calls \in Seq(Call)
  BY AnswerTypes, HeardTypes
<1>3. ASSUME NEW k \in DOMAIN accum.calls, accum.calls[k].id = x.id
      PROVE  x.type = "use" /\ accum.calls[k].args = ToldOf(api, streamed[i])
  <2>1. accum.calls[k].id = streamed[i].id
    BY <1>3
  <2>2. KnownCalls(api, accum.calls, streamed)
    BY <1>1, <1>2, MatchedKnown
  <2> QED BY <1>3, <2>1, <2>2 DEF KnownCalls
<1>4. \A k \in DOMAIN accum.calls :
        /\ accum'.calls[k].id = accum.calls[k].id
        /\ accum'.calls[k].args = IF accum.calls[k].id = x.id THEN ToldOf(api, x) ELSE accum.calls[k].args
  BY <1>3
<1>5. Replaces(streamed', streamed, i, x)
  BY <1>1 DEF Replaces
<1>6. Matched(api, accum'.calls, CallBlocks(streamed'))
  BY <1>1, <1>2, <1>4, <1>5, MatchedReplaced
<1> QED BY <1>6 DEF CallsHeard

LEMMA CallsHeardFill ==
  ASSUME WireTypes, TranslatorInv, CallsHeard, NEW i \in DOMAIN streamed, NEW body, Fill(i, body)
  PROVE  CallsHeard'
<1> DEFINE s == [streamed[i] EXCEPT !.body = body]
<1>1. /\ point = "stream" /\ streamed[i].ended = 0
      /\ body \in (IF streamed[i].type = "use" THEN {"object", "broken"} ELSE {"said"})
      /\ streamed' = [streamed EXCEPT ![i] = s] /\ accum' = Heard(accum, streamed[i]) /\ api' = api
  BY DEF Fill
<1>2. streamed[i] \in Block
  BY AnswerTypes
<1>3. body \in {"said", "object", "broken"} /\ (streamed[i].type = "use" => body # "said")
  BY <1>1
<1>4. s \in Block /\ s.id = streamed[i].id /\ s.type = streamed[i].type /\ s.ended = streamed[i].ended
  BY <1>2, <1>3, BlockFilled
<1> HIDE DEF s
<1>5. accum'.calls = accum.calls /\ accum.calls \in Seq(Call)
  BY <1>1, <1>2, HeardType, HeardTypes
<1>6. ToldOf(api, s) = "undefined" /\ ToldOf(api, streamed[i]) = "undefined"
  BY <1>1, <1>4 DEF ToldOf
<1> QED BY <1>1, <1>4, <1>5, <1>6, HeardReplaced

LEMMA CallsHeardSign ==
  ASSUME WireTypes, TranslatorInv, CallsHeard, NEW i \in DOMAIN streamed, Sign(i)
  PROVE  CallsHeard'
<1> DEFINE s == [streamed[i] EXCEPT !.signed = TRUE]
<1>1. /\ point = "stream" /\ streamed[i].ended = 0
      /\ streamed' = [streamed EXCEPT ![i] = s] /\ accum' = accum /\ api' = api
  BY DEF Sign
<1>2. streamed[i] \in Block
  BY AnswerTypes
<1>4. s \in Block /\ s.id = streamed[i].id /\ s.type = streamed[i].type /\ s.ended = streamed[i].ended
  BY <1>2, BlockSigned
<1> HIDE DEF s
<1>5. accum'.calls = accum.calls /\ accum.calls \in Seq(Call)
  BY <1>1, HeardTypes
<1>6. ToldOf(api, s) = "undefined" /\ ToldOf(api, streamed[i]) = "undefined"
  BY <1>1, <1>4 DEF ToldOf
<1> QED BY <1>1, <1>4, <1>5, <1>6, HeardReplaced

\* The end of block i, heard of with the block b of the translator.
LEMMA EndHeard ==
  ASSUME WireTypes, TranslatorInv, CallsHeard, point = "stream", NEW i \in DOMAIN streamed, NEW x \in Block,
         x.id = streamed[i].id, x.type = streamed[i].type, x.body = streamed[i].body, x.ended # 0,
         streamed' = [streamed EXCEPT ![i] = x],
         NEW b \in Block, b.id = streamed[i].id, b.type = streamed[i].type, b.body = streamed[i].body,
         accum' = Ended(accum, b), api' = api
  PROVE  CallsHeard'
<1>1. accum.calls \in Seq(Call) /\ accum' \in Turn
  BY HeardTypes, EndedType
<1>2. accum'.calls \in Seq(Call)
  BY <1>1 DEF Turn
<1>3. ToldOf(api, x) = ArgsOf(api, b)
  BY DEF ToldOf, ArgsOf
<1>4. CASE b.type = "use"
  <2>1. /\ Len(accum'.calls) = Len(accum.calls)
        /\ \A k \in DOMAIN accum.calls :
             /\ accum'.calls[k].id = accum.calls[k].id
             /\ accum'.calls[k].args = IF accum.calls[k].id = x.id THEN ToldOf(api, x) ELSE accum.calls[k].args
    BY <1>3, <1>4, EndedType
  <2> QED BY <1>2, <2>1, HeardReplaced
<1>5. CASE b.type # "use"
  <2>1. accum'.calls = accum.calls /\ x.type # "use"
    BY <1>5, EndedType
  <2> QED BY <1>2, <2>1, HeardReplaced
<1> QED BY <1>4, <1>5

LEMMA CallsHeardStop ==
  ASSUME WireTypes, TranslatorInv, CallsHeard, NEW i \in DOMAIN streamed, BlockStop(i)
  PROVE  CallsHeard'
<1> DEFINE k == WithId(blocks, streamed[i].id)
           s == [streamed[i] EXCEPT !.ended = 1]
<1>1. /\ point = "stream" /\ streamed[i].ended = 0
      /\ streamed' = [streamed EXCEPT ![i] = s] /\ accum' = Ended(accum, blocks[k]) /\ api' = api
  BY DEF BlockStop
<1>2. /\ k \in DOMAIN blocks /\ blocks[k].id = streamed[i].id /\ blocks[k].type = streamed[i].type
      /\ blocks[k].body = streamed[i].body
  BY <1>1, BlockAt
<1>3. streamed[i] \in Block /\ blocks[k] \in Block
  BY <1>2, AnswerTypes
<1>4. /\ s \in Block /\ s.id = streamed[i].id /\ s.type = streamed[i].type /\ s.body = streamed[i].body
      /\ s.ended # 0
  BY <1>3, BlockEnded
<1> HIDE DEF k, s
<1> QED BY <1>1, <1>2, <1>3, <1>4, EndHeard

LEMMA CallsHeardDone ==
  ASSUME WireTypes, TranslatorInv, CallsHeard, NEW i \in DOMAIN streamed, CallDone(i)
  PROVE  CallsHeard'
<1> DEFINE k == WithId(blocks, streamed[i].id)
           s == [streamed[i] EXCEPT !.ended = streamed[i].ended + 1]
<1>1. /\ point = "stream" /\ api = "openai" /\ streamed[i].ended < 2 /\ api' = api
      /\ streamed' = [streamed EXCEPT ![i] = s]
      /\ accum' = IF blocks[k].ended = 0 THEN Ended(accum, blocks[k]) ELSE accum
  BY DEF CallDone
<1>2. /\ k \in DOMAIN blocks /\ k = i /\ blocks[k].id = streamed[i].id /\ blocks[k].type = streamed[i].type
      /\ blocks[k].body = streamed[i].body
  BY <1>1, BlockAt
<1>3. streamed[i] \in Block /\ blocks[k] \in Block
  BY <1>2, AnswerTypes
<1>4. streamed[i].ended + 1 \in 0..2 /\ streamed[i].ended + 1 # 0
  BY <1>1, <1>3, BlockFields
<1>5. /\ s \in Block /\ s.id = streamed[i].id /\ s.type = streamed[i].type /\ s.body = streamed[i].body
      /\ s.ended # 0
  BY <1>3, <1>4, BlockEnded
<1>6. blocks[k].ended = 0 <=> streamed[i].ended = 0
  BY <1>1, <1>2 DEF TranslatorInv, AllKept
<1> HIDE DEF k, s
<1>7. CASE blocks[k].ended = 0
  BY <1>1, <1>2, <1>3, <1>5, <1>7, EndHeard
<1>8. CASE blocks[k].ended # 0
  <2>1. accum' = accum /\ streamed[i].ended # 0
    BY <1>1, <1>6, <1>8
  <2>2. ToldOf(api, s) = ToldOf(api, streamed[i])
    BY <1>5, <2>1 DEF ToldOf, ArgsOf
  <2>3. accum'.calls \in Seq(Call) /\ Len(accum'.calls) = Len(accum.calls)
    BY <2>1, HeardTypes
  <2> QED BY <1>1, <1>5, <2>1, <2>2, <2>3, HeardReplaced
<1> QED BY <1>7, <1>8

(***************************************************************************)
(* The calls made, as they are shown and as they are run.                  *)
(***************************************************************************)
LEMMA JoinedAt ==
  ASSUME NEW S, NEW u \in Seq(S), NEW v \in Seq(S)
  PROVE  /\ Len(u \o v) = Len(u) + Len(v) /\ DOMAIN (u \o v) = 1..Len(u) + Len(v)
         /\ \A i \in 1..Len(u) + Len(v) :
              \/ i \in DOMAIN u /\ (u \o v)[i] = u[i]
              \/ i - Len(u) \in DOMAIN v /\ i \notin DOMAIN u /\ (u \o v)[i] = v[i - Len(u)]
<1>1. /\ u \o v \in Seq(S) /\ Len(u \o v) = Len(u) + Len(v) /\ Len(u) \in Nat /\ Len(v) \in Nat
      /\ \A i \in 1..Len(u) + Len(v) : (u \o v)[i] = IF i <= Len(u) THEN u[i] ELSE v[i - Len(u)]
  BY ConcatProperties
<1>2. DOMAIN u = 1..Len(u) /\ DOMAIN v = 1..Len(v) /\ DOMAIN (u \o v) = 1..Len(u) + Len(v)
  BY <1>1
<1>3. ASSUME NEW i \in 1..Len(u) + Len(v)
      PROVE  \/ i \in DOMAIN u /\ (u \o v)[i] = u[i]
             \/ i - Len(u) \in DOMAIN v /\ i \notin DOMAIN u /\ (u \o v)[i] = v[i - Len(u)]
  <2>1. CASE i <= Len(u)
    BY <1>1, <1>2, <2>1
  <2>2. CASE ~(i <= Len(u))
    BY <1>1, <1>2, <2>2
  <2> QED BY <2>1, <2>2
<1> QED BY <1>1, <1>2, <1>3

\* Two sequences agree when their elements do, one by one.
Pairwise(us, ms, R) == Len(us) = Len(ms) /\ \A i \in DOMAIN ms : <<us[i], ms[i]>> \in R

LEMMA PairwiseJoin ==
  ASSUME NEW S, NEW T, NEW R,
         NEW u \in Seq(S), NEW m \in Seq(T), Pairwise(u, m, R),
         NEW v \in Seq(S), NEW n \in Seq(T), Pairwise(v, n, R)
  PROVE  Pairwise(u \o v, m \o n, R)
<1>1. /\ Len(u) = Len(m) /\ \A i \in DOMAIN m : <<u[i], m[i]>> \in R
      /\ Len(v) = Len(n) /\ \A i \in DOMAIN n : <<v[i], n[i]>> \in R
  BY DEF Pairwise
<1>2. DOMAIN u = DOMAIN m /\ DOMAIN v = DOMAIN n
  BY <1>1
<1>3. /\ Len(u \o v) = Len(u) + Len(v) /\ DOMAIN (u \o v) = 1..Len(u) + Len(v)
      /\ \A i \in 1..Len(u) + Len(v) :
           \/ i \in DOMAIN u /\ (u \o v)[i] = u[i]
           \/ i - Len(u) \in DOMAIN v /\ i \notin DOMAIN u /\ (u \o v)[i] = v[i - Len(u)]
  BY JoinedAt
<1>4. /\ Len(m \o n) = Len(m) + Len(n) /\ DOMAIN (m \o n) = 1..Len(m) + Len(n)
      /\ \A i \in 1..Len(m) + Len(n) :
           \/ i \in DOMAIN m /\ (m \o n)[i] = m[i]
           \/ i - Len(m) \in DOMAIN n /\ i \notin DOMAIN m /\ (m \o n)[i] = n[i - Len(m)]
  BY JoinedAt
<1>5. ASSUME NEW i \in DOMAIN (m \o n)
      PROVE  <<(u \o v)[i], (m \o n)[i]>> \in R
  <2>1. CASE i \in DOMAIN m
    BY <1>1, <1>2, <1>3, <1>4, <2>1
  <2>2. CASE i \notin DOMAIN m
    BY <1>1, <1>2, <1>3, <1>4, <2>2
  <2> QED BY <2>1, <2>2
<1> QED BY <1>1, <1>3, <1>4, <1>5 DEF Pairwise

Shows(a) == {q \in AssistantPart(Use) \X Block :
               q[1].of = <<q[2].id>> /\ (q[2].ended > 0 => q[1].body = ArgsOf(a, q[2]))}
RunsAs(a) == {q \in Execution \X Block :
                q[1].id = q[2].id /\ q[1].args = IF q[2].ended = 0 THEN "none" ELSE ArgsOf(a, q[2])}

LEMMA AgreeIs ==
  ASSUME NEW a, NEW us \in Seq(AssistantPart(Use)), NEW rs \in Seq(Execution), NEW ms \in Seq(Block)
  PROVE  /\ Agree(a, us, ms) <=> Pairwise(us, ms, Shows(a))
         /\ RanAs(a, rs, ms) <=> Pairwise(rs, ms, RunsAs(a))
<1>1. \A i \in DOMAIN ms : ms[i] \in Block /\ (Len(us) = Len(ms) => us[i] \in AssistantPart(Use))
                                        /\ (Len(rs) = Len(ms) => rs[i] \in Execution)
  OBVIOUS
<1>2. \A p \in AssistantPart(Use), q \in Block :
        <<p, q>> \in Shows(a) <=> p.of = <<q.id>> /\ (q.ended > 0 => p.body = ArgsOf(a, q))
  BY DEF Shows
<1>3. \A p \in Execution, q \in Block :
        <<p, q>> \in RunsAs(a) <=> p.id = q.id /\ p.args = IF q.ended = 0 THEN "none" ELSE ArgsOf(a, q)
  BY DEF RunsAs
<1> QED BY <1>1, <1>2, <1>3 DEF Agree, RanAs, Pairwise

\* Views of two answers make the view of both.
LEMMA AgreeJoin ==
  ASSUME NEW a, NEW us \in Seq(AssistantPart(Use)), NEW ms \in Seq(Block), Agree(a, us, ms),
         NEW vs \in Seq(AssistantPart(Use)), NEW ns \in Seq(Block), Agree(a, vs, ns)
  PROVE  Agree(a, us \o vs, ms \o ns)
<1>1. <<>> \in Seq(Execution)
  OBVIOUS
<1>2. Pairwise(us, ms, Shows(a)) /\ Pairwise(vs, ns, Shows(a))
  BY <1>1, AgreeIs
<1>3. Pairwise(us \o vs, ms \o ns, Shows(a))
  BY <1>2, PairwiseJoin
<1>4. us \o vs \in Seq(AssistantPart(Use)) /\ ms \o ns \in Seq(Block)
  BY ConcatProperties
<1> QED BY <1>1, <1>3, <1>4, AgreeIs

LEMMA RanAsJoin ==
  ASSUME NEW a, NEW us \in Seq(Execution), NEW ms \in Seq(Block), RanAs(a, us, ms),
         NEW vs \in Seq(Execution), NEW ns \in Seq(Block), RanAs(a, vs, ns)
  PROVE  RanAs(a, us \o vs, ms \o ns)
<1>1. <<>> \in Seq(AssistantPart(Use))
  OBVIOUS
<1>2. Pairwise(us, ms, RunsAs(a)) /\ Pairwise(vs, ns, RunsAs(a))
  BY <1>1, AgreeIs
<1>3. Pairwise(us \o vs, ms \o ns, RunsAs(a))
  BY <1>2, PairwiseJoin
<1>4. us \o vs \in Seq(Execution) /\ ms \o ns \in Seq(Block)
  BY ConcatProperties
<1> QED BY <1>1, <1>3, <1>4, AgreeIs

\* The calls of an accepted answer, by what the accumulator heard of them.
LEMMA HeardAgrees ==
  ASSUME NEW a, NEW t \in Turn, NEW bs \in Seq(Block), Matched(a, t.calls, bs)
  PROVE  Agree(a, CallParts(t), bs) /\ RanAs(a, Runs(t), bs)
<1>1. t.calls \in Seq(Call)
  BY DEF Turn
<1>2. Len(t.calls) = Len(bs) /\ DOMAIN t.calls = DOMAIN bs
  BY <1>1 DEF Matched
<1>3. ASSUME NEW i \in DOMAIN bs
      PROVE  /\ t.calls[i].id = bs[i].id
             /\ Given(t.calls[i].args) = IF bs[i].ended = 0 THEN "none" ELSE ArgsOf(a, bs[i])
  <2>1. ArgsOf(a, bs[i]) # "undefined"
    BY DEF ArgsOf
  <2> QED BY <2>1 DEF Matched, Given
<1>4. \A i \in DOMAIN bs : bs[i].ended > 0 => bs[i].ended # 0
  BY BlockFields
<1>5. CallParts(t) \in Seq(AssistantPart(Use)) /\ Runs(t) \in Seq(Execution) /\ Len(Runs(t)) = Len(bs)
  BY <1>2, FinalizedIs, RunsType
<1>6. DOMAIN CallParts(t) = DOMAIN t.calls
  BY DEF CallParts
<1>7. Len(CallParts(t)) = Len(bs)
  BY <1>1, <1>2, <1>5, <1>6
<1>8. \A i \in DOMAIN bs : /\ CallParts(t)[i].of = <<t.calls[i].id>>
                          /\ CallParts(t)[i].body = Given(t.calls[i].args)
  BY <1>2 DEF CallParts, Part
<1>9. \A i \in DOMAIN bs : /\ Runs(t)[i].id = t.calls[i].id
                          /\ Runs(t)[i].args = Given(t.calls[i].args)
  BY <1>2 DEF Runs
<1> QED BY <1>3, <1>4, <1>5, <1>7, <1>8, <1>9 DEF Agree, RanAs

\* The call of a block, if it is one.
UsesIn(a) == [b \in Block |-> IF b.type = "use" THEN <<Part("use", <<b.id>>, ArgsOf(a, b))>> ELSE <<>>]

LEMMA UsePart ==
  ASSUME NEW a, NEW b \in Block
  PROVE  /\ Part("use", <<b.id>>, ArgsOf(a, b)) \in AssistantPart(Use)
         /\ Part("use", <<b.id>>, ArgsOf(a, b)).of = <<b.id>>
         /\ Part("use", <<b.id>>, ArgsOf(a, b)).body = ArgsOf(a, b)
<1>1. <<b.id>> \in Seq(Nat) /\ ArgsOf(a, b) \in {"none", "object", "raw"}
  BY BlockFields DEF ArgsOf
<1> QED BY <1>1 DEF AssistantPart, Part, Use

LEMMA UsesType ==
  ASSUME NEW a
  PROVE  UsesIn(a) \in [Block -> Seq(AssistantPart(Use))]
<1>1. \A b \in Block : <<Part("use", <<b.id>>, ArgsOf(a, b))>> \in Seq(AssistantPart(Use))
  <2>1. \A b \in Block : Part("use", <<b.id>>, ArgsOf(a, b)) \in AssistantPart(Use)
    BY UsePart
  <2>2. \A q \in AssistantPart(Use) : <<q>> \in Seq(AssistantPart(Use))
    OBVIOUS
  <2> QED BY <2>1, <2>2
<1>2. <<>> \in Seq(AssistantPart(Use))
  OBVIOUS
<1> QED BY <1>1, <1>2 DEF UsesIn

LEMMA UsesAgree ==
  ASSUME NEW a, NEW bs \in Seq(Block)
  PROVE  /\ Flat(bs, UsesIn(a)) \in Seq(AssistantPart(Use))
         /\ Agree(a, Flat(bs, UsesIn(a)), CallBlocks(bs))
<1> DEFINE f == UsesIn(a)
           g == Only(Block, CallBlock)
           R == Shows(a)
<1>1. f \in [Block -> Seq(AssistantPart(Use))] /\ g \in [Block -> Seq(Block \cap CallBlock)]
  BY UsesType, AmongIsFlat
<1>2. ASSUME NEW b \in Block
      PROVE  Len(f[b]) = Len(g[b]) /\ \A n \in DOMAIN f[b] : <<f[b][n], g[b][n]>> \in R
  <2> DEFINE p == Part("use", <<b.id>>, ArgsOf(a, b))
  <2>1. <<p, b>> \in R
    BY UsePart DEF Shows
  <2>2. f[b] = (IF b.type = "use" THEN <<p>> ELSE <<>>) /\ g[b] = IF b \in CallBlock THEN <<b>> ELSE <<>>
    BY DEF UsesIn, Only
  <2>3. b \in CallBlock <=> b.type = "use"
    BY CallOrNot
  <2> HIDE DEF f, g, R, p
  <2>4. CASE b.type = "use"
    <3>1. f[b] = <<p>> /\ g[b] = <<b>>
      BY <2>2, <2>3, <2>4
    <3> QED BY <2>1, <3>1, SinglePair
  <2>5. CASE b.type # "use"
    <3>1. f[b] = <<>> /\ g[b] = <<>>
      BY <2>2, <2>3, <2>5
    <3> QED BY <3>1
  <2> QED BY <2>4, <2>5
<1> HIDE DEF f, g, R
<1>3. \A u \in Seq(Block), v \in Seq(Block) :
        /\ Len(u) = Len(v)
        /\ \A j \in DOMAIN u :
             /\ Len(f[u[j]]) = Len(g[v[j]])
             /\ \A n \in DOMAIN f[u[j]] : <<f[u[j]][n], g[v[j]][n]>> \in R
        => /\ Len(Flat(u, f)) = Len(Flat(v, g))
           /\ \A k \in DOMAIN Flat(u, f) : <<Flat(u, f)[k], Flat(v, g)[k]>> \in R
  BY <1>1, FlatPaired
<1>4. \A j \in DOMAIN bs : bs[j] \in Block
  OBVIOUS
<1>5. /\ Len(Flat(bs, f)) = Len(Flat(bs, g))
      /\ \A k \in DOMAIN Flat(bs, f) : <<Flat(bs, f)[k], Flat(bs, g)[k]>> \in R
  BY <1>2, <1>3, <1>4
<1>6. CallBlocks(bs) = Flat(bs, g) /\ CallBlocks(bs) \in Seq(Block)
  <2>1. CallBlocks(bs) = Flat(bs, g)
    BY AmongIsFlat DEF CallBlocks, g
  <2>2. CallBlocks(bs) \in Seq(Block \cap CallBlock)
    BY CallBlocksMade
  <2> QED BY <2>1, <2>2
<1>7. Flat(bs, f) \in Seq(AssistantPart(Use))
  BY <1>1, FlatMade
<1>8. DOMAIN Flat(bs, f) = DOMAIN CallBlocks(bs)
  BY <1>5, <1>6, <1>7
<1>9. Pairwise(Flat(bs, f), CallBlocks(bs), Shows(a))
  BY <1>5, <1>6, <1>8 DEF Pairwise, R
<1>10. <<>> \in Seq(Execution)
  OBVIOUS
<1> QED BY <1>6, <1>7, <1>9, <1>10, AgreeIs DEF f

\* The calls among the parts of an answer are the calls of its blocks.
LEMMA ShapesUses ==
  ASSUME NEW a, NEW bs \in Seq(Block)
  PROVE  Among(Shapes(a, bs), AssistantPart(Use)) = Flat(bs, UsesIn(a))
<1> DEFINE f == ShapesIn(a)
           g == Only(APart, AssistantPart(Use))
           h == UsesIn(a)
           S == AssistantPart(Use)
<1>0. APart \cap S = S
  BY PartsOf DEF Use, Kinds
<1>1. f \in [Block -> Seq(APart)] /\ h \in [Block -> Seq(S)]
  BY ShapesMade, UsesType
<1>2. g \in [APart -> Seq(S)]
  BY <1>0, AmongIsFlat
<1>3. ASSUME NEW b \in Block
      PROVE  h[b] = Flat(f[b], g)
  <2>1. f[b] = ShapeOf(a, b) /\ f[b] \in Seq(APart)
    BY <1>1 DEF ShapesIn
  <2>2. \A x \in APart : Flat(<<x>>, g) = g[x]
    BY <1>2, FlatSingle
  <2>3. \A x \in APart : g[x] = IF x \in S THEN <<x>> ELSE <<>>
    BY DEF Only
  <2>4. Flat(<<>>, g) = <<>>
    BY <1>2, FlatMade
  <2>5. b.id \in Nat /\ b.type \in {"text", "thinking", "use"}
    BY BlockFields DEF Kinds
  <2>6. CASE b.type = "use"
    <3> DEFINE p == Part("use", <<b.id>>, ArgsOf(a, b))
    <3>1. h[b] = <<p>> /\ f[b] = <<p>> /\ p \in S
      BY <2>1, <2>6, UsePart DEF UsesIn, ShapeOf
    <3> HIDE DEF p, f, g, h, S
    <3> QED BY <1>0, <2>2, <2>3, <3>1
  <2>7. CASE b.type # "use"
    <3>1. h[b] = <<>>
      BY <2>7 DEF UsesIn
    <3>2. f[b] = <<>> \/ \E x \in APart : x \notin S /\ f[b] = <<x>>
      <4>1. <<b.id>> \in Seq(Nat)
        BY <2>5
      <4>2. \A k \in {"text", "thinking"}, y \in {"said", "signed", "unsigned"} :
              Part(k, <<b.id>>, y) \in APart /\ Part(k, <<b.id>>, y) \notin S
        BY <4>1 DEF APart, AssistantPart, Part, Kinds, Use
      <4>3. CASE b.type = "thinking"
        BY <2>1, <4>2, <4>3 DEF ShapeOf
      <4>4. CASE b.type = "text"
        BY <2>1, <4>2, <4>4 DEF ShapeOf
      <4> QED BY <2>5, <2>7, <4>3, <4>4
    <3> HIDE DEF f, g, h, S
    <3> QED BY <2>2, <2>3, <2>4, <3>1, <3>2
  <2> QED BY <2>6, <2>7
<1> HIDE DEF f, g, h, S
<1>4. Through(Block, APart, S, f, g, h)
  BY <1>1, <1>2, <1>3 DEF Through
<1>5. Flat(Flat(bs, f), g) = Flat(bs, h)
  BY <1>4, FlatFlat
<1>6. Flat(bs, f) = Shapes(a, bs) /\ Shapes(a, bs) \in Seq(APart)
  BY ShapesMade DEF Shapes, f
<1>7. Among(Shapes(a, bs), AssistantPart(Use)) = Flat(Shapes(a, bs), g)
  BY <1>6, AmongIsFlat DEF g
<1> QED BY <1>5, <1>6, <1>7 DEF h

\* The calls among what the server remembers are those, too.
LEMMA RememberedUses ==
  ASSUME NEW a, NEW bs \in Seq(Block)
  PROVE  Told(Use, Remembered(a, bs)) = Flat(bs, UsesIn(a))
<1> DEFINE w == Remembered(a, bs)
<1>1. DOMAIN w = DOMAIN bs /\ \A i \in DOMAIN bs : w[i] = ItemOf(a, bs[i]) /\ bs[i] \in Block
  BY DEF Remembered
<1>2. ASSUME NEW b \in Block
      PROVE  ToldIn(Use)[ItemOf(a, b)] = UsesIn(a)[b]
  <2>1. ItemOf(a, b) \in WireItem /\ ItemOf(a, b).role = "assistant"
    BY ItemType DEF ItemOf
  <2>2. ItemOf(a, b).part = Part(b.type, <<b.id>>, IF b.type = "use" THEN ArgsOf(a, b) ELSE "said")
    BY DEF ItemOf
  <2>3. ToldIn(Use)[ItemOf(a, b)] =
          IF ItemOf(a, b).part \in AssistantPart(Use) THEN <<ItemOf(a, b).part>> ELSE <<>>
    BY <2>1 DEF ToldIn
  <2>4. CASE b.type = "use"
    <3>1. ItemOf(a, b).part = Part("use", <<b.id>>, ArgsOf(a, b))
      BY <2>2, <2>4
    <3>2. UsesIn(a)[b] = <<Part("use", <<b.id>>, ArgsOf(a, b))>>
      BY <2>4 DEF UsesIn
    <3> QED BY <2>3, <3>1, <3>2, UsePart
  <2>5. CASE b.type # "use"
    <3>1. ItemOf(a, b).part.type # "use"
      BY <2>2, <2>5 DEF Part
    <3>2. ItemOf(a, b).part \notin AssistantPart(Use)
      BY <3>1 DEF AssistantPart, Use
    <3> QED BY <2>3, <2>5, <3>2 DEF UsesIn
  <2> QED BY <2>4, <2>5
<1>3. [i \in DOMAIN w |-> ToldIn(Use)[w[i]]] = [i \in DOMAIN bs |-> UsesIn(a)[bs[i]]]
  BY <1>1, <1>2
<1> QED BY <1>3 DEF Told, Flat

(***************************************************************************)
(* The views of the conversation, step by step.                            *)
(***************************************************************************)
Views == ViewsAgree /\ UnseenIsUser /\ ChainInv

LEMMA MadeType ==
  ASSUME WireTypes
  PROVE  /\ Streamed \in Seq(Block) /\ Made \in Seq(Block)
         /\ Own(Use, talk) \in Seq(AssistantPart(Use)) /\ Own(Use, replay) \in Seq(AssistantPart(Use))
         /\ Own(Use, sent) \in Seq(AssistantPart(Use)) /\ Told(Use, wire) \in Seq(AssistantPart(Use))
         /\ ran \in Seq(Execution)
<1>1. /\ answers \in Seq(Seq(Block)) /\ talk \in Seq(Message) /\ replay \in Seq(Message)
      /\ sent \in Seq(Message) /\ wire \in Seq(WireItem) /\ ran \in Seq(Execution)
  BY DEF WireTypes
<1>2. Streamed \in Seq(Block)
  BY <1>1, FlattenSeqIs DEF Streamed
<1>3. Made \in Seq(Block \cap CallBlock)
  BY <1>2, CallBlocksMade DEF Made
<1>4. Made \in Seq(Block)
  BY <1>3
<1>5. Use \in SUBSET Kinds
  BY DEF Use, Kinds
<1>6. \A ms \in Seq(Message) : Own(Use, ms) \in Seq(AssistantPart(Use))
  BY <1>5, OwnMade
<1>7. \A v \in Seq(WireItem) : Told(Use, v) \in Seq(AssistantPart(Use))
  BY <1>5, ToldMade
<1> QED BY <1>1, <1>2, <1>4, <1>6, <1>7

\* What happens inside a stream leaves the conversation alone.
LEMMA Untouched ==
  ASSUME Views, spent'.requests = spent.requests,
         UNCHANGED <<api, point, talk, seen, replay, resumable, sent, wire, answers, ran>>
  PROVE  Views'
<1>1. Made' = Made /\ Streamed' = Streamed /\ Delta' = Delta
  BY DEF Made, Streamed, Delta
<1>2. ViewsAgree'
  BY <1>1 DEF Views, ViewsAgree
<1>3. UnseenIsUser'
  BY DEF Views, UnseenIsUser
<1>4. Whole' <=> Whole
  BY DEF Whole
<1>5. ChainInv'
  BY <1>1, <1>4 DEF Views, ChainInv
<1> QED BY <1>2, <1>3, <1>5 DEF Views

\* Messages of the user after those the model has seen show nothing of its own.
LEMMA DeltaOwn ==
  ASSUME WireTypes, UnseenIsUser, resumable, NEW K \in SUBSET Kinds
  PROVE  Own(K, Delta) = <<>>
<1>1. Delta \in Seq(Message)
  BY DeltaType
<1>2. \A i \in DOMAIN Delta : Delta[i].role = "user"
  BY DeltaType DEF UnseenIsUser
<1> QED BY <1>1, <1>2, OwnUsers

\* A conversation that begins.
LEMMA ViewsInit ==
  ASSUME WireInit
  PROVE  CallsHeard /\ Views
<1>0. WireTypes /\ TranslatorInv
  BY WireInitTypes
<1>1. talk \in Seq(Message) /\ \A i \in DOMAIN talk : talk[i].role = "user"
  BY <1>0 DEF WireTypes, WireInit, Msg
<1>2. Use \in SUBSET Kinds
  BY DEF Use, Kinds
<1>3. Own(Use, talk) = <<>>
  BY <1>1, <1>2, OwnUsers
<1>4. Streamed = <<>> /\ Made = <<>>
  <2>1. <<>> \in Seq(Seq(Block)) /\ Len(<<>>) = 0 /\ answers = <<>>
    BY DEF WireInit
  <2>2. FlattenSeq(<<>>) = <<>>
    BY <2>1, FlattenSeqIs
  <2> QED BY <2>1, <2>2, CallBlocksMade DEF Streamed, Made
<1>5. RanAs(api, <<>>, <<>>) /\ Agree(api, <<>>, <<>>)
  BY DEF RanAs, Agree
<1>6. ViewsAgree
  BY <1>3, <1>4, <1>5 DEF ViewsAgree, WireInit
<1>7. UnseenIsUser
  BY DEF UnseenIsUser, WireInit
<1>8. spent.requests = 0 /\ Len(answers) = 0 /\ point = "request" /\ resumable = FALSE
  BY DEF WireInit
<1>9. ChainInv
  BY <1>1, <1>8 DEF ChainInv
<1>10. CallsHeard
  BY <1>8 DEF CallsHeard
<1> QED BY <1>6, <1>7, <1>9, <1>10 DEF Views

\* A request shows the answers so far, replayed, continued or rebuilt.
LEMMA ViewsSend ==
  ASSUME WireTypes, TranslatorInv, Views, SendMessages
  PROVE  CallsHeard' /\ Views'
<1>1. /\ spent' = [spent EXCEPT !.requests = spent.requests + 1] /\ point = "request"
      /\ sent' = IF api = "anthropic" /\ resumable THEN replay \o Delta ELSE Delta
      /\ wire' = IF api = "anthropic" THEN Items(Folded(sent'))
                 ELSE (IF resumable THEN wire ELSE <<>>)
                      \o Items([i \in DOMAIN sent' |-> ToItems(sent'[i])])
      /\ point' = "stream" /\ accum' = NoTurn /\ streamed' = <<>>
  BY DEF SendMessages
<1>u. UNCHANGED <<api, talk, seen, replay, resumable, answers, ran>>
  BY DEF SendMessages
<1>2. Made' = Made /\ Streamed' = Streamed /\ Delta' = Delta
  BY <1>u DEF Made, Streamed, Delta
<1>3. /\ RanAs(api, ran, Made) /\ Agree(api, Own(Use, talk), Made)
      /\ (api = "anthropic" /\ resumable => Agree(api, Own(Use, replay), Made))
      /\ (api = "openai" /\ resumable => Agree(api, Told(Use, wire), Made))
      /\ UnseenIsUser
  BY DEF Views, ViewsAgree
<1>4. Use \in SUBSET Kinds /\ Kinds \in SUBSET Kinds
  BY DEF Use, Kinds
<1>5. /\ talk \in Seq(Message) /\ replay \in Seq(Message) /\ wire \in Seq(WireItem)
      /\ resumable \in BOOLEAN /\ api \in {"anthropic", "openai"} /\ Delta \in Seq(Message)
      /\ (~resumable => Delta = talk)
  BY DeltaType DEF WireTypes
<1>6. sent' \in Seq(Message)
  BY <1>1, <1>5, ConcatProperties
<1>7. resumable => Own(Use, Delta) = <<>> /\ Own(Kinds, Delta) = <<>>
  BY <1>3, <1>4, DeltaOwn
<1>8. ASSUME NEW K \in SUBSET Kinds
      PROVE  /\ Own(K, replay \o Delta) = Own(K, replay) \o Own(K, Delta)
             /\ Own(K, replay) \in Seq(AssistantPart(K))
             /\ Own(K, replay) \o <<>> = Own(K, replay)
  <2>1. Own(K, replay) \in Seq(AssistantPart(K))
    BY <1>5, OwnMade
  <2>2. Own(K, replay \o Delta) = Own(K, replay) \o Own(K, Delta)
    BY <1>5, OwnMade
  <2> QED BY <2>1, <2>2, ConcatEmptySeq
<1>9. ASSUME api = "anthropic"
      PROVE  Agree(api, Own(Use, sent'), Made) /\ wire' = Items(Folded(sent'))
  <2>1. CASE resumable
    <3>1. sent' = replay \o Delta
      BY <1>1, <1>9, <2>1
    <3>2. Own(Use, sent') = Own(Use, replay)
      BY <1>4, <1>7, <1>8, <2>1, <3>1
    <3> QED BY <1>1, <1>3, <1>9, <2>1, <3>2
  <2>2. CASE ~resumable
    <3>1. sent' = talk
      BY <1>1, <1>5, <2>2
    <3> QED BY <1>1, <1>3, <1>9, <3>1
  <2> QED BY <2>1, <2>2
<1>10. ASSUME api = "openai"
       PROVE  Agree(api, Told(Use, wire'), Made)
  <2> DEFINE new == Items([i \in DOMAIN sent' |-> ToItems(sent'[i])])
             old == IF resumable THEN wire ELSE <<>>
  <2>1. wire' = old \o new /\ sent' = Delta
    BY <1>1, <1>10
  <2>2. new \in Seq(WireItem)
    <3>1. ItemizedIn \in [Message -> Seq(WireItem)]
      BY WiredType
    <3>2. Flat(sent', ItemizedIn) \in Seq(WireItem)
      BY <1>6, <3>1, FlatMade
    <3> QED BY <1>6, <3>2, ItemsItemized
  <2>3. old \in Seq(WireItem)
    <3>1. <<>> \in Seq(WireItem)
      OBVIOUS
    <3> QED BY <1>5, <3>1
  <2>4. Told(Use, new) = Own(Use, sent')
    BY <1>6, ToldItemized DEF Use
  <2> HIDE DEF new
  <2>5. Told(Use, old \o new) = Told(Use, old) \o Told(Use, new)
    BY <1>4, <2>2, <2>3, ToldMade
  <2>6. CASE resumable
    <3>1. Told(Use, new) = <<>> /\ old = wire
      BY <1>7, <2>1, <2>4, <2>6
    <3>2. Told(Use, wire) \in Seq(AssistantPart(Use))
      BY MadeType
    <3>3. Told(Use, wire') = Told(Use, wire)
      BY <2>1, <2>5, <3>1, <3>2, ConcatEmptySeq
    <3> QED BY <1>3, <1>10, <2>6, <3>3
  <2>7. CASE ~resumable
    <3>1. Told(Use, old) = <<>> /\ sent' = talk
      BY <1>4, <1>5, <2>1, <2>7, ToldMade
    <3>2. Own(Use, talk) \in Seq(AssistantPart(Use))
      BY MadeType
    <3>3. Told(Use, wire') = Own(Use, talk)
      BY <2>1, <2>4, <2>5, <3>1, <3>2, ConcatEmptySeq
    <3> QED BY <1>3, <3>3
  <2> QED BY <2>6, <2>7
<1>11. ViewsAgree'
  BY <1>1, <1>2, <1>3, <1>9, <1>10, <1>u DEF ViewsAgree
<1>12. UnseenIsUser'
  BY <1>3, <1>u DEF UnseenIsUser
<1>13. spent'.requests = spent.requests + 1 /\ spent.requests \in Nat
  <2>1. spent \in [requests : Nat, blocks : Nat, breaks : Nat]
    BY HeardTypes
  <2> QED BY <1>1, <2>1
<1>14. Len(answers) \in Nat
  BY DEF WireTypes
<1>15. spent.requests >= Len(answers) + 0 /\ (Whole <=> spent.requests = Len(answers) + 0)
  BY <1>1 DEF Views, ChainInv, Whole
<1>16. Whole' <=> Whole
  BY <1>1, <1>13, <1>14, <1>15, <1>u DEF Whole
<1>17. Len(answers) = 0 => \A i \in DOMAIN talk : talk[i].role = "user"
  BY DEF Views, ChainInv
<1>18. ASSUME api = "anthropic", Whole
       PROVE  /\ resumable \/ Len(answers) = 0
              /\ resumable => Own(Kinds, replay) = Shapes(api, Streamed)
              /\ Own(Kinds, sent') = Shapes(api, Streamed)
              /\ resumable => sent' = replay \o Delta
  <2>1. (resumable \/ Len(answers) = 0) /\ (resumable => Own(Kinds, replay) = Shapes(api, Streamed))
    BY <1>18 DEF Views, ChainInv
  <2>2. CASE resumable
    <3>1. sent' = replay \o Delta
      BY <1>1, <1>18, <2>2
    <3>2. Own(Kinds, sent') = Own(Kinds, replay)
      BY <1>4, <1>7, <1>8, <2>2, <3>1
    <3> QED BY <2>1, <2>2, <3>1, <3>2
  <2>3. CASE ~resumable
    <3>1. Len(answers) = 0 /\ sent' = talk
      BY <1>1, <1>5, <2>1, <2>3
    <3>2. Own(Kinds, sent') = <<>>
      BY <1>4, <1>5, <1>17, <3>1, OwnUsers
    <3>3. Streamed = <<>>
      <4>1. answers \in Seq(Seq(Block))
        BY DEF WireTypes
      <4>2. answers = <<>>
        BY <3>1, <4>1
      <4> QED BY <3>1, <4>1, <4>2, FlattenSeqIs DEF Streamed
    <3> QED BY <2>1, <2>3, <3>2, <3>3, ShapesMade
  <2> QED BY <2>2, <2>3
<1>19. ChainInv'
  <2>1. spent'.requests >= Len(answers') + 1
    BY <1>13, <1>14, <1>15, <1>u
  <2> QED BY <1>1, <1>2, <1>16, <1>17, <1>18, <1>u, <2>1 DEF ChainInv
<1>20. CallsHeard'
  <2>1. CallBlocks(<<>>) = <<>> /\ accum'.calls = <<>>
    BY <1>1, CallBlocksMade DEF NoTurn
  <2> QED BY <1>1, <2>1 DEF CallsHeard, Matched
<1> QED BY <1>11, <1>12, <1>19, <1>20 DEF Views

\* A turn that is asked again: only the history is left of the views.
LEMMA ViewsFallback ==
  ASSUME WireTypes, Views, Fallback
  PROVE  CallsHeard' /\ Views'
<1>1. point = "stream" /\ resumable' = FALSE /\ point' = "request"
  BY DEF Fallback
<1>u. UNCHANGED <<api, talk, answers, ran, spent>>
  BY DEF Fallback
<1>2. Made' = Made
  BY <1>u DEF Made, Streamed
<1>3. RanAs(api, ran, Made) /\ Agree(api, Own(Use, talk), Made)
  BY DEF Views, ViewsAgree
<1>4. ViewsAgree'
  BY <1>1, <1>2, <1>3, <1>u DEF ViewsAgree
<1>5. UnseenIsUser' /\ CallsHeard'
  BY <1>1 DEF UnseenIsUser, CallsHeard
<1>6. spent.requests \in Nat /\ Len(answers) \in Nat
  BY HeardTypes DEF WireTypes
<1>7. spent.requests >= Len(answers) + 1 /\ (Len(answers) = 0 => \A i \in DOMAIN talk : talk[i].role = "user")
  BY <1>1 DEF Views, ChainInv
<1>8. ~Whole'
  BY <1>1, <1>6, <1>7, <1>u DEF Whole
<1>9. spent'.requests >= Len(answers') + 0
  BY <1>6, <1>7, <1>u
<1>10. ChainInv'
  BY <1>1, <1>7, <1>8, <1>9, <1>u DEF ChainInv
<1> QED BY <1>4, <1>5, <1>10 DEF Views

\* The user, or the tools, have their say.
LEMMA ViewsSaid ==
  ASSUME WireTypes, Views, NEW more \in Seq(Message), \A i \in DOMAIN more : more[i].role = "user",
         talk' = talk \o more, point \notin {"stream"}, point' = "request",
         UNCHANGED <<api, seen, replay, resumable, sent, wire, answers, ran, spent>>
  PROVE  CallsHeard' /\ Views'
<1>1. Made' = Made /\ Streamed' = Streamed
  BY DEF Made, Streamed
<1>2. Use \in SUBSET Kinds
  BY DEF Use, Kinds
<1>3. talk \in Seq(Message)
  BY DEF WireTypes
<1>4. Own(Use, talk') = Own(Use, talk)
  <2>1. Own(Use, more) = <<>>
    BY <1>2, OwnUsers
  <2>2. Own(Use, talk \o more) = Own(Use, talk) \o Own(Use, more)
    BY <1>2, <1>3, OwnMade
  <2> QED BY <2>1, <2>2, MadeType, ConcatEmptySeq
<1>5. ViewsAgree'
  BY <1>1, <1>4 DEF Views, ViewsAgree
<1>6. ASSUME NEW i \in DOMAIN talk'
      PROVE  (i \in DOMAIN talk /\ talk'[i] = talk[i]) \/ talk'[i].role = "user"
  <2>1. i \in 1..Len(talk) + Len(more)
    BY <1>3, JoinedAt
  <2>2. \/ i \in DOMAIN talk /\ (talk \o more)[i] = talk[i]
        \/ i - Len(talk) \in DOMAIN more /\ i \notin DOMAIN talk /\ (talk \o more)[i] = more[i - Len(talk)]
    BY <1>3, <2>1, JoinedAt
  <2> QED BY <2>2
<1>7. UnseenIsUser'
  BY <1>6 DEF Views, UnseenIsUser
<1>8. (Len(answers) = 0 => \A i \in DOMAIN talk : talk[i].role = "user")
  BY DEF Views, ChainInv
<1>9. Len(answers') = 0 => \A i \in DOMAIN talk' : talk'[i].role = "user"
  BY <1>6, <1>8
<1>10. Whole' <=> Whole
  BY DEF Whole
<1>11. ChainInv'
  BY <1>1, <1>9, <1>10 DEF Views, ChainInv
<1>12. CallsHeard'
  BY DEF CallsHeard
<1> QED BY <1>5, <1>7, <1>11, <1>12 DEF Views

\* The message of an answer adds what the model said in it.
LEMMA OwnAnswer ==
  ASSUME NEW K \in SUBSET Kinds, NEW ms \in Seq(Message), NEW ps \in Seq(APart)
  PROVE  /\ Own(K, Append(ms, Msg("assistant", ps))) = Own(K, ms) \o Among(ps, AssistantPart(K))
         /\ Own(K, ms \o (IF ps = <<>> THEN <<>> ELSE <<Msg("assistant", ps)>>))
              = Own(K, ms) \o Among(ps, AssistantPart(K))
<1> DEFINE m == Msg("assistant", ps)
<1>1. m \in Message
  BY MsgType
<1>2. OwnIn(K)[m] = Among(ps, AssistantPart(K))
  BY <1>1 DEF OwnIn, Msg
<1> HIDE DEF m
<1>3. Own(K, Append(ms, m)) = Own(K, ms) \o Among(ps, AssistantPart(K))
  BY <1>1, <1>2, OwnMade
<1>4. Own(K, ms) \in Seq(AssistantPart(K))
  BY OwnMade
<1>5. CASE ps = <<>>
  <2>1. Among(ps, AssistantPart(K)) = <<>>
    BY <1>5, AmongMade
  <2>2. ms \o <<>> = ms /\ Own(K, ms) \o <<>> = Own(K, ms)
    BY <1>4, ConcatEmptySeq
  <2> QED BY <1>3, <1>5, <2>1, <2>2 DEF m
<1>6. CASE ps # <<>>
  <2>1. ms \o <<m>> = Append(ms, m)
    BY <1>1
  <2> QED BY <1>3, <1>6, <2>1 DEF m
<1> QED BY <1>5, <1>6

\* An answer that is accepted enters every view.
LEMMA ViewsFinish ==
  ASSUME WireTypes, TranslatorInv, CallsHeard, Views, Finish
  PROVE  CallsHeard' /\ Views'
<1> DEFINE shown == Shapes(api, streamed)
           uses == Flat(streamed, UsesIn(api))
           called == CallBlocks(streamed)
<1>1. /\ point = "stream" /\ resumable' /\ spent' = spent /\ api' = api /\ point' # "stream"
      /\ api = "anthropic" =>
           replay' = Pruned(sent) \o (IF shown = <<>> THEN <<>> ELSE <<Msg("assistant", shown)>>)
      /\ api = "openai" => wire' = wire \o Remembered(api, streamed)
      /\ talk' = Append(talk, Msg("assistant", Finalized(accum)))
      /\ seen' = Len(talk') /\ answers' = Append(answers, streamed)
      /\ ran' = ran \o Runs(accum)
  BY FinishDoes
<1>2. /\ talk \in Seq(Message) /\ sent \in Seq(Message) /\ wire \in Seq(WireItem)
      /\ answers \in Seq(Seq(Block)) /\ streamed \in Seq(Block) /\ api \in {"anthropic", "openai"}
  BY DEF WireTypes
<1>3. Use \in SUBSET Kinds /\ Kinds \in SUBSET Kinds
  BY DEF Use, Kinds
<1>4. shown \in Seq(APart) /\ Finalized(accum) \in Seq(APart) /\ CallParts(accum) \in Seq(AssistantPart(Use))
      /\ Runs(accum) \in Seq(Execution) /\ accum \in Turn
      /\ Among(Finalized(accum), AssistantPart(Use)) = CallParts(accum)
  <2>1. accum \in Turn
    BY HeardTypes
  <2> QED BY <1>2, <2>1, ShapesMade, FinalizedIs, RunsType
<1>5. called \in Seq(Block)
  <2>1. called \in Seq(Block \cap CallBlock)
    BY <1>2, CallBlocksMade
  <2> HIDE DEF called
  <2> QED BY <2>1
<1>6. Streamed' = Streamed \o streamed
  BY <1>1, <1>2, FlattenAppend DEF Streamed
<1>7. Made' = Made \o called
  BY <1>2, <1>6, MadeType, CallBlocksMade DEF Made
<1>8. Matched(api, accum.calls, called)
  BY <1>1 DEF CallsHeard
<1>9. /\ RanAs(api, ran, Made) /\ Agree(api, Own(Use, talk), Made)
      /\ (api = "anthropic" => Agree(api, Own(Use, sent), Made))
      /\ (api = "openai" => Agree(api, Told(Use, wire), Made))
  BY <1>1 DEF Views, ViewsAgree
<1>10. /\ Made \in Seq(Block) /\ ran \in Seq(Execution)
       /\ Own(Use, talk) \in Seq(AssistantPart(Use)) /\ Own(Use, sent) \in Seq(AssistantPart(Use))
       /\ Told(Use, wire) \in Seq(AssistantPart(Use))
  BY MadeType
<1>11. uses \in Seq(AssistantPart(Use)) /\ Agree(api, uses, called)
  BY <1>2, UsesAgree
<1> HIDE DEF uses, called, shown
<1>12. Agree(api, CallParts(accum), called) /\ RanAs(api, Runs(accum), called)
  BY <1>4, <1>5, <1>8, HeardAgrees
<1>13. RanAs(api, ran', Made')
  <2>1. RanAs(api, ran \o Runs(accum), Made \o called)
    BY <1>4, <1>5, <1>9, <1>10, <1>12, RanAsJoin
  <2> QED BY <1>1, <1>7, <2>1
<1>14. Agree(api, Own(Use, talk'), Made')
  <2>1. Own(Use, talk') = Own(Use, talk) \o CallParts(accum)
    BY <1>1, <1>2, <1>3, <1>4, OwnAnswer
  <2>2. Agree(api, Own(Use, talk) \o CallParts(accum), Made \o called)
    BY <1>4, <1>5, <1>9, <1>10, <1>12, AgreeJoin
  <2> QED BY <1>7, <2>1, <2>2
<1>15. ASSUME NEW K \in SUBSET Kinds, api = "anthropic"
       PROVE  Own(K, replay') = Own(K, sent) \o Among(shown, AssistantPart(K))
  <2>1. Pruned(sent) \in Seq(Message)
    BY <1>2, PrunedType
  <2>2. replay' = Pruned(sent) \o (IF shown = <<>> THEN <<>> ELSE <<Msg("assistant", shown)>>)
    BY <1>1, <1>15
  <2>3. Own(K, replay') = Own(K, Pruned(sent)) \o Among(shown, AssistantPart(K))
    BY <1>4, <2>1, <2>2, OwnAnswer
  <2>4. Own(K, Pruned(sent)) = Own(K, sent)
    BY <1>2, OwnPruned
  <2> QED BY <2>3, <2>4
<1>16. ASSUME api = "anthropic"
       PROVE  Agree(api, Own(Use, replay'), Made')
  <2>1. Among(shown, AssistantPart(Use)) = uses
    BY <1>2, ShapesUses DEF shown, uses
  <2>2. Own(Use, replay') = Own(Use, sent) \o uses
    BY <1>3, <1>15, <1>16, <2>1
  <2>3. Agree(api, Own(Use, sent) \o uses, Made \o called)
    BY <1>5, <1>9, <1>10, <1>11, <1>16, AgreeJoin
  <2> QED BY <1>7, <2>2, <2>3
<1>17. ASSUME api = "openai"
       PROVE  Agree(api, Told(Use, wire'), Made')
  <2>1. Told(Use, wire') = Told(Use, wire) \o uses
    <3>1. Remembered(api, streamed) \in Seq(WireItem)
      BY <1>2, RememberedType
    <3>2. Told(Use, Remembered(api, streamed)) = uses
      BY <1>2, RememberedUses DEF uses
    <3>3. Told(Use, wire \o Remembered(api, streamed)) = Told(Use, wire) \o Told(Use, Remembered(api, streamed))
      BY <1>2, <1>3, <3>1, ToldMade
    <3> QED BY <1>1, <1>17, <3>2, <3>3
  <2>2. Agree(api, Told(Use, wire) \o uses, Made \o called)
    BY <1>5, <1>9, <1>10, <1>11, <1>17, AgreeJoin
  <2> QED BY <1>7, <2>1, <2>2
<1>18. ViewsAgree'
  BY <1>1, <1>13, <1>14, <1>16, <1>17 DEF ViewsAgree
<1>19. talk' \in Seq(Message) /\ Len(answers') = Len(answers) + 1 /\ Len(answers) \in Nat
  <2>1. Msg("assistant", Finalized(accum)) \in Message
    BY <1>4, MsgType
  <2>2. talk' \in Seq(Message)
    BY <1>1, <1>2, <2>1
  <2> QED BY <1>1, <1>2, <2>2
<1>20. UnseenIsUser'
  <2>1. \A i \in DOMAIN talk' : ~(i > seen')
    BY <1>1, <1>19
  <2> QED BY <2>1 DEF UnseenIsUser
<1>21. spent.requests \in Nat /\ spent.requests >= Len(answers) + 1
       /\ (Whole <=> spent.requests = Len(answers) + 1)
  BY <1>1, HeardTypes DEF Views, ChainInv, Whole
<1>22. Whole' <=> Whole
  BY <1>1, <1>19, <1>21 DEF Whole
<1>23. ASSUME api = "anthropic", Whole
       PROVE  Own(Kinds, replay') = Shapes(api, Streamed')
  <2>1. Own(Kinds, sent) = Shapes(api, Streamed)
    BY <1>1, <1>23 DEF Views, ChainInv
  <2>2. Among(shown, AssistantPart(Kinds)) = shown
    BY <1>4, AmongAll DEF APart
  <2>3. Shapes(api, Streamed \o streamed) = Shapes(api, Streamed) \o shown
    BY <1>2, MadeType, ShapesJoin DEF shown
  <2> QED BY <1>3, <1>6, <1>15, <1>23, <2>1, <2>2, <2>3
<1>24. ChainInv'
  <2>1. spent'.requests >= Len(answers') + 0 /\ Len(answers') # 0
    BY <1>1, <1>19, <1>21
  <2> QED BY <1>1, <1>22, <1>23, <2>1 DEF ChainInv
<1>25. CallsHeard'
  BY <1>1 DEF CallsHeard
<1> QED BY <1>18, <1>20, <1>24, <1>25 DEF Views

\* A stream that breaks before anything of it was heard.
LEMMA ViewsBreak ==
  ASSUME ~LateBreaks, WireTypes, Views, Break
  PROVE  CallsHeard' /\ Views'
<1>1. /\ accum = NoTurn /\ accum' = NoTurn /\ spent' = spent /\ streamed' = <<>>
      /\ UNCHANGED <<api, point, talk, seen, replay, resumable, sent, wire, answers, ran>>
  BY DEF Break
<1>2. Views'
  BY <1>1, Untouched
<1>3. CallBlocks(<<>>) = <<>> /\ accum'.calls = <<>>
  BY <1>1, CallBlocksMade DEF NoTurn
<1>4. CallsHeard'
  BY <1>1, <1>3 DEF CallsHeard, Matched
<1> QED BY <1>2, <1>4

\* The results of the tools, and the texts that go with them.
LEMMA ViewsResults ==
  ASSUME WireTypes, TranslatorInv, Views, NEW asset \in BOOLEAN, NEW extra, Results(asset, extra)
  PROVE  CallsHeard' /\ Views'
<1> DEFINE results == [i \in DOMAIN accum.calls |->
                         Part("result", <<accum.calls[i].id>>, IF asset THEN "asset" ELSE "said")]
           said == <<Part("text", <<>>, "said")>>
           first == Msg("user", results \o (IF extra = "repair" THEN said ELSE <<>>))
           second == IF extra = "feedback" THEN <<Msg("user", said)>> ELSE <<>>
           more == <<first>> \o second
<1>1. /\ talk' = talk \o <<first>> \o second /\ point = "tools" /\ point' = "request"
      /\ UNCHANGED <<api, seen, replay, resumable, sent, wire, answers, ran, spent>>
  BY DEF Results
<1>2. first \in Message /\ second \in Seq(Message)
  BY UserMessages
<1>3. first.role = "user" /\ \A i \in DOMAIN second : second[i].role = "user"
  BY DEF Msg
<1>4. talk \in Seq(Message)
  BY DEF WireTypes
<1> HIDE DEF first, second
<1>5. talk' = talk \o more /\ more \in Seq(Message)
  BY <1>1, <1>2, <1>4, ConcatAssociative, ConcatProperties
<1>6. \A i \in DOMAIN more : more[i].role = "user"
  <2> TAKE i \in DOMAIN more
  <2>1. <<first>> \in Seq(Message) /\ Len(<<first>>) = 1 /\ <<first>>[1] = first /\ DOMAIN <<first>> = 1..1
    BY <1>2
  <2>2. i \in 1..Len(<<first>>) + Len(second)
    BY <1>2, <2>1, JoinedAt
  <2>3. \/ i \in DOMAIN <<first>> /\ more[i] = <<first>>[i]
        \/ i - Len(<<first>>) \in DOMAIN second /\ more[i] = second[i - Len(<<first>>)]
    BY <1>2, <2>1, <2>2, JoinedAt
  <2>4. \A n \in 1..1 : n = 1
    OBVIOUS
  <2> QED BY <1>3, <2>1, <2>3, <2>4
<1> HIDE DEF more
<1> QED BY <1>1, <1>5, <1>6, ViewsSaid

\* The next message of the user.
LEMMA ViewsSay ==
  ASSUME WireTypes, TranslatorInv, Views, Say
  PROVE  CallsHeard' /\ Views'
<1> DEFINE m == Msg("user", <<Part("text", <<>>, "said")>>)
           more == <<m>>
<1>1. /\ talk' = Append(talk, m) /\ point = "idle" /\ point' = "request"
      /\ UNCHANGED <<api, seen, replay, resumable, sent, wire, answers, ran, spent>>
  BY DEF Say
<1>2. m \in Message /\ m.role = "user"
  <2>1. m \in Message
    BY UserMessages
  <2> QED BY <2>1 DEF Msg
<1>3. talk \in Seq(Message)
  BY DEF WireTypes
<1> HIDE DEF m
<1>4. talk' = talk \o more /\ more \in Seq(Message) /\ \A i \in DOMAIN more : more[i].role = "user"
  BY <1>1, <1>2, <1>3
<1> HIDE DEF more
<1> QED BY <1>1, <1>4, ViewsSaid
-----------------------------------------------------------------------------
(***************************************************************************)
(* The invariant, and what follows from it.                                *)
(***************************************************************************)
WireInv == WireTypes /\ TranslatorInv /\ CallsHeard /\ Views

LEMMA WireInvInit == WireInit => WireInv
BY WireInitTypes, ViewsInit DEF WireInv

\* The events of a stream keep the invariant.
LEMMA StreamStep ==
  ASSUME WireInv, NEW i \in DOMAIN streamed,
         \/ \E body \in {"said", "object", "broken"} : Fill(i, body)
         \/ Sign(i) \/ BlockStop(i) \/ CallDone(i)
  PROVE  WireInv'
<1>1. WireTypes /\ TranslatorInv /\ CallsHeard /\ Views
  BY DEF WireInv
<1>2. ASSUME NEW body \in {"said", "object", "broken"}, Fill(i, body)
      PROVE  WireInv'
  <2>1. UNCHANGED <<api, point, talk, seen, replay, resumable, sent, wire, answers, ran, spent>>
    BY <1>2 DEF Fill
  <2>2. Views'
    BY <1>1, <2>1, Untouched
  <2> QED BY <1>1, <1>2, <2>2, FillTypes, CallsHeardFill DEF WireInv
<1>3. CASE Sign(i)
  <2>1. UNCHANGED <<api, point, talk, seen, replay, resumable, sent, wire, answers, ran, spent>>
    BY <1>3 DEF Sign
  <2>2. Views'
    BY <1>1, <2>1, Untouched
  <2> QED BY <1>1, <1>3, <2>2, SignTypes, CallsHeardSign DEF WireInv
<1>4. CASE BlockStop(i)
  <2>1. UNCHANGED <<api, point, talk, seen, replay, resumable, sent, wire, answers, ran, spent>>
    BY <1>4 DEF BlockStop
  <2>2. Views'
    BY <1>1, <2>1, Untouched
  <2> QED BY <1>1, <1>4, <2>2, BlockStopTypes, CallsHeardStop DEF WireInv
<1>5. CASE CallDone(i)
  <2>1. UNCHANGED <<api, point, talk, seen, replay, resumable, sent, wire, answers, ran, spent>>
    BY <1>5 DEF CallDone
  <2>2. Views'
    BY <1>1, <2>1, Untouched
  <2> QED BY <1>1, <1>5, <2>2, CallDoneTypes, CallsHeardDone DEF WireInv
<1> QED BY <1>2, <1>3, <1>4, <1>5

LEMMA BeginStep ==
  ASSUME WireInv, NEW type \in Kinds, Begin(type)
  PROVE  WireInv'
<1>1. WireTypes /\ TranslatorInv /\ CallsHeard /\ Views
  BY DEF WireInv
<1>2. /\ UNCHANGED <<api, point, talk, seen, replay, resumable, sent, wire, answers, ran>>
      /\ spent' = [spent EXCEPT !.blocks = spent.blocks + 1]
  BY DEF Begin
<1>3. spent \in [requests : Nat, blocks : Nat, breaks : Nat]
  BY <1>1, HeardTypes
<1>4. spent'.requests = spent.requests
  BY <1>2, <1>3
<1>5. Views'
  BY <1>1, <1>2, <1>4, Untouched
<1> QED BY <1>1, <1>5, BeginTypes, CallsHeardBegin DEF WireInv

\* And so does every step.
LEMMA WireInvStep ==
  ASSUME ~LateBreaks, WireInv, [WireNext]_wireVars
  PROVE  WireInv'
<1>1. WireTypes /\ TranslatorInv /\ CallsHeard /\ Views
  BY DEF WireInv
<1>2. CASE SendMessages
  BY <1>1, <1>2, SendTypes, ViewsSend DEF WireInv
<1>3. CASE Finish
  BY <1>1, <1>3, FinishTypes, ViewsFinish DEF WireInv
<1>4. CASE Break
  BY <1>1, <1>4, BreakTypes, ViewsBreak DEF WireInv
<1>5. CASE Fallback
  BY <1>1, <1>5, FallbackTypes, ViewsFallback DEF WireInv
<1>6. CASE Say
  BY <1>1, <1>6, SayTypes, ViewsSay DEF WireInv
<1>7. ASSUME NEW asset \in BOOLEAN, NEW extra \in {"nothing", "repair", "feedback"}, Results(asset, extra)
      PROVE  WireInv'
  BY <1>1, <1>7, ResultsTypes, ViewsResults DEF WireInv
<1>8. CASE UNCHANGED wireVars
  <2>1. Made' = Made /\ Streamed' = Streamed
    BY <1>8 DEF wireVars, Made, Streamed
  <2>2. WireTypes' /\ TranslatorInv'
    BY <1>1, <1>8 DEF WireTypes, TranslatorInv, OneOpen, AllKept, wireVars
  <2>3. CallsHeard'
    BY <1>1, <1>8 DEF CallsHeard, wireVars
  <2>4. Views'
    BY <1>1, <1>8, Untouched DEF wireVars
  <2> QED BY <2>2, <2>3, <2>4 DEF WireInv
<1> QED BY <1>2, <1>3, <1>4, <1>5, <1>6, <1>7, <1>8, BeginStep, StreamStep DEF WireNext

\* What the server reads of what its model said.
LEMMA ToldIsOwn ==
  ASSUME WireInv, point = "stream", api = "anthropic", NEW K \in SUBSET Kinds
  PROVE  Told(K, wire) = Own(K, sent)
<1>1. sent \in Seq(Message) /\ wire = Items(Folded(sent))
  BY DEF WireInv, WireTypes, Views, ViewsAgree
<1> QED BY <1>1, ToldSent

\* What follows for a request in flight: its calls, and its replay.
LEMMA CallsAreTrue == WireInv => CallsTrue
<1> SUFFICES ASSUME WireInv, point = "stream"
             PROVE  /\ Len(ShownCalls) = Len(Made) /\ Len(ran) = Len(Made)
                    /\ \A i \in DOMAIN Made :
                         /\ ShownCalls[i].part.of = <<Made[i].id>> /\ ran[i].id = Made[i].id
                         /\ ran[i].args \in {Parsed(Made[i])} \cup
                                            (IF Made[i].ended = 0 THEN {"none"} ELSE {})
                         /\ Made[i].ended > 0 => ShownCalls[i].part.body = ran[i].args
  BY DEF CallsTrue, Made
<1>1. WireTypes /\ ViewsAgree
  BY DEF WireInv, Views
<1>2. Use \in SUBSET Kinds
  BY DEF Use, Kinds
<1>3. wire \in Seq(WireItem) /\ api \in {"anthropic", "openai"}
  BY <1>1 DEF WireTypes
<1>4. RanAs(api, ran, Made) /\ Agree(api, Told(Use, wire), Made)
  <2>1. CASE api = "anthropic"
    BY <1>1, <1>2, <2>1, ToldIsOwn DEF ViewsAgree
  <2>2. CASE api = "openai"
    BY <1>1, <2>2 DEF ViewsAgree
  <2> QED BY <1>1, <1>3, <2>1, <2>2 DEF ViewsAgree
<1>5. /\ Len(ShownCalls) = Len(Told(Use, wire))
      /\ \A i \in DOMAIN ShownCalls : ShownCalls[i].part = Told(Use, wire)[i]
  BY <1>2, <1>3, ShownTold DEF ShownCalls, Use
<1>6. Made \in Seq(Block) /\ Made \in Seq(Block \cap CallBlock)
  BY <1>1, MadeType, CallBlocksMade DEF Made
<1>7. DOMAIN ShownCalls = 1..Len(ShownCalls)
  <2>1. ShownCalls \in Seq(WireItem \cap [role : {"assistant"}, part : AssistantPart({"use"})])
    BY <1>3, AmongIsFlat DEF ShownCalls
  <2> HIDE DEF ShownCalls
  <2> QED BY <2>1
<1>8. DOMAIN Made = DOMAIN ShownCalls /\ Len(ShownCalls) = Len(Made) /\ Len(ran) = Len(Made)
  <2>1. Len(ShownCalls) = Len(Made) /\ Len(ran) = Len(Made)
    BY <1>4, <1>5 DEF Agree, RanAs
  <2> QED BY <1>6, <1>7, <2>1
<1>9. ASSUME NEW i \in DOMAIN Made
      PROVE  /\ ShownCalls[i].part.of = <<Made[i].id>> /\ ran[i].id = Made[i].id
             /\ ran[i].args \in {Parsed(Made[i])} \cup
                                (IF Made[i].ended = 0 THEN {"none"} ELSE {})
             /\ Made[i].ended > 0 => ShownCalls[i].part.body = ran[i].args
  <2>1. Made[i] \in Block /\ Made[i].type = "use"
    BY <1>6 DEF CallBlock, BlockOf
  <2>2. Parsed(Made[i]) = ArgsOf(api, Made[i]) /\ Made[i].ended \in Nat
    BY <1>1, <2>1, ArgsAre, BlockFields
  <2>3. ShownCalls[i].part = Told(Use, wire)[i]
    BY <1>5, <1>8
  <2>4. /\ Told(Use, wire)[i].of = <<Made[i].id>>
        /\ Made[i].ended > 0 => Told(Use, wire)[i].body = ArgsOf(api, Made[i])
    BY <1>4 DEF Agree
  <2>5. /\ ran[i].id = Made[i].id
        /\ ran[i].args = IF Made[i].ended = 0 THEN "none" ELSE ArgsOf(api, Made[i])
    BY <1>4 DEF RanAs
  <2> QED BY <2>2, <2>3, <2>4, <2>5
<1> QED BY <1>8, <1>9

\* Every part of a message is sent.
LEMMA PartsWired ==
  ASSUME NEW m \in Message, NEW j \in DOMAIN m.parts
  PROVE  \E k \in DOMAIN WiredIn[m] : WiredIn[m][k].part = m.parts[j]
<1> DEFINE bs == ToBlocks(m)
           new == Msg(m.role, bs)
<1>1. new \in Message /\ WiredIn[m] = LinesIn[new]
  BY SentType DEF WiredIn
<1>2. WiredIn[m] = [k \in DOMAIN bs |-> [role |-> m.role, part |-> bs[k]]]
  BY <1>1 DEF LinesIn, Msg
<1>3. \E k \in DOMAIN bs : bs[k] = m.parts[j]
  <2>1. CASE m.role = "assistant"
    BY <2>1 DEF ToBlocks
  <2>2. CASE m.role = "user"
    <3> DEFINE R == UserPart({"result"})
               T == UserPart({"text"})
               r == Among(m.parts, R)
               t == Among(m.parts, T)
               p == m.parts[j]
    <3>1. m.parts \in Seq(UPart) /\ p \in UPart /\ bs = r \o t
      BY <2>2, MessageParts DEF ToBlocks
    <3>2. p \in R \/ p \in T
      BY <3>1 DEF UPart, UserPart
    <3>3. ASSUME NEW S, p \in S
          PROVE  \E k \in DOMAIN Among(m.parts, S) : Among(m.parts, S)[k] = p
      <4> DEFINE f == Only(UPart, S)
                 V == UPart \cap S
      <4>1. f \in [UPart -> Seq(V)] /\ Among(m.parts, S) = Flat(m.parts, f)
        BY <3>1, AmongIsFlat
      <4>2. f[p] = <<p>> /\ 1 \in DOMAIN f[p] /\ f[p][1] = p
        BY <3>1, <3>3 DEF Only
      <4> HIDE DEF f, V
      <4>3. \A s \in Seq(UPart) : \A i \in DOMAIN s : \A n \in DOMAIN f[s[i]] :
              \E k \in DOMAIN Flat(s, f) : Flat(s, f)[k] = f[s[i]][n]
        BY <4>1, FlatHas
      <4>4. \E k \in DOMAIN Flat(m.parts, f) : Flat(m.parts, f)[k] = f[m.parts[j]][1]
        BY <3>1, <4>2, <4>3
      <4> QED BY <4>1, <4>2, <4>4
    <3>4. r \in Seq(UPart) /\ t \in Seq(UPart)
      BY <3>1, SelectedParts
    <3>5. \/ \E k \in DOMAIN r : r[k] = p
          \/ \E k \in DOMAIN t : t[k] = p
      BY <3>2, <3>3
    <3> HIDE DEF r, t, p, bs
    <3>6. CASE \E k \in DOMAIN r : r[k] = p
      <4>1. PICK k \in DOMAIN r : r[k] = p
        BY <3>6
      <4>2. k \in DOMAIN (r \o t) /\ (r \o t)[k] = p
        BY <3>4, <4>1
      <4> QED BY <3>1, <4>2 DEF p
    <3>7. CASE \E k \in DOMAIN t : t[k] = p
      <4>1. PICK k \in DOMAIN t : t[k] = p
        BY <3>7
      <4>2. Len(r) + k \in DOMAIN (r \o t) /\ (r \o t)[Len(r) + k] = p
        BY <3>4, <4>1
      <4> QED BY <3>1, <4>2 DEF p
    <3> QED BY <3>5, <3>6, <3>7
  <2> QED BY <2>1, <2>2, MessageParts
<1> HIDE DEF bs
<1> QED BY <1>2, <1>3

LEMMA ReplaysAreTrue == WireInv => ReplayTrue
<1> SUFFICES ASSUME WireInv, point = "stream", api = "anthropic", resumable,
                    spent.requests = Len(answers) + 1
             PROVE  /\ [i \in DOMAIN Shown |-> Shown[i].part]
                         = FlattenSeq([i \in DOMAIN Streamed |-> Materialized(Streamed[i])])
                    /\ \A i \in DOMAIN Delta : \A j \in DOMAIN Delta[i].parts :
                         \E k \in DOMAIN wire : wire[k].part = Delta[i].parts[j]
  BY DEF ReplayTrue
<1>1. WireTypes /\ ChainInv /\ Whole /\ Kinds \in SUBSET Kinds
  BY DEF WireInv, Views, Whole
<1>2. Own(Kinds, sent) = Shapes(api, Streamed) /\ sent = replay \o Delta
  BY <1>1 DEF ChainInv
<1>3. wire \in Seq(WireItem) /\ sent \in Seq(Message) /\ replay \in Seq(Message)
      /\ Delta \in Seq(Message) /\ wire = Items(Folded(sent)) /\ Streamed \in Seq(Block)
  BY <1>1, DeltaType, MadeType DEF WireTypes, WireInv, Views, ViewsAgree
<1>4. Told(Kinds, wire) = Shapes(api, Streamed)
  BY <1>1, <1>2, ToldIsOwn
<1>5. [i \in DOMAIN Shown |-> Shown[i].part] = Told(Kinds, wire)
  <2>1. /\ Len(Shown) = Len(Told(Kinds, wire))
        /\ \A i \in DOMAIN Shown : Shown[i].part = Told(Kinds, wire)[i]
    BY <1>1, <1>3, ShownTold DEF Shown
  <2>2. Shown \in Seq(WireItem \cap [role : {"assistant"}, part : AssistantPart(Kinds)])
    BY <1>3, AmongIsFlat DEF Shown
  <2>3. Told(Kinds, wire) \in Seq(AssistantPart(Kinds))
    BY <1>1, <1>3, ToldMade
  <2> HIDE DEF Shown
  <2>4. DOMAIN Shown = DOMAIN Told(Kinds, wire)
    BY <2>1, <2>2, <2>3
  <2>5. [i \in DOMAIN Shown |-> Shown[i].part] = [i \in DOMAIN Told(Kinds, wire) |-> Told(Kinds, wire)[i]]
    BY <2>1, <2>4
  <2>6. Told(Kinds, wire) = [i \in DOMAIN Told(Kinds, wire) |-> Told(Kinds, wire)[i]]
    BY <2>3
  <2> QED BY <2>5, <2>6
<1>6. Shapes(api, Streamed) = FlattenSeq([i \in DOMAIN Streamed |-> Materialized(Streamed[i])])
  <2>1. \A i \in DOMAIN Streamed : Streamed[i] \in Block
    BY <1>3
  <2>2. \A i \in DOMAIN Streamed : ShapesIn(api)[Streamed[i]] = Materialized(Streamed[i])
    BY <1>1, <2>1, ArgsAre DEF ShapesIn
  <2>3. [i \in DOMAIN Streamed |-> ShapesIn(api)[Streamed[i]]]
          = [i \in DOMAIN Streamed |-> Materialized(Streamed[i])]
    BY <2>2
  <2> QED BY <2>3 DEF Shapes, Flat
<1>7. ASSUME NEW i \in DOMAIN Delta, NEW j \in DOMAIN Delta[i].parts
      PROVE  \E k \in DOMAIN wire : wire[k].part = Delta[i].parts[j]
  <2> DEFINE n == Len(replay) + i
  <2>1. n \in DOMAIN sent /\ sent[n] = Delta[i] /\ sent[n] \in Message
    BY <1>2, <1>3
  <2>2. PICK k \in DOMAIN WiredIn[sent[n]] : WiredIn[sent[n]][k].part = Delta[i].parts[j]
    BY <2>1, PartsWired
  <2>3. wire = Flat(sent, WiredIn)
    BY <1>3, ItemsFolded
  <2> HIDE DEF n
  <2>4. \A s \in Seq(Message) : \A l \in DOMAIN s : \A g \in DOMAIN WiredIn[s[l]] :
          \E h \in DOMAIN Flat(s, WiredIn) : Flat(s, WiredIn)[h] = WiredIn[s[l]][g]
    BY FlatHas, WiredType
  <2>5. \E h \in DOMAIN Flat(sent, WiredIn) : Flat(sent, WiredIn)[h] = WiredIn[sent[n]][k]
    BY <1>3, <2>1, <2>4
  <2> QED BY <2>2, <2>3, <2>5
<1> QED BY <1>4, <1>5, <1>6, <1>7

\* The invariant holds of every conversation in which no stream breaks after an
\* event of it was passed on.
THEOREM WireInvariant ==
  ASSUME ~LateBreaks
  PROVE  WireSpec => []WireInv
BY WireInvInit, WireInvStep, PTL DEF WireSpec

\* The model is shown the calls it made, once each and in order, and the tools run
\* with the arguments it gave (the translators, StreamAccumulator.finalize and the
\* request builders), for any number of requests, blocks and breaks.
THEOREM CallsStayTrue ==
  ASSUME ~LateBreaks
  PROVE  WireSpec => []CallsTrue
BY WireInvariant, CallsAreTrue, PTL

\* A request resumed from an unbroken chain of handles shows every block of every
\* answer as it was streamed, with its signature, and the delta in full
\* (pruneMultimodalForReplay touches only what was sent).
THEOREM ReplayStaysTrue ==
  ASSUME ~LateBreaks
  PROVE  WireSpec => []ReplayTrue
BY WireInvariant, ReplaysAreTrue, PTL

(***************************************************************************)
(* Where the calls of a conversation lie, and where their results.         *)
(***************************************************************************)
OfKind(w, type) == {i \in DOMAIN w : w[i].part.type = type}

\* Between a call and its result lie the rest of the answer and other results.
Adjoins(w, i, j) ==
  \E k \in i..(j - 1) : /\ \A n \in i..k : w[n].role = "assistant"
                        /\ \A n \in (k + 1)..j : w[n].part.type = "result"

\* Item j holds the one result of the call in item i, which is the only one of its id.
Answers(a, w, i, j) ==
  /\ i < j /\ w[i].part.of = w[j].part.of
  /\ \A k \in OfKind(w, "use") : w[k].part.of = w[j].part.of => k = i
  /\ \A k \in OfKind(w, "result") : w[k].part.of = w[i].part.of => k = j
  /\ a = "anthropic" => Adjoins(w, i, j)
Answered(a, w) ==
  /\ \A i \in OfKind(w, "use") : \E j \in OfKind(w, "result") : Answers(a, w, i, j)
  /\ \A j \in OfKind(w, "result") : \E i \in OfKind(w, "use") : Answers(a, w, i, j)

\* The items of w in their order in v, with nothing between them that calls or answers;
\* for Anthropic they begin v.
Embeds(a, e, w, v) ==
  /\ e \in [DOMAIN w -> DOMAIN v]
  /\ \A m, n \in DOMAIN w : m < n => e[m] < e[n]
  /\ \A n \in DOMAIN w : /\ v[e[n]].role = w[n].role /\ v[e[n]].part.type = w[n].part.type
                         /\ v[e[n]].part.of = w[n].part.of
  /\ \A k \in OfKind(v, "use") \cup OfKind(v, "result") : \E n \in DOMAIN w : e[n] = k
  /\ a = "anthropic" => \A n \in DOMAIN w : e[n] = n

LEMMA EmbedsAnswer ==
  ASSUME NEW a, NEW w \in Seq(WireItem), NEW v \in Seq(WireItem), NEW e, Embeds(a, e, w, v),
         NEW i \in DOMAIN w, NEW j \in DOMAIN w, Answers(a, w, i, j)
  PROVE  Answers(a, v, e[i], e[j])
<1>1. /\ e \in [DOMAIN w -> DOMAIN v]
      /\ \A m, n \in DOMAIN w : m < n => e[m] < e[n]
      /\ \A n \in DOMAIN w : v[e[n]].role = w[n].role /\ v[e[n]].part.type = w[n].part.type
      /\ \A n \in DOMAIN w : v[e[n]].part.of = w[n].part.of
      /\ \A k \in OfKind(v, "use") \cup OfKind(v, "result") : \E n \in DOMAIN w : e[n] = k
  BY DEF Embeds
<1>2. /\ i < j /\ w[i].part.of = w[j].part.of
      /\ \A k \in OfKind(w, "use") : w[k].part.of = w[j].part.of => k = i
      /\ \A k \in OfKind(w, "result") : w[k].part.of = w[i].part.of => k = j
  BY DEF Answers
<1>3. e[i] < e[j] /\ v[e[i]].part.of = v[e[j]].part.of
  BY <1>1, <1>2
<1>4. ASSUME NEW k \in OfKind(v, "use"), v[k].part.of = v[e[j]].part.of
      PROVE  k = e[i]
  <2>1. PICK n \in DOMAIN w : e[n] = k
    BY <1>1
  <2>2. n \in OfKind(w, "use") /\ w[n].part.of = w[j].part.of
    BY <1>1, <1>4, <2>1 DEF OfKind
  <2> QED BY <1>2, <2>1, <2>2
<1>5. ASSUME NEW k \in OfKind(v, "result"), v[k].part.of = v[e[i]].part.of
      PROVE  k = e[j]
  <2>1. PICK n \in DOMAIN w : e[n] = k
    BY <1>1
  <2>2. n \in OfKind(w, "result") /\ w[n].part.of = w[i].part.of
    BY <1>1, <1>5, <2>1 DEF OfKind
  <2> QED BY <1>2, <2>1, <2>2
<1>6. ASSUME a = "anthropic"
      PROVE  Adjoins(v, e[i], e[j])
  <2>1. \A n \in DOMAIN w : e[n] = n
    BY <1>6 DEF Embeds
  <2>2. PICK k \in i..(j - 1) : /\ \A n \in i..k : w[n].role = "assistant"
                                /\ \A n \in (k + 1)..j : w[n].part.type = "result"
    BY <1>6 DEF Answers, Adjoins
  <2>3. \A n \in i..j : n \in DOMAIN w
    OBVIOUS
  <2>4. \A n \in i..k : n \in i..j
    OBVIOUS
  <2>5. \A n \in (k + 1)..j : n \in i..j
    OBVIOUS
  <2>6. \A n \in DOMAIN w : v[n].role = w[n].role /\ v[n].part.type = w[n].part.type
    BY <1>1, <2>1
  <2>7. \A n \in i..k : v[n].role = "assistant"
    BY <2>2, <2>3, <2>4, <2>6
  <2>8. \A n \in (k + 1)..j : v[n].part.type = "result"
    BY <2>2, <2>3, <2>5, <2>6
  <2> QED BY <2>1, <2>2, <2>7, <2>8 DEF Adjoins
<1> QED BY <1>3, <1>4, <1>5, <1>6 DEF Answers

LEMMA EmbedsAnswered ==
  ASSUME NEW a, NEW w \in Seq(WireItem), NEW v \in Seq(WireItem), NEW e, Embeds(a, e, w, v),
         Answered(a, w)
  PROVE  Answered(a, v)
<1>1. /\ e \in [DOMAIN w -> DOMAIN v]
      /\ \A n \in DOMAIN w : v[e[n]].part.type = w[n].part.type
      /\ \A k \in OfKind(v, "use") \cup OfKind(v, "result") : \E n \in DOMAIN w : e[n] = k
  BY DEF Embeds
<1>2. ASSUME NEW k \in OfKind(v, "use")
      PROVE  \E l \in OfKind(v, "result") : Answers(a, v, k, l)
  <2>1. PICK i \in DOMAIN w : e[i] = k
    BY <1>1
  <2>2. i \in OfKind(w, "use")
    BY <1>1, <2>1 DEF OfKind
  <2>3. PICK j \in OfKind(w, "result") : Answers(a, w, i, j)
    BY <2>2 DEF Answered
  <2>4. j \in DOMAIN w /\ e[j] \in OfKind(v, "result")
    BY <1>1 DEF OfKind
  <2> QED BY <2>1, <2>3, <2>4, EmbedsAnswer
<1>3. ASSUME NEW l \in OfKind(v, "result")
      PROVE  \E k \in OfKind(v, "use") : Answers(a, v, k, l)
  <2>1. PICK j \in DOMAIN w : e[j] = l
    BY <1>1
  <2>2. j \in OfKind(w, "result")
    BY <1>1, <2>1 DEF OfKind
  <2>3. PICK i \in OfKind(w, "use") : Answers(a, w, i, j)
    BY <2>2 DEF Answered
  <2>4. i \in DOMAIN w /\ e[i] \in OfKind(v, "use")
    BY <1>1 DEF OfKind
  <2> QED BY <2>1, <2>3, <2>4, EmbedsAnswer
<1> QED BY <1>2, <1>3 DEF Answered

\* The calls and results of w have their ids in S.
Within(w, S) == \A i \in OfKind(w, "use") \cup OfKind(w, "result") : w[i].part.of \in S

\* A pair stays one when what stands before it or after it has other ids.
LEMMA AnswersJoined ==
  ASSUME NEW a, NEW f \in Seq(WireItem), NEW g \in Seq(WireItem), NEW S, NEW T,
         Within(f, S), Within(g, T), S \cap T = {}
  PROVE  /\ \A i \in OfKind(f, "use"), j \in OfKind(f, "result") :
              Answers(a, f, i, j) => Answers(a, f \o g, i, j)
         /\ \A i \in OfKind(g, "use"), j \in OfKind(g, "result") :
              Answers(a, g, i, j) => Answers(a, f \o g, Len(f) + i, Len(f) + j)
<1> DEFINE w == f \o g
           N == Len(f)
<1>1. /\ N \in Nat /\ DOMAIN f = 1..N /\ DOMAIN g = 1..Len(g) /\ Len(g) \in Nat
      /\ DOMAIN w = 1..N + Len(g)
      /\ \A n \in 1..N : w[n] = f[n]
      /\ \A n \in 1..Len(g) : w[N + n] = g[n]
  OBVIOUS
<1>2. \A n \in DOMAIN w : n \in 1..N \/ \E m \in 1..Len(g) : n = N + m
  <2> TAKE n \in DOMAIN w
  <2>1. n \in 1..N \/ (n - N \in 1..Len(g) /\ n = N + (n - N))
    BY <1>1
  <2> QED BY <2>1
<1> HIDE DEF w, N
<1>3. ASSUME NEW i \in OfKind(f, "use"), NEW j \in OfKind(f, "result"), Answers(a, f, i, j)
      PROVE  Answers(a, w, i, j)
  <2>1. i \in 1..N /\ j \in 1..N /\ f[i].part.of \in S /\ f[j].part.of \in S
    BY <1>1 DEF OfKind, Within
  <2>2. i < j /\ w[i] = f[i] /\ w[j] = f[j] /\ w[i].part.of = w[j].part.of
    BY <1>1, <1>3, <2>1 DEF Answers
  <2>3. ASSUME NEW k \in OfKind(w, "use") \cup OfKind(w, "result"), w[k].part.of \in S
        PROVE  k \in 1..N /\ w[k] = f[k]
    <3>1. k \in DOMAIN w
      BY DEF OfKind
    <3>2. ASSUME NEW m \in 1..Len(g), k = N + m
          PROVE  FALSE
      <4>1. m \in OfKind(g, "use") \cup OfKind(g, "result") /\ g[m] = w[k]
        BY <1>1, <3>2 DEF OfKind
      <4> QED BY <2>3, <4>1 DEF Within
    <3> QED BY <1>1, <1>2, <3>1, <3>2
  <2>4. \A k \in OfKind(w, "use") : w[k].part.of = w[j].part.of => k = i
    <3>1. \A k \in OfKind(w, "use") : w[k].part.of = w[j].part.of => k \in OfKind(f, "use") /\ w[k] = f[k]
      BY <1>1, <2>1, <2>2, <2>3 DEF OfKind
    <3> QED BY <1>3, <2>2, <3>1 DEF Answers
  <2>5. \A k \in OfKind(w, "result") : w[k].part.of = w[i].part.of => k = j
    <3>1. \A k \in OfKind(w, "result") : w[k].part.of = w[i].part.of => k \in OfKind(f, "result") /\ w[k] = f[k]
      BY <1>1, <2>1, <2>2, <2>3 DEF OfKind
    <3> QED BY <1>3, <2>2, <3>1 DEF Answers
  <2>6. ASSUME a = "anthropic"
        PROVE  Adjoins(w, i, j)
    <3>1. PICK k \in i..(j - 1) : /\ \A n \in i..k : f[n].role = "assistant"
                                  /\ \A n \in (k + 1)..j : f[n].part.type = "result"
      BY <1>3, <2>6 DEF Answers, Adjoins
    <3>2. \A n \in i..j : w[n] = f[n]
      BY <1>1, <2>1
    <3>3. (\A n \in i..k : n \in i..j) /\ \A n \in (k + 1)..j : n \in i..j
      BY <1>1, <2>1
    <3> QED BY <3>1, <3>2, <3>3 DEF Adjoins
  <2> QED BY <2>2, <2>4, <2>5, <2>6 DEF Answers
<1>4. ASSUME NEW i \in OfKind(g, "use"), NEW j \in OfKind(g, "result"), Answers(a, g, i, j)
      PROVE  Answers(a, w, N + i, N + j)
  <2>1. i \in 1..Len(g) /\ j \in 1..Len(g) /\ g[i].part.of \in T /\ g[j].part.of \in T
    BY <1>1 DEF OfKind, Within
  <2>2. /\ i < j /\ N + i < N + j /\ w[N + i] = g[i] /\ w[N + j] = g[j]
        /\ w[N + i].part.of = w[N + j].part.of
    BY <1>1, <1>4, <2>1 DEF Answers
  <2>3. ASSUME NEW k \in OfKind(w, "use") \cup OfKind(w, "result"), w[k].part.of \in T
        PROVE  \E m \in 1..Len(g) : k = N + m /\ w[k] = g[m]
    <3>1. k \in DOMAIN w
      BY DEF OfKind
    <3>2. ASSUME k \in 1..N
          PROVE  FALSE
      <4>1. k \in OfKind(f, "use") \cup OfKind(f, "result") /\ f[k] = w[k]
        BY <1>1, <3>2 DEF OfKind
      <4> QED BY <2>3, <4>1 DEF Within
    <3> QED BY <1>1, <1>2, <3>1, <3>2
  <2>4. ASSUME NEW k \in OfKind(w, "use"), w[k].part.of = w[N + j].part.of
        PROVE  k = N + i
    <3>1. PICK m \in 1..Len(g) : k = N + m /\ w[k] = g[m]
      BY <2>1, <2>2, <2>3, <2>4
    <3>2. m \in OfKind(g, "use") /\ g[m].part.of = g[j].part.of
      BY <1>1, <2>2, <2>4, <3>1 DEF OfKind
    <3> QED BY <1>4, <3>1, <3>2 DEF Answers
  <2>5. ASSUME NEW k \in OfKind(w, "result"), w[k].part.of = w[N + i].part.of
        PROVE  k = N + j
    <3>1. PICK m \in 1..Len(g) : k = N + m /\ w[k] = g[m]
      BY <2>1, <2>2, <2>3, <2>5
    <3>2. m \in OfKind(g, "result") /\ g[m].part.of = g[i].part.of
      BY <1>1, <2>2, <2>5, <3>1 DEF OfKind
    <3> QED BY <1>4, <3>1, <3>2 DEF Answers
  <2>6. ASSUME a = "anthropic"
        PROVE  Adjoins(w, N + i, N + j)
    <3>1. PICK k \in i..(j - 1) : /\ \A n \in i..k : g[n].role = "assistant"
                                  /\ \A n \in (k + 1)..j : g[n].part.type = "result"
      BY <1>4, <2>6 DEF Answers, Adjoins
    <3>2. \A n \in (N + i)..(N + j) : n - N \in i..j /\ w[n] = g[n - N]
      <4> TAKE n \in (N + i)..(N + j)
      <4>1. n - N \in i..j /\ n - N \in 1..Len(g) /\ N + (n - N) = n
        BY <1>1, <2>1
      <4> QED BY <1>1, <4>1
    <3>3. N + k \in (N + i)..((N + j) - 1)
      BY <1>1, <2>1
    <3>4. \A n \in (N + i)..(N + k) : w[n].role = "assistant"
      <4> TAKE n \in (N + i)..(N + k)
      <4>1. n - N \in i..k /\ n \in (N + i)..(N + j)
        BY <1>1, <2>1
      <4> QED BY <3>1, <3>2, <4>1
    <3>5. \A n \in ((N + k) + 1)..(N + j) : w[n].part.type = "result"
      <4> TAKE n \in ((N + k) + 1)..(N + j)
      <4>1. n - N \in (k + 1)..j /\ n \in (N + i)..(N + j)
        BY <1>1, <2>1
      <4> QED BY <3>1, <3>2, <4>1
    <3> QED BY <3>3, <3>4, <3>5 DEF Adjoins
  <2> QED BY <2>2, <2>4, <2>5, <2>6 DEF Answers
<1> QED BY <1>3, <1>4 DEF w, N

\* Two conversations of other ids, one after the other.
LEMMA AnsweredJoined ==
  ASSUME NEW a, NEW f \in Seq(WireItem), NEW g \in Seq(WireItem), NEW S, NEW T,
         Within(f, S), Within(g, T), S \cap T = {}, Answered(a, f), Answered(a, g)
  PROVE  Answered(a, f \o g)
<1> DEFINE w == f \o g
           N == Len(f)
<1>1. /\ N \in Nat /\ DOMAIN f = 1..N /\ DOMAIN g = 1..Len(g) /\ Len(g) \in Nat
      /\ DOMAIN w = 1..N + Len(g)
      /\ \A n \in 1..N : w[n] = f[n]
      /\ \A n \in 1..Len(g) : w[N + n] = g[n]
  OBVIOUS
<1>2. /\ \A i \in OfKind(f, "use"), j \in OfKind(f, "result") : Answers(a, f, i, j) => Answers(a, w, i, j)
      /\ \A i \in OfKind(g, "use"), j \in OfKind(g, "result") :
           Answers(a, g, i, j) => Answers(a, w, N + i, N + j)
  BY AnswersJoined
<1> HIDE DEF w, N
<1>3. ASSUME NEW type, NEW k \in OfKind(w, type)
      PROVE  k \in OfKind(f, type) \/ \E m \in OfKind(g, type) : k = N + m
  <2>1. k \in 1..N \/ (k - N \in 1..Len(g) /\ k = N + (k - N))
    BY <1>1 DEF OfKind
  <2>2. CASE k \in 1..N
    BY <1>1, <2>2 DEF OfKind
  <2>3. CASE k - N \in 1..Len(g) /\ k = N + (k - N)
    <3>1. k - N \in OfKind(g, type)
      BY <1>1, <2>3 DEF OfKind
    <3> QED BY <2>3, <3>1
  <2> QED BY <2>1, <2>2, <2>3
<1>4. ASSUME NEW type
      PROVE  (\A k \in OfKind(f, type) : k \in OfKind(w, type)) /\ \A m \in OfKind(g, type) : N + m \in OfKind(w, type)
  <2>1. \A m \in 1..Len(g) : N + m \in DOMAIN w
    BY <1>1
  <2>2. \A k \in 1..N : k \in DOMAIN w
    BY <1>1
  <2> QED BY <1>1, <2>1, <2>2 DEF OfKind
<1>5. ASSUME NEW k \in OfKind(w, "use")
      PROVE  \E l \in OfKind(w, "result") : Answers(a, w, k, l)
  <2>1. CASE k \in OfKind(f, "use")
    <3>1. PICK j \in OfKind(f, "result") : Answers(a, f, k, j)
      BY <2>1 DEF Answered
    <3> QED BY <1>2, <1>4, <2>1, <3>1
  <2>2. ASSUME NEW m \in OfKind(g, "use"), k = N + m
        PROVE  \E l \in OfKind(w, "result") : Answers(a, w, k, l)
    <3>1. PICK j \in OfKind(g, "result") : Answers(a, g, m, j)
      BY DEF Answered
    <3> QED BY <1>2, <1>4, <2>2, <3>1
  <2> QED BY <1>3, <2>1, <2>2
<1>6. ASSUME NEW l \in OfKind(w, "result")
      PROVE  \E k \in OfKind(w, "use") : Answers(a, w, k, l)
  <2>1. CASE l \in OfKind(f, "result")
    <3>1. PICK i \in OfKind(f, "use") : Answers(a, f, i, l)
      BY <2>1 DEF Answered
    <3> QED BY <1>2, <1>4, <2>1, <3>1
  <2>2. ASSUME NEW m \in OfKind(g, "result"), l = N + m
        PROVE  \E k \in OfKind(w, "use") : Answers(a, w, k, l)
    <3>1. PICK i \in OfKind(g, "use") : Answers(a, g, i, m)
      BY DEF Answered
    <3> QED BY <1>2, <1>4, <2>2, <3>1
  <2> QED BY <1>3, <2>1, <2>2
<1> QED BY <1>5, <1>6 DEF Answered, w

\* Where each element of a joined sequence comes from, if every piece has one at most.
Sources(s, f, src) ==
  /\ src \in [DOMAIN Flat(s, f) -> DOMAIN s]
  /\ \A k \in DOMAIN Flat(s, f) : f[s[src[k]]] = <<Flat(s, f)[k]>>
  /\ \A k, l \in DOMAIN Flat(s, f) : src[k] = src[l] => k = l
  /\ \A i \in DOMAIN s : f[s[i]] # <<>> => \E k \in DOMAIN Flat(s, f) : src[k] = i

\* There is a source for each element.
LEMMA FlatSources ==
  ASSUME NEW S, NEW T, NEW f \in [S -> Seq(T)], \A x \in S : Len(f[x]) <= 1
  PROVE  \A s \in Seq(S) : \E src : Sources(s, f, src)
<1> DEFINE P == {s \in Seq(S) : \E src : Sources(s, f, src)}
<1>1. /\ Flat(<<>>, f) = <<>>
      /\ \A s \in Seq(S) : Flat(s, f) \in Seq(T)
      /\ \A s \in Seq(S), x \in S : Flat(Append(s, x), f) = Flat(s, f) \o f[x]
  BY FlatMade
<1>2. <<>> \in P
  <2>1. Sources(<<>>, f, <<>>)
    BY <1>1 DEF Sources
  <2> QED BY <2>1
<1>3. ASSUME NEW s \in Seq(S), NEW x \in S, s \in P
      PROVE  Append(s, x) \in P
  <2> DEFINE t == Append(s, x)
             N == Len(Flat(s, f))
  <2>1. PICK src : Sources(s, f, src)
    BY <1>3
  <2>2. /\ Flat(t, f) = Flat(s, f) \o f[x] /\ Flat(s, f) \in Seq(T) /\ f[x] \in Seq(T) /\ Len(f[x]) <= 1
        /\ N \in Nat /\ DOMAIN Flat(s, f) = 1..N
    BY <1>1
  <2>3. /\ t \in Seq(S) /\ DOMAIN t = 1..Len(s) + 1 /\ t[Len(s) + 1] = x /\ Len(s) \in Nat
        /\ DOMAIN s = 1..Len(s) /\ \A i \in 1..Len(s) : t[i] = s[i]
    OBVIOUS
  <2> HIDE DEF t, N
  <2>4. /\ src \in [1..N -> 1..Len(s)]
        /\ \A k \in 1..N : f[s[src[k]]] = <<Flat(s, f)[k]>>
        /\ \A k, l \in 1..N : src[k] = src[l] => k = l
        /\ \A i \in 1..Len(s) : f[s[i]] # <<>> => \E k \in 1..N : src[k] = i
    BY <2>1, <2>2, <2>3 DEF Sources
  <2>5. CASE f[x] = <<>>
    <3>1. Flat(t, f) = Flat(s, f)
      BY <2>2, <2>5
    <3>2. src \in [1..N -> 1..Len(s) + 1]
      BY <2>3, <2>4
    <3>3. \A k \in 1..N : t[src[k]] = s[src[k]]
      BY <2>3, <2>4
    <3>4. \A i \in 1..Len(s) + 1 : f[t[i]] # <<>> => i \in 1..Len(s) /\ t[i] = s[i]
      BY <2>3, <2>5
    <3>5. \A i \in 1..Len(s) + 1 : f[t[i]] # <<>> => \E k \in 1..N : src[k] = i
      BY <2>4, <3>4
    <3>6. Sources(t, f, src)
      BY <2>2, <2>3, <2>4, <3>1, <3>2, <3>3, <3>5 DEF Sources
    <3> QED BY <2>3, <3>6 DEF t
  <2>6. CASE f[x] # <<>>
    <3> DEFINE y == f[x][1]
               more == [k \in 1..N + 1 |-> IF k = N + 1 THEN Len(s) + 1 ELSE src[k]]
    <3>1. f[x] = <<y>>
      <4>1. Len(f[x]) = 1
        <5>1. \A u \in Seq(T) : Len(u) \in Nat /\ (Len(u) = 0 => u = <<>>)
          OBVIOUS
        <5>2. f[x] \in Seq(T) /\ Len(f[x]) <= 1
          BY <2>2
        <5>3. Len(f[x]) \in Nat /\ Len(f[x]) # 0
          BY <2>6, <5>1, <5>2
        <5>4. \A n \in Nat : n <= 1 /\ n # 0 => n = 1
          OBVIOUS
        <5> QED BY <5>2, <5>3, <5>4
      <4>2. \A u \in Seq(T) : Len(u) = 1 => u = <<u[1]>>
        OBVIOUS
      <4> QED BY <2>2, <4>1, <4>2 DEF y
    <3> HIDE DEF y
    <3>2. /\ DOMAIN Flat(t, f) = 1..N + 1 /\ Flat(t, f)[N + 1] = y
          /\ \A k \in 1..N : Flat(t, f)[k] = Flat(s, f)[k]
      BY <2>2, <3>1 DEF N
    <3>3. more \in [1..N + 1 -> 1..Len(s) + 1]
      BY <2>2, <2>3, <2>4
    <3>4. more[N + 1] = Len(s) + 1 /\ \A k \in 1..N : more[k] = src[k] /\ more[k] \in 1..Len(s)
      BY <2>2, <2>4
    <3> HIDE DEF more
    <3>5. \A k \in 1..N + 1 : k = N + 1 \/ k \in 1..N
      BY <2>2
    <3>6. \A k \in 1..N + 1 : f[t[more[k]]] = <<Flat(t, f)[k]>>
      <4>1. f[t[more[N + 1]]] = <<Flat(t, f)[N + 1]>>
        BY <2>3, <3>1, <3>2, <3>4
      <4>2. \A k \in 1..N : f[t[more[k]]] = <<Flat(t, f)[k]>>
        BY <2>3, <2>4, <3>2, <3>4
      <4> QED BY <3>5, <4>1, <4>2
    <3>7. \A k, l \in 1..N + 1 : more[k] = more[l] => k = l
      <4> SUFFICES ASSUME NEW k \in 1..N + 1, NEW l \in 1..N + 1, more[k] = more[l] PROVE k = l
        OBVIOUS
      <4>1. Len(s) + 1 \notin 1..Len(s)
        BY <2>3
      <4>2. CASE k = N + 1
        BY <3>4, <3>5, <4>1, <4>2
      <4>3. CASE l = N + 1
        BY <3>4, <3>5, <4>1, <4>3
      <4>4. CASE k # N + 1 /\ l # N + 1
        BY <2>4, <3>4, <3>5, <4>4
      <4> QED BY <4>2, <4>3, <4>4
    <3>8. \A i \in 1..Len(s) + 1 : f[t[i]] # <<>> => \E k \in 1..N + 1 : more[k] = i
      <4> TAKE i \in 1..Len(s) + 1
      <4> HAVE f[t[i]] # <<>>
      <4>1. CASE i = Len(s) + 1
        <5>1. N + 1 \in 1..N + 1
          BY <2>2
        <5> QED BY <3>4, <4>1, <5>1
      <4>2. CASE i # Len(s) + 1
        <5>1. i \in 1..Len(s) /\ t[i] = s[i]
          BY <2>3, <4>2
        <5>2. PICK k \in 1..N : src[k] = i
          BY <2>4, <5>1
        <5>3. k \in 1..N + 1 /\ more[k] = i
          BY <2>2, <3>4, <5>2
        <5> QED BY <5>3
      <4> QED BY <4>1, <4>2
    <3>9. Sources(t, f, more)
      BY <2>3, <3>2, <3>3, <3>6, <3>7, <3>8 DEF Sources
    <3> QED BY <2>3, <3>9 DEF t
  <2> QED BY <2>5, <2>6
<1>4. Seq(S) \subseteq P
  <2> HIDE DEF P
  <2> QED BY <1>2, <1>3, SeqInduction
<1> QED BY <1>4

\* The calls are the call blocks of an answer.
SameCalls(calls, bs) ==
  /\ \A k, l \in DOMAIN calls : calls[k].id = calls[l].id => k = l
  /\ \A k \in DOMAIN calls : \E i \in DOMAIN bs : bs[i].type = "use" /\ bs[i].id = calls[k].id
  /\ \A i \in DOMAIN bs : bs[i].type = "use" => \E k \in DOMAIN calls : calls[k].id = bs[i].id

LEMMA HeardSame ==
  ASSUME NEW a, NEW calls \in Seq(Call), NEW bs \in Seq(Block), Distinct(bs),
         Matched(a, calls, CallBlocks(bs))
  PROVE  SameCalls(calls, bs)
<1> DEFINE f == Only(Block, CallBlock)
           cs == CallBlocks(bs)
<1>1. f \in [Block -> Seq(Block \cap CallBlock)] /\ cs = Flat(bs, f) /\ cs \in Seq(Block \cap CallBlock)
  BY AmongIsFlat DEF CallBlocks
<1>2. \A x \in Block : f[x] = IF x.type = "use" THEN <<x>> ELSE <<>>
  BY CallOrNot DEF Only
<1>3. Len(calls) = Len(cs) /\ \A k \in DOMAIN cs : calls[k].id = cs[k].id
  BY DEF Matched
<1>4. \A x \in Block : Len(f[x]) <= 1
  <2>1. Len(<<>>) = 0 /\ \A x \in Block : Len(<<x>>) = 1
    OBVIOUS
  <2> HIDE DEF f
  <2> TAKE x \in Block
  <2>2. CASE x.type = "use"
    <3>1. f[x] = <<x>>
      BY <1>2, <2>2
    <3> QED BY <3>1
  <2>3. CASE x.type # "use"
    <3>1. f[x] = <<>>
      BY <1>2, <2>3
    <3> QED BY <3>1
  <2> QED BY <2>2, <2>3
<1> HIDE DEF f, cs
<1>5. DOMAIN calls = DOMAIN cs
  BY <1>1, <1>3
<1>6. PICK src : Sources(bs, f, src)
  BY <1>1, <1>4, FlatSources
<1>7. /\ src \in [DOMAIN cs -> DOMAIN bs]
      /\ \A k \in DOMAIN cs : f[bs[src[k]]] = <<cs[k]>>
      /\ \A k, l \in DOMAIN cs : src[k] = src[l] => k = l
      /\ \A i \in DOMAIN bs : f[bs[i]] # <<>> => \E k \in DOMAIN cs : src[k] = i
  BY <1>1, <1>6 DEF Sources
<1>8. \A k \in DOMAIN cs : bs[src[k]] \in Block /\ bs[src[k]].type = "use" /\ bs[src[k]] = cs[k]
  <2> TAKE k \in DOMAIN cs
  <2>1. bs[src[k]] \in Block /\ f[bs[src[k]]] = <<cs[k]>>
    BY <1>7
  <2> DEFINE b == bs[src[k]]
  <2>2. b.type = "use"
    <3> SUFFICES ASSUME b.type # "use" PROVE FALSE
      OBVIOUS
    <3>1. f[b] = <<>>
      BY <1>2, <2>1
    <3>2. <<>> = <<cs[k]>>
      BY <2>1, <3>1
    <3> QED BY <3>2
  <2>3. f[b] = <<b>>
    BY <1>2, <2>1, <2>2
  <2>4. <<b>> = <<cs[k]>>
    BY <2>1, <2>3
  <2> QED BY <2>1, <2>2, <2>4
<1>9. \A k, l \in DOMAIN calls : calls[k].id = calls[l].id => k = l
  BY <1>3, <1>5, <1>7, <1>8 DEF Distinct
<1>10. \A k \in DOMAIN calls : \E i \in DOMAIN bs : bs[i].type = "use" /\ bs[i].id = calls[k].id
  BY <1>3, <1>5, <1>7, <1>8
<1>11. ASSUME NEW i \in DOMAIN bs, bs[i].type = "use"
       PROVE  \E k \in DOMAIN calls : calls[k].id = bs[i].id
  <2>0. bs[i] \in Block /\ <<bs[i]>> # <<>>
    OBVIOUS
  <2>1. f[bs[i]] # <<>>
    BY <1>2, <1>11, <2>0
  <2>2. PICK k \in DOMAIN cs : src[k] = i
    BY <1>7, <2>1
  <2> QED BY <1>3, <1>5, <1>8, <2>2
<1> QED BY <1>9, <1>10, <1>11 DEF SameCalls

\* The items of an answer that makes these calls, and the results the calls are due.
Asks(t, calls) ==
  /\ \A i \in DOMAIN t : t[i].role = "assistant"
  /\ \A i \in OfKind(t, "use") : \E k \in DOMAIN calls : t[i].part.of = <<calls[k].id>>
  /\ \A k \in DOMAIN calls : \E i \in OfKind(t, "use") : t[i].part.of = <<calls[k].id>>
  /\ \A i, j \in OfKind(t, "use") : t[i].part.of = t[j].part.of => i = j
ResultsFor(calls) ==
  [k \in DOMAIN calls |-> [role |-> "user", part |-> Part("result", <<calls[k].id>>, "said")]]

LEMMA ResultsForType ==
  ASSUME NEW calls \in Seq(Call)
  PROVE  ResultsFor(calls) \in Seq(WireItem) /\ Len(ResultsFor(calls)) = Len(calls)
<1>1. DOMAIN calls = 1..Len(calls) /\ Len(calls) \in Nat /\ \A k \in DOMAIN calls : calls[k].id \in Nat
  <2>1. DOMAIN calls = 1..Len(calls) /\ Len(calls) \in Nat /\ \A k \in DOMAIN calls : calls[k] \in Call
    OBVIOUS
  <2> QED BY <2>1, GivenType
<1>2. \A n \in Nat : [role |-> "user", part |-> Part("result", <<n>>, "said")] \in WireItem
  BY DEF WireItem, UPart, UserPart, Part
<1>3. ResultsFor(calls) \in [1..Len(calls) -> WireItem]
  BY <1>1, <1>2 DEF ResultsFor
<1> QED BY <1>1, <1>3, SeqDef

LEMMA KindOfItem ==
  ASSUME NEW x \in WireItem
  PROVE  /\ x.role = "assistant" => x.part.type # "result"
         /\ x.role = "user" => x.part.type # "use"
         /\ x.role \in {"user", "assistant"}
BY DEF WireItem, UPart, UserPart, APart, AssistantPart, Kinds

LEMMA TailsAt ==
  ASSUME NEW s \in Seq(WireItem), NEW u \in Seq(WireItem)
  PROVE  /\ Len(s) \in Nat /\ DOMAIN s = 1..Len(s) /\ DOMAIN (s \o u) = 1..Len(s) + Len(u)
         /\ \A n \in 1..Len(s) : (s \o u)[n] = s[n]
         /\ \A k \in 1..Len(u) : (s \o u)[Len(s) + k] = u[k]
OBVIOUS

\* An answer followed by the results of its calls.
LEMMA TurnAnswered ==
  ASSUME NEW a, NEW t \in Seq(WireItem), NEW calls \in Seq(Call), Asks(t, calls),
         \A k, l \in DOMAIN calls : calls[k].id = calls[l].id => k = l
  PROVE  Answered(a, t \o ResultsFor(calls))
<1> DEFINE r == ResultsFor(calls)
           w == t \o r
           N == Len(t)
           M == Len(calls)
<1>1. r \in Seq(WireItem) /\ Len(r) = M
  BY ResultsForType
<1>2. /\ \A k \in DOMAIN calls : r[k].role = "user" /\ r[k].part.type = "result" /\ r[k].part.of = <<calls[k].id>>
      /\ DOMAIN calls = 1..M /\ M \in Nat
  BY DEF ResultsFor, Part
<1> HIDE DEF r
<1>3. /\ N \in Nat /\ DOMAIN t = 1..N /\ DOMAIN w = 1..N + M
      /\ \A n \in 1..N : w[n] = t[n]
      /\ \A k \in 1..M : w[N + k] = r[k]
  <2>1. /\ Len(t) \in Nat /\ DOMAIN t = 1..Len(t) /\ DOMAIN (t \o r) = 1..Len(t) + Len(r)
        /\ \A n \in 1..Len(t) : (t \o r)[n] = t[n]
        /\ \A k \in 1..Len(r) : (t \o r)[Len(t) + k] = r[k]
    <3> HIDE DEF M
    <3> QED BY <1>1, TailsAt
  <2> QED BY <1>1, <2>1
<1> HIDE DEF w, N, M
<1>a. \A k \in 1..M : w[N + k].role = "user" /\ w[N + k].part.type = "result" /\ w[N + k].part.of = <<calls[k].id>>
  <2> TAKE k \in 1..M
  <2>1. k \in DOMAIN calls /\ w[N + k] = r[k]
    BY <1>2, <1>3
  <2> QED BY <1>2, <2>1
<1>4. \A n \in 1..N : t[n] \in WireItem /\ t[n].role = "assistant" /\ t[n].part.type # "result"
  BY <1>3, KindOfItem DEF Asks
<1>5. \A n \in DOMAIN w : n \in 1..N \/ \E k \in 1..M : n = N + k
  <2> TAKE n \in DOMAIN w
  <2>1. n \in 1..N \/ (n - N \in 1..M /\ n = N + (n - N))
    BY <1>2, <1>3
  <2> QED BY <2>1
<1>6. \A i \in OfKind(w, "use") : i \in OfKind(t, "use") /\ w[i] = t[i]
  <2> TAKE i \in OfKind(w, "use")
  <2>1. i \in DOMAIN w /\ w[i].part.type = "use"
    BY DEF OfKind
  <2>2. \A k \in 1..M : i # N + k
    BY <1>a, <2>1
  <2>3. i \in 1..N
    BY <1>5, <2>1, <2>2
  <2> QED BY <1>3, <2>1, <2>3 DEF OfKind
<1>7. \A j \in OfKind(w, "result") : \E k \in 1..M : j = N + k
  BY <1>3, <1>4, <1>5 DEF OfKind
<1>8. /\ \A i \in OfKind(t, "use") : i \in OfKind(w, "use")
      /\ \A k \in 1..M : N + k \in OfKind(w, "result") /\ w[N + k].part.of = <<calls[k].id>>
  <2>1. \A i \in 1..N : i \in DOMAIN w
    BY <1>2, <1>3
  <2>2. \A k \in 1..M : N + k \in DOMAIN w
    BY <1>2, <1>3
  <2> QED BY <1>3, <1>a, <2>1, <2>2 DEF OfKind
<1>9. ASSUME NEW i \in OfKind(t, "use"), NEW k \in 1..M, t[i].part.of = <<calls[k].id>>
      PROVE  Answers(a, w, i, N + k)
  <2>1. i \in 1..N /\ w[i] = t[i] /\ i < N + k
    BY <1>2, <1>3 DEF OfKind
  <2>2. w[i].part.of = w[N + k].part.of
    BY <1>8, <1>9, <2>1
  <2>3. \A n \in OfKind(w, "use") : w[n].part.of = w[N + k].part.of => n = i
    <3>1. \A n \in OfKind(w, "use") : n \in OfKind(t, "use") /\ w[n] = t[n]
      BY <1>6
    <3>2. w[N + k].part.of = t[i].part.of
      BY <1>8, <1>9
    <3> QED BY <3>1, <3>2 DEF Asks
  <2>4. ASSUME NEW n \in OfKind(w, "result"), w[n].part.of = w[i].part.of
        PROVE  n = N + k
    <3>1. PICK l \in 1..M : n = N + l
      BY <1>7
    <3>2. <<calls[l].id>> = <<calls[k].id>>
      BY <1>8, <2>2, <2>4, <3>1
    <3>3. calls[l].id = calls[k].id
      BY <3>2
    <3> QED BY <1>2, <3>1, <3>3
  <2>5. Adjoins(w, i, N + k)
    <3>1. N \in i..((N + k) - 1)
      BY <1>2, <1>3, <2>1
    <3>2. \A n \in i..N : w[n].role = "assistant"
      <4> TAKE n \in i..N
      <4>1. n \in 1..N
        BY <1>3, <2>1
      <4> QED BY <1>3, <1>4, <4>1
    <3>3. \A n \in (N + 1)..(N + k) : w[n].part.type = "result"
      <4> TAKE n \in (N + 1)..(N + k)
      <4>1. n - N \in 1..M /\ n = N + (n - N)
        BY <1>2, <1>3
      <4> QED BY <1>8, <4>1 DEF OfKind
    <3> QED BY <3>1, <3>2, <3>3 DEF Adjoins
  <2> QED BY <2>1, <2>2, <2>3, <2>4, <2>5 DEF Answers
<1>10. ASSUME NEW i \in OfKind(w, "use")
       PROVE  \E j \in OfKind(w, "result") : Answers(a, w, i, j)
  <2>1. i \in OfKind(t, "use")
    BY <1>6
  <2>2. PICK k \in 1..M : t[i].part.of = <<calls[k].id>>
    BY <1>2, <2>1 DEF Asks
  <2> QED BY <1>8, <1>9, <2>1, <2>2
<1>11. ASSUME NEW j \in OfKind(w, "result")
       PROVE  \E i \in OfKind(w, "use") : Answers(a, w, i, j)
  <2>1. PICK k \in 1..M : j = N + k
    BY <1>7
  <2>2. PICK i \in OfKind(t, "use") : t[i].part.of = <<calls[k].id>>
    BY <1>2 DEF Asks
  <2> QED BY <1>8, <1>9, <2>1, <2>2
<1> QED BY <1>10, <1>11 DEF Answered, w, r

\* Each item is the assistant's and comes from a block of its own, each call block has one.
From(t, bs, src) ==
  /\ src \in [DOMAIN t -> DOMAIN bs]
  /\ \A k \in DOMAIN t : /\ t[k].role = "assistant" /\ t[k].part.type = bs[src[k]].type
                         /\ t[k].part.of = <<bs[src[k]].id>>
  /\ \A k, l \in DOMAIN t : src[k] = src[l] => k = l
  /\ \A i \in DOMAIN bs : bs[i].type = "use" => \E k \in DOMAIN t : src[k] = i

LEMMA AsksBlocks ==
  ASSUME NEW calls, NEW bs \in Seq(Block), SameCalls(calls, bs), Distinct(bs),
         NEW t, NEW src, From(t, bs, src)
  PROVE  Asks(t, calls)
<1>1. /\ src \in [DOMAIN t -> DOMAIN bs]
      /\ \A k \in DOMAIN t : t[k].role = "assistant" /\ t[k].part.type = bs[src[k]].type
      /\ \A k \in DOMAIN t : t[k].part.of = <<bs[src[k]].id>>
      /\ \A k, l \in DOMAIN t : src[k] = src[l] => k = l
      /\ \A i \in DOMAIN bs : bs[i].type = "use" => \E k \in DOMAIN t : src[k] = i
  BY DEF From
<1>2. ASSUME NEW i \in OfKind(t, "use")
      PROVE  \E k \in DOMAIN calls : t[i].part.of = <<calls[k].id>>
  <2>1. i \in DOMAIN t /\ bs[src[i]].type = "use"
    BY <1>1 DEF OfKind
  <2>2. PICK k \in DOMAIN calls : calls[k].id = bs[src[i]].id
    BY <1>1, <2>1 DEF SameCalls
  <2> QED BY <1>1, <2>1, <2>2
<1>3. ASSUME NEW k \in DOMAIN calls
      PROVE  \E i \in OfKind(t, "use") : t[i].part.of = <<calls[k].id>>
  <2>1. PICK i \in DOMAIN bs : bs[i].type = "use" /\ bs[i].id = calls[k].id
    BY DEF SameCalls
  <2>2. PICK n \in DOMAIN t : src[n] = i
    BY <1>1, <2>1
  <2> QED BY <1>1, <2>1, <2>2 DEF OfKind
<1>4. ASSUME NEW i \in OfKind(t, "use"), NEW j \in OfKind(t, "use"), t[i].part.of = t[j].part.of
      PROVE  i = j
  <2>1. i \in DOMAIN t /\ j \in DOMAIN t
    BY DEF OfKind
  <2>2. <<bs[src[i]].id>> = <<bs[src[j]].id>>
    BY <1>1, <1>4, <2>1
  <2>3. bs[src[i]].id = bs[src[j]].id
    BY <2>2
  <2> QED BY <1>1, <2>1, <2>3 DEF Distinct
<1> QED BY <1>1, <1>2, <1>3, <1>4 DEF Asks

LEMMA RememberedFrom ==
  ASSUME NEW a, NEW bs \in Seq(Block)
  PROVE  From(Remembered(a, bs), bs, [i \in DOMAIN bs |-> i])
<1>1. DOMAIN Remembered(a, bs) = DOMAIN bs
  BY DEF Remembered
<1>2. \A i \in DOMAIN bs : Remembered(a, bs)[i] = ItemOf(a, bs[i])
  BY DEF Remembered
<1>3. \A b : /\ ItemOf(a, b).role = "assistant" /\ ItemOf(a, b).part.type = b.type
             /\ ItemOf(a, b).part.of = <<b.id>>
  BY DEF ItemOf, Part
<1> QED BY <1>1, <1>2, <1>3 DEF From

\* What a model's message is on the wire.
LEMMA AssistantSpoken ==
  ASSUME NEW ps \in Seq(APart)
  PROVE  LET m == Msg("assistant", ps) IN
         /\ LinesIn[m] = Spoken("assistant", ps) /\ WiredIn[m] = Spoken("assistant", ps)
         /\ ItemizedIn[m] = Spoken("assistant", Among(ps, AssistantPart({"text"})) \o Among(ps, AssistantPart(Use)))
<1> DEFINE m == Msg("assistant", ps)
           qs == Among(ps, AssistantPart({"text"})) \o Among(ps, AssistantPart(Use))
<1>1. m \in Message /\ m.role = "assistant" /\ m.parts = ps
  BY MsgType DEF Msg
<1>2. qs \in Seq(APart)
  BY SelectedParts, ConcatProperties
<1>3. ToBlocks(m) = ps
  BY <1>1 DEF ToBlocks
<1>4. ToItems(m) = Msg("assistant", qs)
  BY <1>1 DEF ToItems, Use
<1> HIDE DEF qs
<1>5. ASSUME NEW us \in Seq(APart)
      PROVE  LinesIn[Msg("assistant", us)] = Spoken("assistant", us)
  <2>1. Msg("assistant", us) \in Message /\ Msg("assistant", us).role = "assistant" /\ Msg("assistant", us).parts = us
    BY MsgType DEF Msg
  <2> QED BY <2>1 DEF LinesIn, Spoken
<1>6. LinesIn[m] = Spoken("assistant", ps) /\ LinesIn[Msg("assistant", qs)] = Spoken("assistant", qs)
  BY <1>2, <1>5
<1>7. WiredIn[m] = LinesIn[Msg(m.role, ToBlocks(m))] /\ ItemizedIn[m] = LinesIn[ToItems(m)]
  <2> HIDE DEF m
  <2> QED BY <1>1 DEF WiredIn, ItemizedIn
<1> QED BY <1>1, <1>3, <1>4, <1>6, <1>7 DEF qs

LEMMA SpokenType ==
  ASSUME NEW ps \in Seq(APart)
  PROVE  /\ Spoken("assistant", ps) \in Seq(WireItem) /\ DOMAIN Spoken("assistant", ps) = DOMAIN ps
         /\ \A k \in DOMAIN ps : /\ Spoken("assistant", ps)[k].role = "assistant"
                                 /\ Spoken("assistant", ps)[k].part = ps[k]
<1>1. DOMAIN ps = 1..Len(ps) /\ Len(ps) \in Nat /\ \A k \in DOMAIN ps : ps[k] \in APart
  OBVIOUS
<1>2. \A k \in DOMAIN ps : [role |-> "assistant", part |-> ps[k]] \in WireItem
  BY <1>1 DEF WireItem
<1>3. Spoken("assistant", ps) \in [1..Len(ps) -> WireItem]
  BY <1>1, <1>2 DEF Spoken
<1>4. Spoken("assistant", ps) \in Seq(WireItem)
  BY <1>1, <1>3, SeqDef
<1> QED BY <1>4 DEF Spoken

LEMMA ShapesFrom ==
  ASSUME NEW a, NEW bs \in Seq(Block)
  PROVE  \E src : From(Spoken("assistant", Shapes(a, bs)), bs, src)
<1> DEFINE f == ShapesIn(a)
           ps == Shapes(a, bs)
           t == Spoken("assistant", ps)
<1>1. f \in [Block -> Seq(APart)] /\ ps \in Seq(APart) /\ ps = Flat(bs, f)
  BY ShapesMade DEF Shapes
<1>2. \A b \in Block : f[b] = ShapeOf(a, b)
  BY DEF ShapesIn
<1>3. ASSUME NEW b \in Block
      PROVE  /\ Len(ShapeOf(a, b)) <= 1 /\ (b.type = "use" => ShapeOf(a, b) # <<>>)
             /\ \A p : ShapeOf(a, b) = <<p>> => p.type = b.type /\ p.of = <<b.id>>
  <2>1. b.type \in Kinds
    BY BlockFields
  <2>2. Len(<<>>) = 0 /\ (\A p : Len(<<p>>) = 1 /\ <<p>> # <<>>) /\ \A p, q : <<p>> = <<q>> => p = q
    OBVIOUS
  <2>3. CASE b.type = "text" /\ b.body = "empty"
    <3>1. ShapeOf(a, b) = <<>>
      BY <2>3 DEF ShapeOf
    <3> QED BY <2>2, <2>3, <3>1
  <2>4. CASE ~(b.type = "text" /\ b.body = "empty")
    <3>1. \E y : ShapeOf(a, b) = <<Part(b.type, <<b.id>>, y)>>
      BY <2>1, <2>4 DEF ShapeOf, Kinds
    <3>2. PICK y : ShapeOf(a, b) = <<Part(b.type, <<b.id>>, y)>>
      BY <3>1
    <3>3. Part(b.type, <<b.id>>, y).type = b.type /\ Part(b.type, <<b.id>>, y).of = <<b.id>>
      BY DEF Part
    <3>4. Len(ShapeOf(a, b)) = 1 /\ ShapeOf(a, b) # <<>>
      BY <2>2, <3>2
    <3>5. \A p : ShapeOf(a, b) = <<p>> => p = Part(b.type, <<b.id>>, y)
      BY <2>2, <3>2
    <3> QED BY <3>3, <3>4, <3>5
  <2> QED BY <2>3, <2>4
<1> HIDE DEF f, ps
<1>4. \A b \in Block : Len(f[b]) <= 1
  BY <1>2, <1>3
<1>5. PICK src : Sources(bs, f, src)
  BY <1>1, <1>4, FlatSources
<1>6. /\ src \in [DOMAIN ps -> DOMAIN bs]
      /\ \A k \in DOMAIN ps : f[bs[src[k]]] = <<ps[k]>>
      /\ \A k, l \in DOMAIN ps : src[k] = src[l] => k = l
      /\ \A i \in DOMAIN bs : f[bs[i]] # <<>> => \E k \in DOMAIN ps : src[k] = i
  BY <1>1, <1>5 DEF Sources
<1>7. DOMAIN t = DOMAIN ps /\ \A k \in DOMAIN ps : t[k].role = "assistant" /\ t[k].part = ps[k]
  BY <1>1, SpokenType
<1> HIDE DEF t
<1>8. \A k \in DOMAIN ps : ps[k].type = bs[src[k]].type /\ ps[k].of = <<bs[src[k]].id>>
  <2> TAKE k \in DOMAIN ps
  <2>1. bs[src[k]] \in Block
    BY <1>6
  <2>2. ShapeOf(a, bs[src[k]]) = <<ps[k]>>
    BY <1>2, <1>6, <2>1
  <2> QED BY <1>3, <2>1, <2>2
<1>9. \A i \in DOMAIN bs : bs[i].type = "use" => \E k \in DOMAIN ps : src[k] = i
  <2> TAKE i \in DOMAIN bs
  <2>1. bs[i] \in Block
    OBVIOUS
  <2> QED BY <1>2, <1>3, <1>6, <2>1
<1>10. From(t, bs, src)
  BY <1>6, <1>7, <1>8, <1>9 DEF From
<1> QED BY <1>10 DEF t, ps

\* The message of the history ends with its calls.
LEMMA CallsAsk ==
  ASSUME NEW t \in Turn, NEW u \in Seq(AssistantPart({"thinking", "text"})),
         \A k, l \in DOMAIN t.calls : t.calls[k].id = t.calls[l].id => k = l
  PROVE  /\ u \o CallParts(t) \in Seq(APart)
         /\ Asks(Spoken("assistant", u \o CallParts(t)), t.calls)
<1> DEFINE cs == CallParts(t)
           w == u \o cs
           x == Spoken("assistant", w)
           N == Len(u)
<1>1. cs \in Seq(AssistantPart(Use))
  BY FinalizedIs
<1>2. t.calls \in Seq(Call)
  BY DEF Turn
<1>3. DOMAIN cs = DOMAIN t.calls /\ \A k \in DOMAIN t.calls : cs[k].type = "use" /\ cs[k].of = <<t.calls[k].id>>
  BY DEF CallParts, Part
<1> HIDE DEF cs
<1>4. u \in Seq(APart) /\ cs \in Seq(APart)
  <2>1. AssistantPart({"thinking", "text"}) \subseteq APart /\ AssistantPart(Use) \subseteq APart
    BY PartsOf DEF Use, Kinds
  <2> QED BY <1>1, <2>1, SeqMonotonic
<1>5. w \in Seq(APart)
  BY <1>4, ConcatProperties
<1>6. /\ N \in Nat /\ DOMAIN u = 1..N /\ DOMAIN cs = 1..Len(cs) /\ Len(cs) \in Nat /\ DOMAIN w = 1..N + Len(cs)
      /\ \A n \in 1..N : w[n] = u[n]
      /\ \A k \in 1..Len(cs) : w[N + k] = cs[k]
  BY <1>4
<1>7. \A n \in 1..N : u[n].type # "use"
  <2>1. \A p \in AssistantPart({"thinking", "text"}) : p.type # "use"
    BY DEF AssistantPart
  <2> QED BY <1>6, <2>1
<1>8. DOMAIN x = DOMAIN w /\ \A k \in DOMAIN w : x[k].role = "assistant" /\ x[k].part = w[k]
  BY <1>5, SpokenType
<1> HIDE DEF w, N, x
<1>9. \A i \in DOMAIN w : i \in 1..N \/ \E k \in 1..Len(cs) : i = N + k
  <2> TAKE i \in DOMAIN w
  <2>1. i \in 1..N \/ (i - N \in 1..Len(cs) /\ i = N + (i - N))
    BY <1>6
  <2> QED BY <2>1
<1>10. \A i \in OfKind(x, "use") : \E k \in 1..Len(cs) : i = N + k
  <2> TAKE i \in OfKind(x, "use")
  <2>1. i \in DOMAIN w /\ w[i].type = "use"
    BY <1>8 DEF OfKind
  <2>2. i \notin 1..N
    BY <1>6, <1>7, <2>1
  <2> QED BY <1>9, <2>1, <2>2
<1>11. \A k \in DOMAIN t.calls : N + k \in OfKind(x, "use") /\ x[N + k].part.of = <<t.calls[k].id>>
  <2> TAKE k \in DOMAIN t.calls
  <2>1. k \in 1..Len(cs) /\ N + k \in DOMAIN w
    BY <1>3, <1>6
  <2>2. w[N + k] = cs[k]
    BY <1>6, <2>1
  <2> QED BY <1>3, <1>8, <2>1, <2>2 DEF OfKind
<1>12. \A i \in OfKind(x, "use") : \E k \in DOMAIN t.calls : i = N + k
  BY <1>3, <1>6, <1>10
<1>13. ASSUME NEW i \in OfKind(x, "use"), NEW j \in OfKind(x, "use"), x[i].part.of = x[j].part.of
       PROVE  i = j
  <2>1. PICK k \in DOMAIN t.calls : i = N + k
    BY <1>12
  <2>2. PICK l \in DOMAIN t.calls : j = N + l
    BY <1>12
  <2>3. <<t.calls[k].id>> = <<t.calls[l].id>>
    BY <1>11, <1>13, <2>1, <2>2
  <2>4. t.calls[k].id = t.calls[l].id
    BY <2>3
  <2> QED BY <2>1, <2>2, <2>4
<1>14. Asks(x, t.calls)
  BY <1>8, <1>11, <1>12, <1>13 DEF Asks
<1> QED BY <1>5, <1>14 DEF w, x, cs

\* A conversation a provider of kind a accepts, whose calls have their ids in S.
Sound(a, w, S) == w # <<>> /\ w[1].role = "user" /\ Within(w, S) /\ Answered(a, w)

LEMMA FirstKept ==
  ASSUME NEW u \in Seq(WireItem), u # <<>>, NEW v \in Seq(WireItem)
  PROVE  u \o v # <<>> /\ (u \o v)[1] = u[1]
<1>1. Len(u) \in Nat /\ Len(u) # 0
  BY EmptySeq
<1>2. 1 \in 1..Len(u)
  BY <1>1
<1>3. DOMAIN (u \o v) = 1..Len(u) + Len(v) /\ (u \o v)[1] = u[1] /\ Len(v) \in Nat
  BY <1>2, TailsAt
<1>4. 1 \in DOMAIN (u \o v)
  BY <1>1, <1>3
<1> QED BY <1>3, <1>4

LEMMA WithinJoined ==
  ASSUME NEW u \in Seq(WireItem), NEW v \in Seq(WireItem), NEW S, NEW T, Within(u, S), Within(v, T)
  PROVE  Within(u \o v, S \cup T)
<1> DEFINE w == u \o v
           N == Len(u)
<1>1. /\ N \in Nat /\ DOMAIN u = 1..N /\ DOMAIN v = 1..Len(v) /\ Len(v) \in Nat
      /\ DOMAIN w = 1..N + Len(v)
      /\ \A n \in 1..N : w[n] = u[n]
      /\ \A n \in 1..Len(v) : w[N + n] = v[n]
  OBVIOUS
<1> HIDE DEF w, N
<1>2. ASSUME NEW k \in OfKind(w, "use") \cup OfKind(w, "result")
      PROVE  w[k].part.of \in S \cup T
  <2>1. k \in DOMAIN w /\ w[k].part.type \in {"use", "result"}
    BY DEF OfKind
  <2>2. CASE k \in 1..N
    BY <1>1, <2>1, <2>2 DEF OfKind, Within
  <2>3. CASE k \notin 1..N
    <3>1. k - N \in 1..Len(v) /\ k = N + (k - N)
      BY <1>1, <2>1, <2>3
    <3>2. w[k] = v[k - N]
      BY <1>1, <3>1
    <3> QED BY <1>1, <2>1, <3>1, <3>2 DEF OfKind, Within
  <2> QED BY <2>2, <2>3
<1> QED BY <1>2 DEF Within, w

\* Another turn after it, of calls that are new and answered in it.
LEMMA SoundJoined ==
  ASSUME NEW a, NEW u \in Seq(WireItem), NEW v \in Seq(WireItem), NEW S, NEW T,
         Sound(a, u, S), Within(v, T), Answered(a, v), S \cap T = {}
  PROVE  Sound(a, u \o v, S \cup T)
<1>1. Answered(a, u \o v)
  BY AnsweredJoined DEF Sound
<1>2. Within(u \o v, S \cup T)
  BY WithinJoined DEF Sound
<1> QED BY <1>1, <1>2, FirstKept DEF Sound

\* Items that neither call nor answer.
Plain(w) == \A i \in DOMAIN w : w[i].part.type \notin {"use", "result"}

\* More that neither calls nor answers.
LEMMA SoundExtended ==
  ASSUME NEW a, NEW u \in Seq(WireItem), NEW v \in Seq(WireItem), NEW S, Sound(a, u, S), Plain(v)
  PROVE  Sound(a, u \o v, S)
<1>1. OfKind(v, "use") = {} /\ OfKind(v, "result") = {}
  BY DEF Plain, OfKind
<1>2. Within(v, {}) /\ Answered(a, v)
  BY <1>1 DEF Within, Answered
<1>3. Sound(a, u \o v, S \cup {})
  <2>1. S \cap {} = {}
    OBVIOUS
  <2> QED BY <1>2, <2>1, SoundJoined
<1>4. S \cup {} = S
  OBVIOUS
<1> QED BY <1>3, <1>4

\* What takes the place of w, for the purposes of calls and results.
LEMMA SoundEmbedded ==
  ASSUME NEW a, NEW w \in Seq(WireItem), NEW v \in Seq(WireItem), NEW e, Embeds(a, e, w, v), NEW S,
         Sound(a, w, S), v # <<>>, v[1].role = "user"
  PROVE  Sound(a, v, S)
<1>1. Answered(a, v)
  BY EmbedsAnswered DEF Sound
<1>2. ASSUME NEW k \in OfKind(v, "use") \cup OfKind(v, "result")
      PROVE  v[k].part.of \in S
  <2>1. PICK n \in DOMAIN w : e[n] = k
    BY DEF Embeds
  <2>2. w[n].part.type = v[k].part.type /\ w[n].part.of = v[k].part.of
    BY <2>1 DEF Embeds
  <2>3. v[k].part.type \in {"use", "result"}
    BY DEF OfKind
  <2>4. n \in OfKind(w, "use") \cup OfKind(w, "result")
    BY <2>2, <2>3 DEF OfKind
  <2> QED BY <2>2, <2>4 DEF Sound, Within
<1> QED BY <1>1, <1>2 DEF Sound, Within

\* Two items a provider sees at the same place in the same way.
Alike == {q \in WireItem \X WireItem :
            q[1].role = q[2].role /\ q[1].part.type = q[2].part.type /\ q[1].part.of = q[2].part.of}

\* Only the roles, the types and the ids count.
LEMMA SoundAlike ==
  ASSUME NEW a, NEW w \in Seq(WireItem), NEW v \in Seq(WireItem), Pairwise(v, w, Alike), NEW S,
         Sound(a, w, S)
  PROVE  Sound(a, v, S)
<1> DEFINE e == [n \in DOMAIN w |-> n]
<1>1. DOMAIN v = DOMAIN w
  BY DEF Pairwise
<1>2. \A n \in DOMAIN w : v[n].role = w[n].role /\ v[n].part.type = w[n].part.type /\ v[n].part.of = w[n].part.of
  <2> TAKE n \in DOMAIN w
  <2>1. <<v[n], w[n]>> \in Alike
    BY DEF Pairwise
  <2> QED BY <2>1 DEF Alike
<1>3. Embeds(a, e, w, v)
  <2>1. \A k \in OfKind(v, "use") \cup OfKind(v, "result") : k \in DOMAIN w
    BY <1>1 DEF OfKind
  <2> QED BY <1>1, <1>2, <2>1 DEF Embeds
<1> HIDE DEF e
<1>4. v # <<>> /\ v[1].role = "user"
  <2>1. w # <<>> /\ w[1].role = "user"
    BY DEF Sound
  <2>2. Len(w) \in Nat /\ Len(w) # 0
    BY <2>1, EmptySeq
  <2>3. 1 \in DOMAIN w
    BY <2>2
  <2> QED BY <1>1, <1>2, <2>1, <2>3
<1> QED BY <1>3, <1>4, SoundEmbedded

\* The results that were due have come: r in their place, and for OpenAI texts before them.
LEMMA SoundAnswered ==
  ASSUME NEW a, NEW u \in Seq(WireItem), NEW d \in Seq(WireItem), NEW S, Sound(a, u \o d, S),
         \A k \in DOMAIN d : d[k].part.type = "result",
         NEW x \in Seq(WireItem), Plain(x), a = "anthropic" => x = <<>>,
         NEW r \in Seq(WireItem), Pairwise(r, d, Alike)
  PROVE  Sound(a, u \o (x \o r), S)
<1> DEFINE w == u \o d
           v == u \o (x \o r)
           N == Len(u)
           M == Len(x)
           L == Len(d)
           e == [n \in DOMAIN w |-> IF n <= N THEN n ELSE M + n]
<1>0. u # <<>>
  <2> SUFFICES ASSUME u = <<>> PROVE FALSE
    OBVIOUS
  <2>1. w = d
    OBVIOUS
  <2>2. d # <<>> /\ Answered(a, d)
    BY <2>1 DEF Sound
  <2>3. Len(d) \in Nat /\ Len(d) # 0 /\ DOMAIN d = 1..Len(d)
    BY <2>2, EmptySeq
  <2>4. 1 \in OfKind(d, "result")
    BY <2>3 DEF OfKind
  <2>5. PICK i \in OfKind(d, "use") : TRUE
    BY <2>2, <2>4 DEF Answered
  <2> QED BY <2>5 DEF OfKind
<1>1. x \o r \in Seq(WireItem) /\ w \in Seq(WireItem) /\ v \in Seq(WireItem)
  BY ConcatProperties
<1>2. /\ N \in Nat /\ L \in Nat /\ DOMAIN u = 1..N /\ DOMAIN w = 1..N + L /\ DOMAIN d = 1..L
      /\ \A n \in 1..N : w[n] = u[n]
      /\ \A k \in 1..L : w[N + k] = d[k]
  BY TailsAt
<1>3. /\ M \in Nat /\ DOMAIN x = 1..M /\ Len(r) = L /\ Len(x \o r) = M + L
      /\ \A n \in 1..M : (x \o r)[n] = x[n]
      /\ \A k \in 1..L : (x \o r)[M + k] = r[k]
  <2>1. Len(r) = L
    BY DEF Pairwise
  <2>2. Len(x \o r) = M + L
    <3>1. Len(x \o r) = Len(x) + Len(r)
      BY ConcatProperties
    <3> QED BY <2>1, <3>1
  <2>3. /\ M \in Nat /\ DOMAIN x = 1..M
        /\ \A n \in 1..M : (x \o r)[n] = x[n]
        /\ \A k \in 1..Len(r) : (x \o r)[M + k] = r[k]
    BY TailsAt
  <2> HIDE DEF M, L
  <2> QED BY <2>1, <2>2, <2>3
<1>4. /\ DOMAIN v = 1..N + Len(x \o r)
      /\ \A n \in 1..N : v[n] = u[n]
      /\ \A k \in 1..Len(x \o r) : v[N + k] = (x \o r)[k]
  <2> HIDE DEF N
  <2> QED BY <1>1, TailsAt DEF N
<1>5. v # <<>> /\ v[1].role = "user"
  <2>1. v # <<>> /\ v[1] = u[1]
    BY <1>0, <1>1, FirstKept
  <2>2. w[1] = u[1]
    BY <1>0, FirstKept
  <2> QED BY <2>1, <2>2 DEF Sound
<1>6. a = "anthropic" => M = 0
  <2>1. Len(<<>>) = 0
    OBVIOUS
  <2> QED BY <2>1
<1> HIDE DEF w, v, N, M, L
<1>7. \A n \in 1..N : e[n] = n /\ n \in DOMAIN v /\ v[n] = w[n]
  BY <1>2, <1>3, <1>4
<1>8. \A k \in 1..L : e[N + k] = N + (M + k) /\ N + (M + k) \in DOMAIN v /\ v[N + (M + k)] = r[k]
  <2> TAKE k \in 1..L
  <2>1. M + k \in 1..Len(x \o r) /\ N + k \in DOMAIN w /\ ~(N + k <= N) /\ M + (N + k) = N + (M + k)
    BY <1>2, <1>3
  <2>2. N + (M + k) \in DOMAIN v
    BY <1>2, <1>3, <1>4
  <2>3. v[N + (M + k)] = r[k]
    BY <1>3, <1>4, <2>1
  <2>4. e[N + k] = N + (M + k)
    BY <2>1
  <2> QED BY <2>2, <2>3, <2>4
<1>9. \A n \in DOMAIN w : n \in 1..N \/ \E k \in 1..L : n = N + k
  <2> TAKE n \in DOMAIN w
  <2>1. n \in 1..N \/ (n - N \in 1..L /\ n = N + (n - N))
    BY <1>2
  <2> QED BY <2>1
<1>10. DOMAIN e = DOMAIN w
  OBVIOUS
<1>11. \A m, n \in DOMAIN w : m < n => e[m] < e[n]
  BY <1>2, <1>3
<1>12. \A n \in DOMAIN w : e[n] \in DOMAIN v
  <2> TAKE n \in DOMAIN w
  <2>1. CASE n \in 1..N
    BY <1>7, <2>1
  <2>2. ASSUME NEW k \in 1..L, n = N + k
        PROVE  e[n] \in DOMAIN v
    BY <1>8, <2>2
  <2> QED BY <1>9, <2>1, <2>2
<1>e. e \in [DOMAIN w -> DOMAIN v]
  BY <1>12
<1>13. a = "anthropic" => \A n \in DOMAIN w : e[n] = n
  BY <1>2, <1>6
<1> HIDE DEF e
<1>14. \A k \in 1..L : r[k].role = d[k].role /\ r[k].part.type = d[k].part.type /\ r[k].part.of = d[k].part.of
  <2> TAKE k \in 1..L
  <2>1. <<r[k], d[k]>> \in Alike
    BY <1>2 DEF Pairwise
  <2> QED BY <2>1 DEF Alike
<1>15. \A n \in DOMAIN w : /\ v[e[n]].role = w[n].role /\ v[e[n]].part.type = w[n].part.type
                           /\ v[e[n]].part.of = w[n].part.of
  <2> TAKE n \in DOMAIN w
  <2>1. CASE n \in 1..N
    BY <1>7, <2>1
  <2>2. ASSUME NEW k \in 1..L, n = N + k
        PROVE  /\ v[e[n]].role = w[n].role /\ v[e[n]].part.type = w[n].part.type
               /\ v[e[n]].part.of = w[n].part.of
    <3>1. v[e[n]] = r[k] /\ w[n] = d[k]
      BY <1>2, <1>8, <2>2
    <3> QED BY <1>14, <3>1
  <2> QED BY <1>9, <2>1, <2>2
<1>16. ASSUME NEW k \in OfKind(v, "use") \cup OfKind(v, "result")
       PROVE  \E n \in DOMAIN w : e[n] = k
  <2>1. k \in DOMAIN v /\ v[k].part.type \in {"use", "result"}
    BY DEF OfKind
  <2>0. k \in 1..N + (M + L) /\ DOMAIN v = 1..N + (M + L) /\ N \in Nat /\ M \in Nat /\ L \in Nat
    BY <1>2, <1>3, <1>4, <2>1
  <2>2. CASE k \in 1..N
    <3>1. k \in DOMAIN w
      BY <1>2, <2>2
    <3> QED BY <1>7, <2>2, <3>1
  <2>3. CASE k - N \in 1..M
    <3>0. k - N \in 1..M + L /\ k = N + (k - N)
      BY <2>0, <2>3
    <3>1. k - N \in 1..Len(x \o r) /\ k = N + (k - N)
      BY <1>3, <3>0
    <3>2. v[k] = x[k - N]
      BY <1>3, <1>4, <2>3, <3>1
    <3> QED BY <1>3, <2>1, <2>3, <3>2 DEF Plain
  <2>4. CASE k \notin 1..N /\ k - N \notin 1..M
    <3> DEFINE l == (k - N) - M
    <3>0. l \in 1..L /\ k = N + (M + l) /\ N + l \in 1..N + L
      BY <2>0, <2>4
    <3>1. l \in 1..L /\ k = N + (M + l) /\ N + l \in DOMAIN w
      BY <1>2, <3>0
    <3> HIDE DEF l
    <3>2. e[N + l] = k
      BY <1>8, <3>1
    <3> QED BY <3>1, <3>2
  <2> QED BY <2>2, <2>3, <2>4
<1>17. Embeds(a, e, w, v)
  BY <1>e, <1>11, <1>13, <1>15, <1>16 DEF Embeds
<1>18. Sound(a, w, S)
  BY DEF w
<1> QED BY <1>1, <1>5, <1>17, <1>18, SoundEmbedded DEF w, v

(***************************************************************************)
(* A list of messages, as a provider of kind a reads it.                   *)
(***************************************************************************)
ViewIn(a) == IF a = "anthropic" THEN WiredIn ELSE ItemizedIn
View(a, ms) == Flat(ms, ViewIn(a))

LEMMA ViewMade ==
  ASSUME NEW a
  PROVE  /\ ViewIn(a) \in [Message -> Seq(WireItem)]
         /\ View(a, <<>>) = <<>>
         /\ \A s \in Seq(Message) : View(a, s) \in Seq(WireItem)
         /\ \A s, u \in Seq(Message) : View(a, s \o u) = View(a, s) \o View(a, u)
         /\ \A m \in Message : View(a, <<m>>) = ViewIn(a)[m]
<1>1. ViewIn(a) \in [Message -> Seq(WireItem)]
  BY WiredType DEF ViewIn
<1>2. /\ Flat(<<>>, ViewIn(a)) = <<>>
      /\ \A s \in Seq(Message) : Flat(s, ViewIn(a)) \in Seq(WireItem)
  BY <1>1, FlatMade
<1>3. \A s, u \in Seq(Message) : Flat(s \o u, ViewIn(a)) = Flat(s, ViewIn(a)) \o Flat(u, ViewIn(a))
  <2>1. Joins(Message, ViewIn(a))
    BY <1>1, FlatJoin
  <2> QED BY <2>1 DEF Joins
<1>4. \A m \in Message : Flat(<<m>>, ViewIn(a)) = ViewIn(a)[m]
  BY <1>1, FlatSingle
<1> QED BY <1>1, <1>2, <1>3, <1>4 DEF View

\* What the user says is a text.
Texts(ps) == \A i \in DOMAIN ps : ps[i].type = "text"

LEMMA SpokenUser ==
  ASSUME NEW ps \in Seq(UPart)
  PROVE  /\ Spoken("user", ps) \in Seq(WireItem) /\ Len(Spoken("user", ps)) = Len(ps)
         /\ DOMAIN Spoken("user", ps) = DOMAIN ps
         /\ \A k \in DOMAIN ps : /\ Spoken("user", ps)[k].role = "user"
                                 /\ Spoken("user", ps)[k].part = ps[k]
         /\ Texts(ps) => Plain(Spoken("user", ps))
<1>1. DOMAIN ps = 1..Len(ps) /\ Len(ps) \in Nat /\ \A k \in DOMAIN ps : ps[k] \in UPart
  OBVIOUS
<1>2. \A k \in DOMAIN ps : [role |-> "user", part |-> ps[k]] \in WireItem
  BY <1>1 DEF WireItem
<1>3. Spoken("user", ps) \in [1..Len(ps) -> WireItem]
  BY <1>1, <1>2 DEF Spoken
<1>4. Spoken("user", ps) \in Seq(WireItem) /\ Len(Spoken("user", ps)) = Len(ps)
  BY <1>1, <1>3, SeqDef
<1>5. DOMAIN Spoken("user", ps) = DOMAIN ps /\ \A k \in DOMAIN ps : Spoken("user", ps)[k] = [role |-> "user", part |-> ps[k]]
  BY DEF Spoken
<1>6. \A k \in DOMAIN ps : Spoken("user", ps)[k].role = "user" /\ Spoken("user", ps)[k].part = ps[k]
  <2> TAKE k \in DOMAIN ps
  <2>1. Spoken("user", ps)[k] = [role |-> "user", part |-> ps[k]]
    BY <1>5
  <2> QED BY <2>1
<1> DEFINE x == Spoken("user", ps)
<1>7. DOMAIN x = DOMAIN ps /\ \A k \in DOMAIN ps : x[k].part = ps[k]
  BY <1>5, <1>6
<1>8. Texts(ps) => Plain(x)
  <2> HIDE DEF x
  <2> QED BY <1>7 DEF Texts, Plain
<1> QED BY <1>4, <1>5, <1>6, <1>8

\* A message of results, with what else is said in it.
LEMMA UserSpoken ==
  ASSUME NEW a, NEW rs \in Seq(UserPart({"result"})), NEW ts \in Seq(UserPart({"text"}))
  PROVE  /\ Msg("user", rs \o ts) \in Message
         /\ ViewIn(a)[Msg("user", rs \o ts)] =
              IF a = "anthropic" THEN Spoken("user", rs) \o Spoken("user", ts)
              ELSE Spoken("user", ts) \o Spoken("user", rs)
<1> DEFINE R == UserPart({"result"})
           T == UserPart({"text"})
           ps == rs \o ts
           m == Msg("user", ps)
<1>1. R \subseteq UPart /\ T \subseteq UPart /\ R \cap T = {}
  BY DEF UPart, UserPart
<1> HIDE DEF R, T
<1>2. rs \in Seq(UPart) /\ ts \in Seq(UPart) /\ rs \in Seq(R) /\ ts \in Seq(T)
  <2>1. rs \in Seq(R) /\ ts \in Seq(T)
    BY DEF R, T
  <2> QED BY <1>1, <2>1, SeqMonotonic
<1>3. ps \in Seq(UPart)
  BY <1>2, ConcatProperties
<1>4. m \in Message /\ m.role = "user" /\ m.parts = ps
  <2> HIDE DEF ps
  <2> QED BY <1>3, MsgType DEF Msg
<1>5. \A S : Among(rs \o ts, S) = Among(rs, S) \o Among(ts, S)
  <2> TAKE S
  <2>1. \A s, t \in Seq(UPart) : Among(s \o t, S) = Among(s, S) \o Among(t, S)
    BY AmongJoin
  <2> QED BY <1>2, <2>1
<1>6. /\ \A s \in Seq(R) : Among(s, R) = s
      /\ \A s \in Seq(R) : Among(s, T) = <<>>
  <2>1. R \cap T = {} /\ R \subseteq R
    BY <1>1
  <2> QED BY <2>1, AmongAll
<1>7. /\ \A s \in Seq(T) : Among(s, T) = s
      /\ \A s \in Seq(T) : Among(s, R) = <<>>
  <2>1. T \cap R = {} /\ T \subseteq T
    BY <1>1
  <2> QED BY <2>1, AmongAll
<1>8. Among(ps, R) = rs /\ Among(ps, T) = ts
  <2>1. Among(ps, R) = rs \o <<>>
    BY <1>2, <1>5, <1>6, <1>7
  <2>2. Among(ps, T) = <<>> \o ts
    BY <1>2, <1>5, <1>6, <1>7
  <2> QED BY <1>2, <2>1, <2>2, ConcatEmptySeq
<1> HIDE DEF ps
<1>9. ToBlocks(m) = rs \o ts /\ ToItems(m) = Msg("user", ts \o rs)
  <2> HIDE DEF m
  <2>1. m.role = "user" => ToBlocks(m) = Among(m.parts, R) \o Among(m.parts, T)
    BY DEF ToBlocks, R, T
  <2>2. m.role = "user" => ToItems(m) = Msg(m.role, Among(m.parts, T) \o Among(m.parts, R))
    BY DEF ToItems, R, T
  <2> QED BY <1>4, <1>8, <2>1, <2>2
<1>10. ASSUME NEW us \in Seq(UPart)
       PROVE  LinesIn[Msg("user", us)] = Spoken("user", us)
  <2>1. Msg("user", us) \in Message /\ Msg("user", us).role = "user" /\ Msg("user", us).parts = us
    BY MsgType DEF Msg
  <2> QED BY <2>1 DEF LinesIn, Spoken
<1>11. ts \o rs \in Seq(UPart) /\ rs \o ts \in Seq(UPart)
  BY <1>2, ConcatProperties
<1>12. LinesIn[Msg("user", rs \o ts)] = Spoken("user", rs \o ts) /\ LinesIn[Msg("user", ts \o rs)] = Spoken("user", ts \o rs)
  BY <1>10, <1>11
<1>13. WiredIn[m] = LinesIn[Msg(m.role, ToBlocks(m))] /\ ItemizedIn[m] = LinesIn[ToItems(m)]
  <2> HIDE DEF m
  <2> QED BY <1>4 DEF WiredIn, ItemizedIn
<1>14. WiredIn[m] = Spoken("user", rs \o ts) /\ ItemizedIn[m] = Spoken("user", ts \o rs)
  BY <1>4, <1>9, <1>12, <1>13
<1>15. /\ Spoken("user", rs \o ts) = Spoken("user", rs) \o Spoken("user", ts)
       /\ Spoken("user", ts \o rs) = Spoken("user", ts) \o Spoken("user", rs)
  BY <1>2, SpokenJoin
<1>16. ViewIn(a)[m] = IF a = "anthropic" THEN Spoken("user", rs) \o Spoken("user", ts)
                      ELSE Spoken("user", ts) \o Spoken("user", rs)
  BY <1>14, <1>15 DEF ViewIn
<1> QED BY <1>4, <1>16 DEF m, ps

\* Pruning leaves every part where it is, with its type and its id.
SamePart == {q \in UPart \X UPart : q[1].type = q[2].type /\ q[1].of = q[2].of}

LEMMA MentionedSame ==
  ASSUME NEW p \in UPart
  PROVE  /\ Mentioned(p) \in UPart /\ <<Mentioned(p), p>> \in SamePart
         /\ \A t \in {"text", "result"} : Mentioned(p) \in UserPart({t}) <=> p \in UserPart({t})
<1>1. /\ p.type \in {"text", "result"} /\ p.of \in Seq(Nat) /\ p.body \in {"said", "asset", "omitted"}
      /\ p = [type |-> p.type, of |-> p.of, body |-> p.body]
  BY DEF UPart, UserPart
<1>2. /\ Mentioned(p).type = p.type /\ Mentioned(p).of = p.of /\ Mentioned(p).body \in {"said", "asset", "omitted"}
      /\ Mentioned(p) = [type |-> Mentioned(p).type, of |-> Mentioned(p).of, body |-> Mentioned(p).body]
  BY <1>1 DEF Mentioned, Part
<1>3. Mentioned(p) \in UPart
  BY <1>1, <1>2 DEF UPart, UserPart
<1>4. \A t : Mentioned(p) \in UserPart({t}) <=> p \in UserPart({t})
  BY <1>1, <1>2 DEF UserPart
<1> QED BY <1>2, <1>3, <1>4 DEF SamePart

LEMMA AmongMentioned ==
  ASSUME NEW ps \in Seq(UPart), NEW t \in {"text", "result"}
  PROVE  LET qs == [j \in DOMAIN ps |-> Mentioned(ps[j])] IN
         qs \in Seq(UPart) /\ Pairwise(Among(qs, UserPart({t})), Among(ps, UserPart({t})), SamePart)
<1> DEFINE qs == [j \in DOMAIN ps |-> Mentioned(ps[j])]
           S == UserPart({t})
           f == Only(UPart, S)
<1>1. DOMAIN ps = 1..Len(ps) /\ Len(ps) \in Nat /\ \A j \in DOMAIN ps : ps[j] \in UPart
  OBVIOUS
<1>2. qs \in [1..Len(ps) -> UPart]
  BY <1>1, MentionedSame
<1>3. qs \in Seq(UPart) /\ Len(qs) = Len(ps) /\ DOMAIN qs = DOMAIN ps
  BY <1>1, <1>2, SeqDef
<1>4. \A j \in DOMAIN ps : qs[j] = Mentioned(ps[j])
  OBVIOUS
<1> HIDE DEF qs, S
<1>5. f \in [UPart -> Seq(UPart \cap S)] /\ \A s \in Seq(UPart) : Among(s, S) = Flat(s, f)
  BY AmongIsFlat
<1>6. \A p \in UPart : f[p] = IF p \in S THEN <<p>> ELSE <<>>
  BY DEF Only
<1> HIDE DEF f
<1>7. ASSUME NEW j \in DOMAIN ps
      PROVE  Len(f[qs[j]]) = Len(f[ps[j]]) /\ \A k \in DOMAIN f[qs[j]] : <<f[qs[j]][k], f[ps[j]][k]>> \in SamePart
  <2>0. ps[j] \in UPart /\ qs[j] = Mentioned(ps[j])
    BY <1>1, <1>4
  <2>1. ps[j] \in UPart /\ qs[j] \in UPart /\ <<qs[j], ps[j]>> \in SamePart /\ (qs[j] \in S <=> ps[j] \in S)
    BY <2>0, MentionedSame, ZenonT(30) DEF S
  <2>2. CASE ps[j] \in S
    <3>1. f[qs[j]] = <<qs[j]>> /\ f[ps[j]] = <<ps[j]>>
      BY <1>6, <2>1, <2>2
    <3>2. \A x, y : Len(<<x>>) = Len(<<y>>) /\ \A k \in DOMAIN <<x>> : <<x>>[k] = x /\ <<y>>[k] = y
      OBVIOUS
    <3> QED BY <2>1, <3>1, <3>2
  <2>3. CASE ps[j] \notin S
    <3>1. f[qs[j]] = <<>> /\ f[ps[j]] = <<>>
      BY <1>6, <2>1, <2>3
    <3>2. \A x : DOMAIN <<>> = {}
      OBVIOUS
    <3> QED BY <3>1, <3>2
  <2> QED BY <2>2, <2>3
<1>8. /\ Len(Flat(qs, f)) = Len(Flat(ps, f))
      /\ \A k \in DOMAIN Flat(qs, f) : <<Flat(qs, f)[k], Flat(ps, f)[k]>> \in SamePart
  <2>1. \A s \in Seq(UPart), s2 \in Seq(UPart) :
          /\ Len(s) = Len(s2)
          /\ \A i \in DOMAIN s : /\ Len(f[s[i]]) = Len(f[s2[i]])
                                 /\ \A j \in DOMAIN f[s[i]] : <<f[s[i]][j], f[s2[i]][j]>> \in SamePart
          => /\ Len(Flat(s, f)) = Len(Flat(s2, f))
             /\ \A k \in DOMAIN Flat(s, f) : <<Flat(s, f)[k], Flat(s2, f)[k]>> \in SamePart
    BY <1>5, FlatPaired
  <2> QED BY <1>3, <1>7, <2>1
<1>9. Among(qs, S) \in Seq(UPart \cap S) /\ Among(ps, S) \in Seq(UPart \cap S)
  BY <1>3, AmongIsFlat
<1>10. /\ Len(Among(qs, S)) = Len(Among(ps, S))
       /\ \A k \in DOMAIN Among(qs, S) : <<Among(qs, S)[k], Among(ps, S)[k]>> \in SamePart
  BY <1>3, <1>5, <1>8
<1>11. DOMAIN Among(qs, S) = DOMAIN Among(ps, S)
  BY <1>9, <1>10
<1>12. Pairwise(Among(qs, S), Among(ps, S), SamePart)
  BY <1>10, <1>11 DEF Pairwise
<1> QED BY <1>3, <1>12 DEF qs, S

LEMMA SpokenAlike ==
  ASSUME NEW ps \in Seq(UPart), NEW qs \in Seq(UPart), Pairwise(qs, ps, SamePart)
  PROVE  Pairwise(Spoken("user", qs), Spoken("user", ps), Alike)
<1>1. Len(qs) = Len(ps) /\ DOMAIN qs = DOMAIN ps /\ \A k \in DOMAIN ps : <<qs[k], ps[k]>> \in SamePart
  BY DEF Pairwise
<1> DEFINE x == Spoken("user", qs)
           y == Spoken("user", ps)
<1>2. /\ x \in Seq(WireItem) /\ Len(x) = Len(qs) /\ DOMAIN x = DOMAIN qs
      /\ \A k \in DOMAIN qs : x[k].role = "user" /\ x[k].part = qs[k]
  BY SpokenUser
<1>3. /\ y \in Seq(WireItem) /\ Len(y) = Len(ps) /\ DOMAIN y = DOMAIN ps
      /\ \A k \in DOMAIN ps : y[k].role = "user" /\ y[k].part = ps[k]
  BY SpokenUser
<1> HIDE DEF x, y
<1>4. \A k \in DOMAIN ps : <<x[k], y[k]>> \in Alike
  <2> TAKE k \in DOMAIN ps
  <2>1. qs[k].type = ps[k].type /\ qs[k].of = ps[k].of
    BY <1>1 DEF SamePart
  <2>2. x[k] \in WireItem /\ y[k] \in WireItem
    BY <1>1, <1>2, <1>3
  <2> QED BY <1>1, <1>2, <1>3, <2>1, <2>2 DEF Alike
<1>5. Pairwise(x, y, Alike)
  BY <1>1, <1>2, <1>3, <1>4 DEF Pairwise
<1> QED BY <1>5 DEF x, y

LEMMA WiredUser ==
  ASSUME NEW ps \in Seq(UPart)
  PROVE  LET bs == Among(ps, UserPart({"result"})) \o Among(ps, UserPart({"text"})) IN
         bs \in Seq(UPart) /\ WiredIn[Msg("user", ps)] = Spoken("user", bs)
<1> DEFINE m == Msg("user", ps)
           bs == Among(ps, UserPart({"result"})) \o Among(ps, UserPart({"text"}))
<1>1. m \in Message /\ m.role = "user" /\ m.parts = ps
  BY MsgType DEF Msg
<1>2. bs \in Seq(UPart)
  BY SelectedParts, ConcatProperties
<1>3. ToBlocks(m) = bs
  <2> HIDE DEF m
  <2> QED BY <1>1 DEF ToBlocks
<1> HIDE DEF bs
<1>4. Msg("user", bs) \in Message /\ Msg("user", bs).role = "user" /\ Msg("user", bs).parts = bs
  BY <1>2, MsgType DEF Msg
<1>5. LinesIn[Msg("user", bs)] = Spoken("user", bs)
  BY <1>4 DEF LinesIn, Spoken
<1>6. WiredIn[m] = LinesIn[Msg(m.role, ToBlocks(m))]
  <2> HIDE DEF m
  <2> QED BY <1>1 DEF WiredIn
<1>7. WiredIn[m] = Spoken("user", bs)
  BY <1>1, <1>3, <1>5, <1>6
<1> QED BY <1>2, <1>7 DEF bs

LEMMA PrunedMessage ==
  ASSUME NEW ms \in Seq(Message), NEW i \in DOMAIN ms
  PROVE  Pairwise(WiredIn[Pruned(ms)[i]], WiredIn[ms[i]], Alike)
<1> DEFINE m == ms[i]
<1>1. m \in Message /\ Pruned(ms)[i] = Msg(m.role, [j \in DOMAIN m.parts |-> Mentioned(m.parts[j])])
  BY DEF Pruned
<1>2. (Pruned(ms)[i].role = "user" /\ m.role = "user") \/ Pruned(ms)[i] = m
  BY PrunedType
<1> HIDE DEF m
<1>3. CASE m.role = "user"
  <2> DEFINE ps == m.parts
             qs == [j \in DOMAIN ps |-> Mentioned(ps[j])]
             R == UserPart({"result"})
             T == UserPart({"text"})
  <2>1. ps \in Seq(UPart) /\ m = Msg("user", ps)
    <3>1. ps \in Seq(UPart)
      BY <1>1, <1>3, MessageParts
    <3> QED BY <1>1, <1>3, <3>1 DEF Message, Msg
  <2> HIDE DEF ps
  <2>2. qs \in Seq(UPart) /\ Pairwise(Among(qs, R), Among(ps, R), SamePart) /\ Pairwise(Among(qs, T), Among(ps, T), SamePart)
    BY <2>1, AmongMentioned
  <2>3. Pruned(ms)[i] = Msg("user", qs)
    BY <1>1, <1>3 DEF ps
  <2> HIDE DEF qs
  <2>4. WiredIn[Msg("user", qs)] = Spoken("user", Among(qs, R) \o Among(qs, T)) /\ Among(qs, R) \o Among(qs, T) \in Seq(UPart)
    BY <2>2, WiredUser
  <2>5. WiredIn[Msg("user", ps)] = Spoken("user", Among(ps, R) \o Among(ps, T)) /\ Among(ps, R) \o Among(ps, T) \in Seq(UPart)
    BY <2>1, WiredUser
  <2> HIDE DEF R, T
  <2>6. /\ Among(qs, R) \in Seq(UPart) /\ Among(ps, R) \in Seq(UPart)
        /\ Among(qs, T) \in Seq(UPart) /\ Among(ps, T) \in Seq(UPart)
    BY <2>1, <2>2, SelectedParts
  <2>7. Pairwise(Among(qs, R) \o Among(qs, T), Among(ps, R) \o Among(ps, T), SamePart)
    BY <2>2, <2>6, PairwiseJoin
  <2>8. Pairwise(Spoken("user", Among(qs, R) \o Among(qs, T)), Spoken("user", Among(ps, R) \o Among(ps, T)), Alike)
    BY <2>4, <2>5, <2>7, SpokenAlike
  <2>9. Pairwise(WiredIn[Pruned(ms)[i]], WiredIn[m], Alike)
    BY <2>1, <2>3, <2>4, <2>5, <2>8
  <2> QED BY <2>9 DEF m
<1>4. CASE m.role # "user"
  <2>1. Pruned(ms)[i] = m /\ WiredIn[m] \in Seq(WireItem)
    BY <1>1, <1>2, <1>4, WiredType
  <2>2. \A k \in DOMAIN WiredIn[m] : <<WiredIn[m][k], WiredIn[m][k]>> \in Alike
    BY <2>1 DEF Alike
  <2>3. Pairwise(WiredIn[Pruned(ms)[i]], WiredIn[m], Alike)
    BY <2>1, <2>2 DEF Pairwise
  <2> QED BY <2>3 DEF m
<1> QED BY <1>3, <1>4

\* A pruned history shows the same calls and results.
LEMMA PrunedAlike ==
  ASSUME NEW ms \in Seq(Message)
  PROVE  Pairwise(Flat(Pruned(ms), WiredIn), Flat(ms, WiredIn), Alike)
<1> DEFINE ns == Pruned(ms)
           f == WiredIn
<1>1. ns \in Seq(Message) /\ Len(ns) = Len(ms) /\ DOMAIN ns = DOMAIN ms
  BY PrunedType
<1>2. f \in [Message -> Seq(WireItem)]
  BY WiredType
<1>3. \A i \in DOMAIN ms : Pairwise(f[ns[i]], f[ms[i]], Alike)
  BY PrunedMessage
<1> HIDE DEF ns, f
<1>4. \A i \in DOMAIN ms : Len(f[ns[i]]) = Len(f[ms[i]]) /\ \A j \in DOMAIN f[ns[i]] : <<f[ns[i]][j], f[ms[i]][j]>> \in Alike
  <2> TAKE i \in DOMAIN ms
  <2>1. f[ns[i]] \in Seq(WireItem) /\ f[ms[i]] \in Seq(WireItem)
    BY <1>1, <1>2
  <2>2. Len(f[ns[i]]) = Len(f[ms[i]]) /\ \A j \in DOMAIN f[ms[i]] : <<f[ns[i]][j], f[ms[i]][j]>> \in Alike
    BY <1>3 DEF Pairwise
  <2>3. DOMAIN f[ns[i]] = DOMAIN f[ms[i]]
    BY <2>1, <2>2
  <2> QED BY <2>2, <2>3
<1>5. \A s \in Seq(Message), s2 \in Seq(Message) :
        /\ Len(s) = Len(s2)
        /\ \A i \in DOMAIN s : /\ Len(f[s[i]]) = Len(f[s2[i]])
                               /\ \A j \in DOMAIN f[s[i]] : <<f[s[i]][j], f[s2[i]][j]>> \in Alike
        => /\ Len(Flat(s, f)) = Len(Flat(s2, f))
           /\ \A k \in DOMAIN Flat(s, f) : <<Flat(s, f)[k], Flat(s2, f)[k]>> \in Alike
  BY <1>2, FlatPaired
<1>6. /\ Len(Flat(ns, f)) = Len(Flat(ms, f))
      /\ \A k \in DOMAIN Flat(ns, f) : <<Flat(ns, f)[k], Flat(ms, f)[k]>> \in Alike
  BY <1>1, <1>4, <1>5
<1>7. Flat(ns, f) \in Seq(WireItem) /\ Flat(ms, f) \in Seq(WireItem)
  BY <1>1, <1>2, FlatMade
<1>8. DOMAIN Flat(ns, f) = DOMAIN Flat(ms, f)
  BY <1>6, <1>7
<1>9. Pairwise(Flat(ns, f), Flat(ms, f), Alike)
  BY <1>6, <1>8 DEF Pairwise
<1> QED BY <1>9 DEF ns, f

LEMMA JoinedTwice ==
  ASSUME NEW u \in Seq(WireItem), NEW v \in Seq(WireItem), NEW w \in Seq(WireItem)
  PROVE  (u \o v) \o w = u \o (v \o w)
<1>1. \A S : \A a, b, c \in Seq(S) : (a \o b) \o c = a \o (b \o c)
  BY ConcatAssociative
<1> QED BY <1>1, SMTT(20)

\* What comes after results that were due: the message of the results, and perhaps more.
LEMMA ResultsSound ==
  ASSUME NEW a, NEW u \in Seq(WireItem), NEW d \in Seq(WireItem), NEW S, Sound(a, u \o d, S),
         \A k \in DOMAIN d : d[k].part.type = "result",
         NEW rs \in Seq(UserPart({"result"})), NEW ts \in Seq(UserPart({"text"})),
         Pairwise(Spoken("user", rs), d, Alike),
         NEW y \in Seq(WireItem), Plain(y)
  PROVE  Sound(a, u \o (ViewIn(a)[Msg("user", rs \o ts)] \o y), S)
<1> DEFINE r == Spoken("user", rs)
           t == Spoken("user", ts)
           v == ViewIn(a)[Msg("user", rs \o ts)]
<1>1. rs \in Seq(UPart) /\ ts \in Seq(UPart) /\ Texts(ts)
  <2>1. UserPart({"result"}) \subseteq UPart /\ UserPart({"text"}) \subseteq UPart
    BY DEF UPart, UserPart
  <2>2. \A p \in UserPart({"text"}) : p.type = "text"
    BY DEF UserPart
  <2>3. Texts(ts)
    BY <2>2 DEF Texts
  <2> QED BY <2>1, <2>3, SeqMonotonic
<1>2. r \in Seq(WireItem) /\ t \in Seq(WireItem) /\ Plain(t)
  BY <1>1, SpokenUser
<1>3. v = IF a = "anthropic" THEN r \o t ELSE t \o r
  BY UserSpoken
<1>4. Pairwise(r, d, Alike)
  OBVIOUS
<1> HIDE DEF r, t, v
<1>5. ASSUME a = "anthropic"
      PROVE  Sound(a, u \o v, S)
  <2>1. <<>> \in Seq(WireItem) /\ Plain(<<>>)
    BY DEF Plain
  <2>2. Sound(a, u \o (<<>> \o r), S)
    BY <1>2, <1>4, <2>1, SoundAnswered
  <2>3. <<>> \o r = r /\ u \o r \in Seq(WireItem)
    BY <1>2, ConcatEmptySeq, ConcatProperties
  <2>4. Sound(a, u \o r, S)
    BY <2>2, <2>3
  <2>5. Sound(a, (u \o r) \o t, S)
    BY <1>2, <2>3, <2>4, SoundExtended
  <2>6. (u \o r) \o t = u \o (r \o t)
    BY <1>2, JoinedTwice, ZenonT(30)
  <2> QED BY <1>3, <1>5, <2>5, <2>6
<1>6. ASSUME a # "anthropic"
      PROVE  Sound(a, u \o v, S)
  <2>1. Sound(a, u \o (t \o r), S)
    BY <1>2, <1>4, <1>6, SoundAnswered
  <2> QED BY <1>3, <1>6, <2>1
<1>7. v \in Seq(WireItem)
  <2>1. r \o t \in Seq(WireItem) /\ t \o r \in Seq(WireItem)
    BY <1>2, ConcatProperties
  <2> QED BY <1>3, <2>1
<1>8. u \o v \in Seq(WireItem) /\ (u \o v) \o y = u \o (v \o y)
  <2>1. (u \o v) \o y = u \o (v \o y)
    BY <1>7, JoinedTwice, ZenonT(30)
  <2> QED BY <1>7, <2>1, ConcatProperties
<1>9. Sound(a, u \o v, S)
  BY <1>5, <1>6
<1>10. Sound(a, (u \o v) \o y, S)
  BY <1>8, <1>9, SoundExtended
<1> QED BY <1>8, <1>10 DEF v

(***************************************************************************)
(* The conversation in every state: AnswersInv.  What the next request     *)
(* would show, from the history or from the handle, is a conversation the  *)
(* provider accepts once the results that are due follow it.  Between the  *)
(* end of an answer and the message of its results the request would be    *)
(* refused, so the invariant speaks of the results before they are there.  *)
(***************************************************************************)

\* The ids of the calls the tools ran, and the results of the turn that are still due.
Ran == {<<ran[k].id>> : k \in DOMAIN ran}
Due == IF point = "tools" THEN ResultsFor(accum.calls) ELSE <<>>

\* What the next request shows if it resumes, before the results that are due.
Resumed == IF api = "anthropic" THEN View(api, replay \o Delta) ELSE wire \o View(api, Delta)

\* The blocks that stream are of other ids than the calls that ran.
Fresh ==
  /\ \A k \in DOMAIN ran : ran[k].id <= spent.blocks
  /\ \A k \in DOMAIN ran, i \in DOMAIN streamed : streamed[i].id # ran[k].id

AnswersInv ==
  /\ Sound(api, View(api, talk) \o Due, Ran)
  /\ resumable /\ point # "stream" => Sound(api, Resumed \o Due, Ran)
  /\ point = "stream" => Sound(api, wire, Ran)
  /\ Fresh
  /\ resumable => seen <= Len(talk)

\* While an answer streams.
LEMMA AnswersStream ==
  ASSUME AnswersInv, point = "stream", Fresh',
         UNCHANGED <<api, point, talk, seen, resumable, wire, ran>>
  PROVE  AnswersInv'
<1>1. Due' = Due
  BY DEF Due
<1>2. View(api, talk)' = View(api, talk) /\ Ran' = Ran
  BY DEF View, ViewIn, Ran
<1>3. Sound(api, View(api, talk) \o Due, Ran)' <=> Sound(api, View(api, talk) \o Due, Ran)
  BY <1>1, <1>2 DEF Sound
<1>4. Sound(api, wire, Ran)' <=> Sound(api, wire, Ran)
  BY <1>2 DEF Sound
<1> QED BY <1>3, <1>4 DEF AnswersInv

\* An event changes no id.
LEMMA FreshKept ==
  ASSUME Fresh, UNCHANGED <<ran, spent>>, DOMAIN streamed' = DOMAIN streamed,
         \A j \in DOMAIN streamed : streamed'[j].id = streamed[j].id
  PROVE  Fresh'
BY DEF Fresh

LEMMA SameIds ==
  ASSUME NEW i \in DOMAIN streamed, WireTypes, NEW s, s.id = streamed[i].id, s \in Block,
         streamed' = [streamed EXCEPT ![i] = s]
  PROVE  DOMAIN streamed' = DOMAIN streamed /\ \A j \in DOMAIN streamed : streamed'[j].id = streamed[j].id
<1>1. streamed \in Seq(Block)
  BY DEF WireTypes
<1>2. /\ DOMAIN [streamed EXCEPT ![i] = s] = DOMAIN streamed
      /\ \A j \in DOMAIN streamed : [streamed EXCEPT ![i] = s][j] = IF j = i THEN s ELSE streamed[j]
  BY <1>1, Replaced
<1> QED BY <1>2

LEMMA AnswersEvent ==
  ASSUME WireInv, AnswersInv, NEW i \in DOMAIN streamed,
         \/ \E body \in {"said", "object", "broken"} : Fill(i, body)
         \/ Sign(i) \/ BlockStop(i) \/ CallDone(i)
  PROVE  AnswersInv'
<1>1. WireTypes /\ Fresh
  BY DEF WireInv, AnswersInv
<1>2. streamed[i] \in Block
  BY <1>1, AnswerTypes
<1>3. ASSUME NEW body \in {"said", "object", "broken"}, Fill(i, body)
      PROVE  AnswersInv'
  <2>1. /\ point = "stream" /\ UNCHANGED <<api, point, talk, seen, resumable, wire, ran, spent>>
        /\ body \in (IF streamed[i].type = "use" THEN {"object", "broken"} ELSE {"said"})
        /\ streamed' = [streamed EXCEPT ![i] = [streamed[i] EXCEPT !.body = body]]
    BY <1>3 DEF Fill
  <2>2. streamed[i].type = "use" => body # "said"
    BY <2>1
  <2>3. [streamed[i] EXCEPT !.body = body] \in Block /\ [streamed[i] EXCEPT !.body = body].id = streamed[i].id
    BY <1>2, <2>2, BlockFilled
  <2>4. Fresh'
    BY <1>1, <2>1, <2>3, SameIds, FreshKept
  <2> QED BY <2>1, <2>4, AnswersStream
<1>4. CASE Sign(i)
  <2>1. /\ point = "stream" /\ UNCHANGED <<api, point, talk, seen, resumable, wire, ran, spent>>
        /\ streamed' = [streamed EXCEPT ![i] = [streamed[i] EXCEPT !.signed = TRUE]]
    BY <1>4 DEF Sign
  <2>2. [streamed[i] EXCEPT !.signed = TRUE] \in Block /\ [streamed[i] EXCEPT !.signed = TRUE].id = streamed[i].id
    BY <1>2, BlockSigned
  <2>3. Fresh'
    BY <1>1, <2>1, <2>2, SameIds, FreshKept
  <2> QED BY <2>1, <2>3, AnswersStream
<1>5. CASE BlockStop(i)
  <2>1. /\ point = "stream" /\ UNCHANGED <<api, point, talk, seen, resumable, wire, ran, spent>>
        /\ streamed' = [streamed EXCEPT ![i] = [streamed[i] EXCEPT !.ended = 1]]
    BY <1>5 DEF BlockStop
  <2>2. [streamed[i] EXCEPT !.ended = 1] \in Block /\ [streamed[i] EXCEPT !.ended = 1].id = streamed[i].id
    <3>1. 1 \in 0..2
      OBVIOUS
    <3> QED BY <1>2, <3>1, BlockEnded
  <2>3. Fresh'
    BY <1>1, <2>1, <2>2, SameIds, FreshKept
  <2> QED BY <2>1, <2>3, AnswersStream
<1>6. CASE CallDone(i)
  <2> DEFINE n == streamed[i].ended + 1
             s == [streamed[i] EXCEPT !.ended = n]
  <2>1. /\ point = "stream" /\ UNCHANGED <<api, point, talk, seen, resumable, wire, ran, spent>>
        /\ streamed[i].ended < 2 /\ streamed' = [streamed EXCEPT ![i] = s]
    BY <1>6 DEF CallDone
  <2>2. n \in 0..2
    BY <1>2, <2>1, BlockFields
  <2> HIDE DEF n
  <2>3. s \in Block /\ s.id = streamed[i].id
    BY <1>2, <2>2, BlockEnded
  <2> HIDE DEF s
  <2>4. Fresh'
    BY <1>1, <2>1, <2>3, SameIds, FreshKept
  <2> QED BY <2>1, <2>4, AnswersStream
<1> QED BY <1>3, <1>4, <1>5, <1>6

LEMMA AnswersBegin ==
  ASSUME WireInv, AnswersInv, NEW type \in Kinds, Begin(type)
  PROVE  AnswersInv'
<1> DEFINE b == [id |-> spent.blocks + 1, type |-> type, body |-> "empty", signed |-> FALSE, ended |-> 0]
<1>1. /\ point = "stream" /\ UNCHANGED <<api, point, talk, seen, resumable, wire, ran>>
      /\ streamed' = Append(streamed, b) /\ spent' = [spent EXCEPT !.blocks = spent.blocks + 1]
  BY DEF Begin
<1>2. /\ streamed \in Seq(Block) /\ ran \in Seq(Execution)
      /\ spent \in [requests : Nat, blocks : Nat, breaks : Nat]
      /\ \A k \in DOMAIN ran : ran[k].id <= spent.blocks
      /\ \A k \in DOMAIN ran, i \in DOMAIN streamed : streamed[i].id # ran[k].id
  BY DEF WireInv, WireTypes, AnswersInv, Fresh
<1>3. b.id = spent.blocks + 1
  OBVIOUS
<1> HIDE DEF b
<1>4. spent'.blocks = spent.blocks + 1 /\ spent.blocks \in Nat
  BY <1>1, <1>2
<1>5. \A k \in DOMAIN ran : ran[k].id \in Nat
  <2>1. \A k \in DOMAIN ran : ran[k] \in Execution
    BY <1>2
  <2> QED BY <2>1 DEF Execution
<1>6. \A i \in DOMAIN streamed' : (i \in DOMAIN streamed /\ streamed'[i] = streamed[i]) \/ streamed'[i] = b
  BY <1>1, <1>2
<1>7. ASSUME NEW k \in DOMAIN ran, NEW i \in DOMAIN streamed'
      PROVE  streamed'[i].id # ran[k].id
  <2>1. b.id # ran[k].id
    BY <1>2, <1>3, <1>4, <1>5
  <2> QED BY <1>2, <1>6, <2>1
<1>8. \A k \in DOMAIN ran : ran[k].id <= spent'.blocks
  BY <1>2, <1>4, <1>5
<1>9. Fresh'
  BY <1>1, <1>7, <1>8 DEF Fresh
<1> QED BY <1>1, <1>9, AnswersStream

\* A break leaves the history and the handle as they were.
LEMMA AnswersBreak ==
  ASSUME AnswersInv, Break
  PROVE  AnswersInv'
<1>1. /\ point = "stream" /\ UNCHANGED <<api, point, talk, seen, resumable, wire, ran>> /\ streamed' = <<>>
      /\ spent' = IF accum = NoTurn THEN spent ELSE [spent EXCEPT !.breaks = spent.breaks + 1]
  BY DEF Break
<1>2. spent'.blocks = spent.blocks
  BY <1>1
<1>3. Fresh'
  BY <1>1, <1>2 DEF AnswersInv, Fresh
<1> QED BY <1>1, <1>3, AnswersStream

\* A fallback drops the handle: the next request is built from the history.
LEMMA AnswersFallback ==
  ASSUME WireTypes, AnswersInv, Fallback
  PROVE  AnswersInv'
<1>1. /\ point = "stream" /\ point' = "request" /\ ~resumable' /\ streamed' = <<>>
      /\ UNCHANGED <<api, talk, ran, spent>>
  BY DEF Fallback
<1>2. Due = <<>> /\ Due' = <<>>
  BY <1>1 DEF Due
<1>3. View(api, talk)' = View(api, talk) /\ Ran' = Ran
  BY <1>1 DEF View, ViewIn, Ran
<1>4. Sound(api, View(api, talk) \o Due, Ran)' <=> Sound(api, View(api, talk) \o Due, Ran)
  BY <1>1, <1>2, <1>3 DEF Sound
<1>5. Fresh'
  BY <1>1 DEF AnswersInv, Fresh
<1> QED BY <1>1, <1>4, <1>5 DEF AnswersInv

LEMMA MessagesJoined ==
  ASSUME NEW u \in Seq(Message), NEW v \in Seq(Message)
  PROVE  /\ u \o v \in Seq(Message) /\ Len(u \o v) = Len(u) + Len(v)
         /\ \A i \in 1..Len(u) : (u \o v)[i] = u[i]
         /\ \A i \in 1..Len(v) : (u \o v)[Len(u) + i] = v[i]
OBVIOUS

LEMMA MessagesTwice ==
  ASSUME NEW u \in Seq(Message), NEW v \in Seq(Message), NEW w \in Seq(Message)
  PROVE  (u \o v) \o w = u \o (v \o w)
BY ConcatAssociative

\* What is said after the handle comes after what the delta held.
LEMMA DeltaGrows ==
  ASSUME WireTypes, resumable, seen <= Len(talk), NEW more \in Seq(Message), talk' = talk \o more,
         UNCHANGED <<seen, resumable>>
  PROVE  Delta' = Delta \o more
<1> DEFINE N == Len(talk)
           M == Len(more)
           k == seen
<1>1. talk \in Seq(Message) /\ k \in Nat /\ N \in Nat /\ k <= N /\ M \in Nat
  BY SMTT(20) DEF WireTypes
<1>2. /\ DOMAIN talk = 1..N /\ talk \o more \in Seq(Message) /\ Len(talk \o more) = N + M
      /\ \A i \in 1..N : (talk \o more)[i] = talk[i]
      /\ \A i \in 1..M : (talk \o more)[N + i] = more[i]
      /\ \A i \in 1..N + M : (talk \o more)[i] \in Message
      /\ \A i \in 1..N : talk[i] \in Message
  BY <1>1
<1>3. Delta = SubSeq(talk, k + 1, N) /\ Delta' = SubSeq(talk \o more, k + 1, N + M)
  BY <1>2 DEF Delta
<1> HIDE DEF N, M, k
<1>4. /\ \A i \in k + 1..N : talk[i] \in Message
      /\ \A i \in k + 1..N + M : (talk \o more)[i] \in Message
  <2>1. (\A i \in k + 1..N : i \in 1..N) /\ \A i \in k + 1..N + M : i \in 1..N + M
    BY <1>1
  <2> QED BY <1>2, <2>1
<1>5. /\ Delta \in Seq(Message) /\ Len(Delta) = N - k
      /\ \A i \in 1..N - k : Delta[i] = talk[k + i]
  <2>1. /\ SubSeq(talk, k + 1, N) \in Seq(Message)
        /\ Len(SubSeq(talk, k + 1, N)) = IF k + 1 <= N THEN N - (k + 1) + 1 ELSE 0
        /\ \A i \in 1..N - (k + 1) + 1 : SubSeq(talk, k + 1, N)[i] = talk[(k + 1) + i - 1]
    BY <1>1, <1>4, SubSeqProperties
  <2>2. N - (k + 1) + 1 = N - k /\ (IF k + 1 <= N THEN N - (k + 1) + 1 ELSE 0) = N - k
        /\ \A i \in 1..N - k : (k + 1) + i - 1 = k + i
    BY <1>1
  <2> QED BY <1>3, <2>1, <2>2
<1>6. /\ Delta' \in Seq(Message) /\ Len(Delta') = (N + M) - k
      /\ \A i \in 1..(N + M) - k : Delta'[i] = (talk \o more)[k + i]
  <2>1. /\ SubSeq(talk \o more, k + 1, N + M) \in Seq(Message)
        /\ Len(SubSeq(talk \o more, k + 1, N + M)) = IF k + 1 <= N + M THEN (N + M) - (k + 1) + 1 ELSE 0
        /\ \A i \in 1..(N + M) - (k + 1) + 1 : SubSeq(talk \o more, k + 1, N + M)[i] = (talk \o more)[(k + 1) + i - 1]
    <3> DEFINE t == talk \o more
               e == N + M
               b == k + 1
    <3>0. b \in Int /\ e \in Int
      BY <1>1
    <3>1. \A i \in b..e : t[i] \in Message
      BY <1>4
    <3> HIDE DEF t, e, b
    <3>2. /\ SubSeq(t, b, e) \in Seq(Message)
          /\ Len(SubSeq(t, b, e)) = IF b <= e THEN e - b + 1 ELSE 0
          /\ \A i \in 1..e - b + 1 : SubSeq(t, b, e)[i] = t[b + i - 1]
      BY <3>0, <3>1, SubSeqProperties
    <3> QED BY <3>2 DEF t, e, b
  <2>2. (N + M) - (k + 1) + 1 = (N + M) - k /\ (IF k + 1 <= N + M THEN (N + M) - (k + 1) + 1 ELSE 0) = (N + M) - k
        /\ \A i \in 1..(N + M) - k : (k + 1) + i - 1 = k + i
    BY <1>1
  <2> QED BY <1>3, <2>1, <2>2
<1>7. /\ Delta \o more \in Seq(Message) /\ Len(Delta \o more) = (N - k) + M
      /\ \A i \in 1..N - k : (Delta \o more)[i] = Delta[i]
      /\ \A i \in 1..M : (Delta \o more)[(N - k) + i] = more[i]
  <2>1. /\ Delta \o more \in Seq(Message) /\ Len(Delta \o more) = Len(Delta) + Len(more)
        /\ \A i \in 1..Len(Delta) : (Delta \o more)[i] = Delta[i]
        /\ \A i \in 1..Len(more) : (Delta \o more)[Len(Delta) + i] = more[i]
    BY <1>5, MessagesJoined
  <2> QED BY <1>5, <2>1 DEF M
<1>8. \A i \in 1..(N + M) - k : Delta'[i] = (Delta \o more)[i]
  <2> TAKE i \in 1..(N + M) - k
  <2>1. CASE i \in 1..N - k
    <3>1. k + i \in 1..N
      BY <1>1, <2>1
    <3> QED BY <1>2, <1>5, <1>6, <1>7, <2>1, <3>1
  <2>2. CASE i \notin 1..N - k
    <3> DEFINE j == i - (N - k)
    <3>1. j \in 1..M /\ i = (N - k) + j /\ k + i = N + j
      BY <1>1, <2>2
    <3> HIDE DEF j
    <3> QED BY <1>2, <1>6, <1>7, <3>1
  <2> QED BY <2>1, <2>2
<1>9. Len(Delta') = Len(Delta \o more)
  BY <1>1, <1>6, <1>7
<1>10. 1..Len(Delta') = 1..(N + M) - k
  BY <1>6
<1> QED BY <1>6, <1>7, <1>8, <1>9, <1>10, SeqEqual

\* v is what the conversation goes on with, after the results that are due.
Replies(a, S, d, v) == \A u \in Seq(WireItem) : Sound(a, u \o d, S) => Sound(a, u \o v, S)

LEMMA AnswersSaid ==
  ASSUME WireTypes, AnswersInv, NEW more \in Seq(Message), talk' = talk \o more,
         point \in {"tools", "idle"}, point' = "request",
         Replies(api, Ran, Due, View(api, more)),
         UNCHANGED <<api, seen, replay, resumable, wire, streamed, ran, spent>>
  PROVE  AnswersInv'
<1>1. Due' = <<>>
  BY DEF Due
<1>2. Ran' = Ran /\ Fresh' /\ (resumable => seen <= Len(talk))
  BY DEF Ran, Fresh, AnswersInv
<1>3. /\ talk \in Seq(Message) /\ replay \in Seq(Message) /\ wire \in Seq(WireItem) /\ Delta \in Seq(Message)
      /\ seen \in Nat
  BY DeltaType DEF WireTypes
<1>4. /\ View(api, talk) \in Seq(WireItem) /\ View(api, more) \in Seq(WireItem) /\ View(api, Delta) \in Seq(WireItem)
      /\ View(api, talk \o more) = View(api, talk) \o View(api, more)
  BY <1>3, ViewMade
<1>5. View(api, talk)' = View(api, talk \o more)
  BY DEF View, ViewIn
<1>6. Sound(api, View(api, talk) \o View(api, more), Ran)
  BY <1>4 DEF AnswersInv, Replies
<1>7. \A u \in Seq(WireItem) : u \o <<>> = u
  BY ConcatEmptySeq
<1>8. Sound(api, View(api, talk) \o Due, Ran)'
  <2>1. View(api, talk) \o View(api, more) \in Seq(WireItem)
    BY <1>4, ConcatProperties
  <2>2. (View(api, talk) \o Due)' = View(api, talk) \o View(api, more)
    BY <1>1, <1>4, <1>5, <1>7, <2>1
  <2> QED BY <1>2, <1>6, <2>2 DEF Sound
<1>9. ASSUME resumable
      PROVE  Sound(api, Resumed \o Due, Ran)'
  <2>1. Delta' = Delta \o more
    BY <1>2, <1>9, DeltaGrows
  <2>2. Resumed \in Seq(WireItem) /\ Resumed' = Resumed \o View(api, more)
    <3>1. CASE api = "anthropic"
      <4>1. Resumed = View(api, replay \o Delta) /\ Resumed' = View(api, replay \o (Delta \o more))
        BY <2>1, <3>1 DEF Resumed, View, ViewIn
      <4>2. replay \o Delta \in Seq(Message)
        BY <1>3, ConcatProperties
      <4>3. (replay \o Delta) \o more = replay \o (Delta \o more)
        BY <1>3, MessagesTwice, SMTT(20)
      <4>4. View(api, (replay \o Delta) \o more) = View(api, replay \o Delta) \o View(api, more)
        BY <4>2, ViewMade
      <4>5. View(api, replay \o Delta) \in Seq(WireItem)
        BY <4>2, ViewMade
      <4> QED BY <4>1, <4>3, <4>4, <4>5
    <3>2. CASE api # "anthropic"
      <4>1. Resumed = wire \o View(api, Delta) /\ Resumed' = wire \o View(api, Delta \o more)
        BY <2>1, <3>2 DEF Resumed, View, ViewIn
      <4>2. View(api, Delta \o more) = View(api, Delta) \o View(api, more)
        BY <1>3, ViewMade
      <4>3. (wire \o View(api, Delta)) \o View(api, more) = wire \o (View(api, Delta) \o View(api, more))
        BY <1>3, <1>4, JoinedTwice
      <4>4. wire \o View(api, Delta) \in Seq(WireItem)
        BY <1>3, <1>4, ConcatProperties
      <4> QED BY <4>1, <4>2, <4>3, <4>4
    <3> QED BY <3>1, <3>2
  <2>3. Sound(api, Resumed \o View(api, more), Ran)
    <3>1. point # "stream"
      OBVIOUS
    <3> QED BY <1>9, <2>2, <3>1 DEF AnswersInv, Replies
  <2>4. Resumed \o View(api, more) \in Seq(WireItem)
    BY <1>4, <2>2, ConcatProperties
  <2>5. (Resumed \o Due)' = Resumed \o View(api, more)
    BY <1>1, <1>7, <2>2, <2>4
  <2> QED BY <1>2, <2>3, <2>5 DEF Sound
<1>10. resumable => seen <= Len(talk')
  BY <1>2, <1>3
<1> QED BY <1>2, <1>8, <1>9, <1>10 DEF AnswersInv

\* The text of a user, or of a repair, on either wire.
LEMMA SaidView ==
  ASSUME NEW a
  PROVE  LET said == <<Part("text", <<>>, "said")>> IN
         /\ said \in Seq(UserPart({"text"})) /\ Msg("user", said) \in Message
         /\ ViewIn(a)[Msg("user", said)] = Spoken("user", said)
         /\ Spoken("user", said) \in Seq(WireItem) /\ Plain(Spoken("user", said))
         /\ Spoken("user", said) # <<>> /\ Spoken("user", said)[1].role = "user"
<1> DEFINE p == Part("text", <<>>, "said")
           said == <<p>>
<1>1. p \in UserPart({"text"}) /\ p \in UPart /\ p.type = "text"
  BY DEF UserPart, UPart, Part
<1> HIDE DEF p
<1>2. said \in Seq(UserPart({"text"})) /\ said \in Seq(UPart) /\ Len(said) = 1 /\ DOMAIN said = 1..1 /\ said[1] = p
  <2>1. \A S : \A q \in S : <<q>> \in Seq(S)
    OBVIOUS
  <2>2. Len(<<p>>) = 1 /\ DOMAIN <<p>> = 1..1 /\ <<p>>[1] = p
    OBVIOUS
  <2> QED BY <1>1, <2>1, <2>2
<1> HIDE DEF said
<1>3. Texts(said)
  <2>1. \A i \in 1..1 : i = 1
    OBVIOUS
  <2> QED BY <1>1, <1>2, <2>1 DEF Texts
<1>4. /\ Spoken("user", said) \in Seq(WireItem) /\ Plain(Spoken("user", said))
      /\ Len(Spoken("user", said)) = 1 /\ Spoken("user", said)[1].role = "user"
  <2>1. 1 \in DOMAIN said
    BY <1>2
  <2> QED BY <1>2, <1>3, <2>1, SpokenUser
<1>5. Spoken("user", said) # <<>>
  <2>1. Len(<<>>) = 0
    OBVIOUS
  <2> QED BY <1>4, <2>1
<1>6. <<>> \in Seq(UserPart({"result"})) /\ <<>> \o said = said
  <2>1. <<>> \in Seq(UserPart({"result"}))
    OBVIOUS
  <2> QED BY <1>2, <2>1, ConcatEmptySeq
<1>7. Spoken("user", <<>>) = <<>>
  BY DEF Spoken
<1>8. ViewIn(a)[Msg("user", <<>> \o said)] =
        IF a = "anthropic" THEN Spoken("user", <<>>) \o Spoken("user", said)
        ELSE Spoken("user", said) \o Spoken("user", <<>>)
  BY <1>2, <1>6, UserSpoken
<1>9. ViewIn(a)[Msg("user", said)] = Spoken("user", said)
  BY <1>4, <1>6, <1>7, <1>8, ConcatEmptySeq
<1> QED BY <1>2, <1>4, <1>5, <1>9, MsgType DEF said, p

\* The user speaks, when no result is due.
LEMMA AnswersSay ==
  ASSUME WireTypes, AnswersInv, Say
  PROVE  AnswersInv'
<1> DEFINE m == Msg("user", <<Part("text", <<>>, "said")>>)
<1>1. /\ talk' = Append(talk, m) /\ point = "idle" /\ point' = "request"
      /\ UNCHANGED <<api, seen, replay, resumable, wire, streamed, ran, spent>>
  BY DEF Say
<1>2. m \in Message /\ ViewIn(api)[m] \in Seq(WireItem) /\ Plain(ViewIn(api)[m])
  BY SaidView
<1> HIDE DEF m
<1>3. talk \in Seq(Message) /\ <<m>> \in Seq(Message) /\ talk' = talk \o <<m>>
  <2>1. talk \in Seq(Message)
    BY DEF WireTypes
  <2>2. \A s \in Seq(Message), x \in Message : <<x>> \in Seq(Message) /\ Append(s, x) = s \o <<x>>
    OBVIOUS
  <2> QED BY <1>1, <1>2, <2>1, <2>2
<1>4. View(api, <<m>>) = ViewIn(api)[m] /\ Due = <<>>
  BY <1>1, <1>2, ViewMade DEF Due
<1>5. ASSUME NEW u \in Seq(WireItem), Sound(api, u \o <<>>, Ran)
      PROVE  Sound(api, u \o ViewIn(api)[m], Ran)
  <2>1. u \o <<>> = u
    BY ConcatEmptySeq
  <2>2. Sound(api, u, Ran)
    BY <1>5, <2>1
  <2> QED BY <1>2, <2>2, SoundExtended
<1>6. Replies(api, Ran, Due, View(api, <<m>>))
  BY <1>4, <1>5 DEF Replies
<1> QED BY <1>1, <1>3, <1>6, AnswersSaid

LEMMA ResultParts ==
  ASSUME NEW calls \in Seq(Call), NEW body \in {"said", "asset"}
  PROVE  LET rs == [i \in DOMAIN calls |-> Part("result", <<calls[i].id>>, body)] IN
         /\ rs \in Seq(UserPart({"result"}))
         /\ Pairwise(Spoken("user", rs), ResultsFor(calls), Alike)
<1> DEFINE rs == [i \in DOMAIN calls |-> Part("result", <<calls[i].id>>, body)]
           d == ResultsFor(calls)
           R == UserPart({"result"})
<1>1. DOMAIN calls = 1..Len(calls) /\ Len(calls) \in Nat /\ \A k \in DOMAIN calls : calls[k].id \in Nat
  <2>1. DOMAIN calls = 1..Len(calls) /\ Len(calls) \in Nat /\ \A k \in DOMAIN calls : calls[k] \in Call
    OBVIOUS
  <2> QED BY <2>1, GivenType
<1>2. \A n \in Nat : Part("result", <<n>>, body) \in R
  <2>1. \A n \in Nat : <<n>> \in Seq(Nat)
    OBVIOUS
  <2> QED BY <2>1 DEF UserPart, Part
<1>3. R \subseteq UPart
  BY DEF UserPart, UPart
<1> HIDE DEF R
<1>4. rs \in [1..Len(calls) -> R]
  BY <1>1, <1>2
<1>5. DOMAIN rs = DOMAIN calls /\ \A i \in DOMAIN calls : rs[i].type = "result" /\ rs[i].of = <<calls[i].id>>
  BY DEF Part
<1> HIDE DEF rs
<1>6. rs \in Seq(R) /\ Len(rs) = Len(calls)
  BY <1>1, <1>4, SeqDef
<1>7. rs \in Seq(UPart)
  BY <1>3, <1>6, SeqMonotonic
<1> DEFINE x == Spoken("user", rs)
<1>8. /\ x \in Seq(WireItem) /\ Len(x) = Len(rs) /\ DOMAIN x = DOMAIN rs
      /\ \A k \in DOMAIN rs : x[k].role = "user" /\ x[k].part = rs[k]
  BY <1>7, SpokenUser
<1>9. d \in Seq(WireItem) /\ Len(d) = Len(calls)
  BY ResultsForType
<1>10. DOMAIN d = DOMAIN calls /\ \A k \in DOMAIN calls : d[k].role = "user" /\ d[k].part.type = "result" /\ d[k].part.of = <<calls[k].id>>
  BY DEF ResultsFor, Part
<1> HIDE DEF x, d
<1>11. \A k \in DOMAIN d : <<x[k], d[k]>> \in Alike
  <2> TAKE k \in DOMAIN d
  <2>1. x[k] \in WireItem /\ d[k] \in WireItem
    BY <1>5, <1>8, <1>9, <1>10
  <2>2. k \in DOMAIN calls /\ k \in DOMAIN rs
    BY <1>5, <1>10
  <2>3. x[k].role = "user" /\ x[k].part.type = "result" /\ x[k].part.of = <<calls[k].id>>
    BY <1>5, <1>8, <2>2
  <2>4. d[k].role = "user" /\ d[k].part.type = "result" /\ d[k].part.of = <<calls[k].id>>
    BY <1>10, <2>2
  <2> HIDE DEF R
  <2> QED BY <2>1, <2>3, <2>4 DEF Alike
<1>12. Pairwise(x, d, Alike)
  BY <1>6, <1>8, <1>9, <1>11 DEF Pairwise
<1> QED BY <1>6, <1>12 DEF x, d, rs, R

\* The message of the results takes the place of what was due.
LEMMA AnswersResults ==
  ASSUME WireTypes, AnswersInv, NEW asset \in BOOLEAN, NEW extra, Results(asset, extra)
  PROVE  AnswersInv'
<1> DEFINE results == [i \in DOMAIN accum.calls |->
                         Part("result", <<accum.calls[i].id>>, IF asset THEN "asset" ELSE "said")]
           said == <<Part("text", <<>>, "said")>>
           ts == IF extra = "repair" THEN said ELSE <<>>
           first == Msg("user", results \o ts)
           second == IF extra = "feedback" THEN <<Msg("user", said)>> ELSE <<>>
           more == <<first>> \o second
           d == ResultsFor(accum.calls)
           y == View(api, second)
<1>1. /\ talk' = talk \o <<first>> \o second /\ point = "tools" /\ point' = "request"
      /\ UNCHANGED <<api, seen, replay, resumable, wire, streamed, ran, spent>>
  BY DEF Results
<1>2. first \in Message /\ second \in Seq(Message)
  BY UserMessages
<1>3. talk \in Seq(Message) /\ accum.calls \in Seq(Call)
  BY HeardTypes DEF WireTypes
<1>4. /\ results \in Seq(UserPart({"result"})) /\ Pairwise(Spoken("user", results), d, Alike)
      /\ d \in Seq(WireItem) /\ \A k \in DOMAIN d : d[k].part.type = "result"
  <2>1. (IF asset THEN "asset" ELSE "said") \in {"said", "asset"}
    OBVIOUS
  <2>2. /\ results \in Seq(UserPart({"result"})) /\ Pairwise(Spoken("user", results), d, Alike)
    BY <1>3, <2>1, ResultParts
  <2>3. d \in Seq(WireItem)
    BY <1>3, ResultsForType
  <2>4. \A k \in DOMAIN d : d[k].part.type = "result"
    BY DEF ResultsFor, Part
  <2> QED BY <2>2, <2>3, <2>4
<1>5. ts \in Seq(UserPart({"text"}))
  <2>1. said \in Seq(UserPart({"text"}))
    BY SaidView
  <2>2. <<>> \in Seq(UserPart({"text"}))
    OBVIOUS
  <2> HIDE DEF said
  <2> QED BY <2>1, <2>2
<1>6. y \in Seq(WireItem) /\ Plain(y)
  <2>1. /\ Msg("user", said) \in Message /\ ViewIn(api)[Msg("user", said)] \in Seq(WireItem)
        /\ Plain(ViewIn(api)[Msg("user", said)])
    BY SaidView
  <2>2. <<>> \in Seq(WireItem) /\ Plain(<<>>)
    BY DEF Plain
  <2>3. View(api, <<>>) = <<>> /\ View(api, <<Msg("user", said)>>) = ViewIn(api)[Msg("user", said)]
    BY <2>1, ViewMade
  <2> HIDE DEF said
  <2> QED BY <2>1, <2>2, <2>3
<1> HIDE DEF first, second, results, ts, d, y, said
<1>7. talk' = talk \o more /\ more \in Seq(Message)
  BY <1>1, <1>2, <1>3, ConcatAssociative, ConcatProperties
<1>8. View(api, more) = ViewIn(api)[first] \o y
  <2>1. View(api, <<first>> \o second) = View(api, <<first>>) \o View(api, second)
    <3>1. <<first>> \in Seq(Message)
      BY <1>2
    <3> QED BY <1>2, <3>1, ViewMade
  <2>2. View(api, <<first>>) = ViewIn(api)[first]
    BY <1>2, ViewMade
  <2> QED BY <2>1, <2>2 DEF y
<1>9. Due = d
  BY <1>1 DEF Due, d
<1>10. ASSUME NEW u \in Seq(WireItem), Sound(api, u \o d, Ran)
       PROVE  Sound(api, u \o (ViewIn(api)[first] \o y), Ran)
  <2>1. Sound(api, u \o (ViewIn(api)[Msg("user", results \o ts)] \o y), Ran)
    BY <1>4, <1>5, <1>6, <1>10, ResultsSound
  <2> QED BY <2>1 DEF first
<1>11. Replies(api, Ran, Due, View(api, more))
  BY <1>8, <1>9, <1>10 DEF Replies
<1> HIDE DEF more
<1>12. point \in {"tools", "idle"}
  BY <1>1
<1> QED BY <1>1, <1>7, <1>11, <1>12, AnswersSaid

\* What is sent is what the next request was to show.
LEMMA AnswersSend ==
  ASSUME WireTypes, AnswersInv, SendMessages
  PROVE  AnswersInv'
<1>1. /\ point = "request" /\ point' = "stream" /\ streamed' = <<>>
      /\ spent' = [spent EXCEPT !.requests = spent.requests + 1]
      /\ sent' = IF api = "anthropic" /\ resumable THEN replay \o Delta ELSE Delta
      /\ wire' = IF api = "anthropic" THEN Items(Folded(sent'))
                 ELSE (IF resumable THEN wire ELSE <<>>)
                      \o Items([i \in DOMAIN sent' |-> ToItems(sent'[i])])
      /\ UNCHANGED <<api, talk, seen, resumable, ran>>
  BY DEF SendMessages
<1>2. /\ talk \in Seq(Message) /\ replay \in Seq(Message) /\ wire \in Seq(WireItem) /\ Delta \in Seq(Message)
      /\ (~resumable => Delta = talk)
  BY DeltaType DEF WireTypes
<1>3. Due = <<>> /\ Due' = <<>>
  BY <1>1 DEF Due
<1>4. View(api, talk)' = View(api, talk) /\ Ran' = Ran
  BY <1>1 DEF View, ViewIn, Ran
<1>5. Sound(api, View(api, talk) \o Due, Ran)' <=> Sound(api, View(api, talk) \o Due, Ran)
  BY <1>1, <1>3, <1>4 DEF Sound
<1>6. Fresh'
  BY <1>1 DEF AnswersInv, Fresh
<1>7. View(api, talk) \in Seq(WireItem) /\ Sound(api, View(api, talk), Ran)
  <2>1. View(api, talk) \in Seq(WireItem)
    BY <1>2, ViewMade
  <2>2. View(api, talk) \o <<>> = View(api, talk)
    BY <2>1, ConcatEmptySeq
  <2> QED BY <1>3, <2>1, <2>2 DEF AnswersInv
<1>8. sent' \in Seq(Message)
  <2>1. replay \o Delta \in Seq(Message)
    BY <1>2, ConcatProperties
  <2> QED BY <1>1, <1>2, <2>1
<1>9. ASSUME resumable
      PROVE  wire' = Resumed /\ Resumed \in Seq(WireItem)
  <2>1. CASE api = "anthropic"
    <3>1. sent' = replay \o Delta /\ wire' = Flat(sent', WiredIn)
      BY <1>1, <1>8, <1>9, <2>1, ItemsFolded
    <3>2. Resumed = Flat(replay \o Delta, WiredIn)
      BY <2>1 DEF Resumed, View, ViewIn
    <3> QED BY <1>8, <3>1, <3>2, WiredMade
  <2>2. CASE api # "anthropic"
    <3>1. sent' = Delta /\ wire' = wire \o Flat(sent', ItemizedIn)
      BY <1>1, <1>8, <1>9, <2>2, ItemsItemized
    <3>2. Resumed = wire \o Flat(Delta, ItemizedIn)
      BY <2>2 DEF Resumed, View, ViewIn
    <3>3. Flat(Delta, ItemizedIn) \in Seq(WireItem)
      BY <1>2, WiredType, FlatMade
    <3> QED BY <1>2, <3>1, <3>2, <3>3, ConcatProperties
  <2> QED BY <2>1, <2>2
<1>10. ASSUME ~resumable
       PROVE  wire' = View(api, talk)
  <2>1. sent' = talk
    BY <1>1, <1>2, <1>10
  <2>2. CASE api = "anthropic"
    BY <1>1, <1>2, <2>1, <2>2, ItemsFolded DEF View, ViewIn
  <2>3. CASE api # "anthropic"
    <3>1. wire' = <<>> \o Flat(talk, ItemizedIn)
      BY <1>1, <1>2, <1>10, <2>1, <2>3, ItemsItemized
    <3>2. Flat(talk, ItemizedIn) \in Seq(WireItem)
      BY <1>2, WiredType, FlatMade
    <3>3. View(api, talk) = Flat(talk, ItemizedIn)
      BY <2>3 DEF View, ViewIn
    <3> QED BY <3>1, <3>2, <3>3, ConcatEmptySeq
  <2> QED BY <2>2, <2>3
<1>11. Sound(api, wire', Ran)
  <2>1. CASE resumable
    <3>1. Sound(api, Resumed \o Due, Ran)
      BY <1>1, <2>1 DEF AnswersInv
    <3>2. Resumed \o <<>> = Resumed
      BY <1>9, <2>1, ConcatEmptySeq
    <3> QED BY <1>3, <1>9, <2>1, <3>1, <3>2
  <2>2. CASE ~resumable
    BY <1>7, <1>10, <2>2
  <2> QED BY <2>1, <2>2
<1>12. Sound(api, wire, Ran)'
  BY <1>1, <1>4, <1>11 DEF Sound
<1> QED BY <1>1, <1>5, <1>6, <1>12 DEF AnswersInv

\* The ids of calls.
Ids(calls) == {<<calls[k].id>> : k \in DOMAIN calls}

\* An answer and the results of its calls go on with a conversation that has not had them.
LEMMA TurnSound ==
  ASSUME NEW a, NEW u \in Seq(WireItem), NEW S, Sound(a, u, S),
         NEW t \in Seq(WireItem), NEW calls \in Seq(Call), Asks(t, calls),
         \A k, l \in DOMAIN calls : calls[k].id = calls[l].id => k = l,
         S \cap Ids(calls) = {}
  PROVE  Sound(a, (u \o t) \o ResultsFor(calls), S \cup Ids(calls))
<1> DEFINE r == ResultsFor(calls)
           T == Ids(calls)
<1>1. r \in Seq(WireItem) /\ DOMAIN r = DOMAIN calls /\ \A k \in DOMAIN calls : r[k].part.of = <<calls[k].id>>
  <2>1. r \in Seq(WireItem)
    BY ResultsForType
  <2> QED BY <2>1 DEF ResultsFor, Part
<1>2. Within(t, T)
  <2>1. \A i \in OfKind(t, "use") : t[i].part.of \in T
    BY DEF Asks, Ids
  <2>2. OfKind(t, "result") = {}
    <3>1. \A i \in DOMAIN t : t[i] \in WireItem /\ t[i].role = "assistant"
      BY DEF Asks
    <3>2. \A i \in DOMAIN t : t[i].part.type # "result"
      BY <3>1, KindOfItem
    <3> QED BY <3>2 DEF OfKind
  <2> HIDE DEF T
  <2> QED BY <2>1, <2>2 DEF Within
<1>3. Within(r, T)
  <2>1. \A k \in DOMAIN r : r[k].part.of \in T
    BY <1>1 DEF Ids
  <2> HIDE DEF r, T
  <2> QED BY <2>1 DEF Within, OfKind
<1>4. Answered(a, t \o r)
  BY TurnAnswered
<1> HIDE DEF r, T
<1>5. Within(t \o r, T)
  <2>1. Within(t \o r, T \cup T)
    BY <1>1, <1>2, <1>3, WithinJoined
  <2>2. T \cup T = T
    OBVIOUS
  <2> QED BY <2>1, <2>2
<1>6. t \o r \in Seq(WireItem)
  BY <1>1, ConcatProperties
<1>7. S \cap T = {}
  BY DEF T
<1>8. Sound(a, u \o (t \o r), S \cup T)
  BY <1>4, <1>5, <1>6, <1>7, SoundJoined
<1>9. (u \o t) \o r = u \o (t \o r)
  BY <1>1, JoinedTwice
<1> QED BY <1>8, <1>9 DEF r, T

\* The calls the accumulator heard of, when an answer is accepted.
LEMMA CallsOfAnswer ==
  ASSUME WireInv, point = "stream"
  PROVE  /\ accum.calls \in Seq(Call) /\ streamed \in Seq(Block) /\ Distinct(streamed)
         /\ SameCalls(accum.calls, streamed)
         /\ \A k, l \in DOMAIN accum.calls : accum.calls[k].id = accum.calls[l].id => k = l
<1>1. accum.calls \in Seq(Call) /\ streamed \in Seq(Block) /\ Distinct(streamed)
  BY HeardTypes, AnswerTypes DEF WireInv, TranslatorInv, Distinct
<1>2. Matched(api, accum.calls, CallBlocks(streamed))
  BY DEF WireInv, CallsHeard
<1>3. SameCalls(accum.calls, streamed)
  BY <1>1, <1>2, HeardSame
<1> QED BY <1>1, <1>3 DEF SameCalls

\* The calls were not made before.
LEMMA CallsNew ==
  ASSUME WireInv, Fresh, point = "stream"
  PROVE  /\ Ran \cap Ids(accum.calls) = {}
         /\ \A k \in DOMAIN accum.calls : accum.calls[k].id <= spent.blocks
<1>1. \A k \in DOMAIN accum.calls : \E i \in DOMAIN streamed : streamed[i].id = accum.calls[k].id
  BY CallsOfAnswer DEF SameCalls
<1>2. \A k \in DOMAIN accum.calls, j \in DOMAIN ran : accum.calls[k].id # ran[j].id
  BY <1>1 DEF Fresh
<1>3. \A m, n : <<m>> = <<n>> => m = n
  OBVIOUS
<1>4. ASSUME NEW x \in Ran, x \in Ids(accum.calls)
      PROVE  FALSE
  <2>1. PICK j \in DOMAIN ran : x = <<ran[j].id>>
    BY DEF Ran
  <2>2. PICK k \in DOMAIN accum.calls : x = <<accum.calls[k].id>>
    BY <1>4 DEF Ids
  <2> QED BY <1>2, <1>3, <2>1, <2>2
<1>5. \A k \in DOMAIN accum.calls : accum.calls[k].id <= spent.blocks
  BY <1>1 DEF WireInv, TranslatorInv
<1> QED BY <1>4, <1>5

\* The turn as the history tells it, on either wire.
LEMMA TurnAsks ==
  ASSUME NEW a, NEW t \in Turn, \A k, l \in DOMAIN t.calls : t.calls[k].id = t.calls[l].id => k = l
  PROVE  LET m == Msg("assistant", Finalized(t)) IN
         m \in Message /\ ViewIn(a)[m] \in Seq(WireItem) /\ Asks(ViewIn(a)[m], t.calls)
<1> DEFINE F == Finalized(t)
           m == Msg("assistant", F)
           X == AssistantPart({"text"})
           us == Among(F, X)
<1>1. F \in Seq(APart) /\ Among(F, AssistantPart(Use)) = CallParts(t)
  BY FinalizedIs
<1>2. PICK u \in Seq(AssistantPart({"thinking", "text"})) : F = u \o CallParts(t)
  BY FinalizedIs
<1> HIDE DEF F
<1>3. m \in Message
  BY <1>1, MsgType
<1>4. ViewIn(a)[m] \in Seq(WireItem)
  BY <1>3, ViewMade
<1>5. WiredIn[m] = Spoken("assistant", F) /\ ItemizedIn[m] = Spoken("assistant", us \o CallParts(t))
  BY <1>1, AssistantSpoken
<1>6. Asks(Spoken("assistant", F), t.calls)
  BY <1>2, CallsAsk
<1>7. us \in Seq(AssistantPart({"thinking", "text"}))
  <2>1. us \in Seq(APart \cap X)
    BY <1>1, AmongIsFlat
  <2>2. APart \cap X \subseteq AssistantPart({"thinking", "text"})
    BY DEF AssistantPart
  <2> HIDE DEF us, X
  <2> QED BY <2>1, <2>2, SeqMonotonic
<1> HIDE DEF us
<1>8. Asks(Spoken("assistant", us \o CallParts(t)), t.calls)
  BY <1>7, CallsAsk
<1>9. Asks(ViewIn(a)[m], t.calls)
  BY <1>5, <1>6, <1>8 DEF ViewIn
<1> QED BY <1>3, <1>4, <1>9 DEF m, F

\* The turn as the handle keeps it.
LEMMA HandleAsks ==
  ASSUME NEW a, NEW bs \in Seq(Block), NEW calls, SameCalls(calls, bs), Distinct(bs)
  PROVE  /\ Remembered(a, bs) \in Seq(WireItem) /\ Asks(Remembered(a, bs), calls)
         /\ LET ps == Shapes(a, bs)
                last == IF ps = <<>> THEN <<>> ELSE <<Msg("assistant", ps)>>
            IN  last \in Seq(Message) /\ Asks(Flat(last, WiredIn), calls)
<1> DEFINE ps == Shapes(a, bs)
           m == Msg("assistant", ps)
           last == IF ps = <<>> THEN <<>> ELSE <<m>>
<1>1. Remembered(a, bs) \in Seq(WireItem) /\ Asks(Remembered(a, bs), calls)
  BY RememberedType, RememberedFrom, AsksBlocks
<1>2. PICK src : From(Spoken("assistant", ps), bs, src)
  BY ShapesFrom
<1>3. Asks(Spoken("assistant", ps), calls)
  BY <1>2, AsksBlocks
<1>4. ps \in Seq(APart)
  BY ShapesMade
<1> HIDE DEF ps
<1>5. m \in Message /\ WiredIn[m] = Spoken("assistant", ps)
  BY <1>4, AssistantSpoken, MsgType
<1> HIDE DEF m
<1>6. <<m>> \in Seq(Message) /\ <<>> \in Seq(Message)
  BY <1>5
<1>7. Flat(<<m>>, WiredIn) = WiredIn[m] /\ Flat(<<>>, WiredIn) = <<>>
  BY <1>5, WiredType, FlatSingle, WiredMade
<1>8. ps = <<>> => Spoken("assistant", ps) = <<>>
  BY DEF Spoken
<1>9. Flat(last, WiredIn) = Spoken("assistant", ps)
  BY <1>5, <1>7, <1>8
<1>10. last \in Seq(Message) /\ Asks(Flat(last, WiredIn), calls)
  BY <1>3, <1>6, <1>9
<1> QED BY <1>1, <1>10 DEF last, m, ps

LEMMA ExecutionsJoined ==
  ASSUME NEW u \in Seq(Execution), NEW v \in Seq(Execution)
  PROVE  /\ Len(u) \in Nat /\ DOMAIN u = 1..Len(u)
         /\ Len(v) \in Nat /\ DOMAIN v = 1..Len(v)
         /\ DOMAIN (u \o v) = 1..Len(u) + Len(v)
         /\ \A k \in 1..Len(u) : (u \o v)[k] = u[k]
         /\ \A l \in 1..Len(v) : (u \o v)[Len(u) + l] = v[l]
OBVIOUS

\* A turn that ends adds its calls to those that ran.
LEMMA RanGrows ==
  ASSUME WireTypes, ran' = ran \o Runs(accum)
  PROVE  /\ Ran' = Ran \cup Ids(accum.calls)
         /\ \A k \in DOMAIN ran' : \/ k \in DOMAIN ran /\ ran'[k].id = ran[k].id
                                   \/ \E l \in DOMAIN accum.calls : ran'[k].id = accum.calls[l].id
<1> DEFINE rs == Runs(accum)
           N == Len(ran)
<1>1. ran \in Seq(Execution) /\ accum \in Turn
  BY DEF WireTypes
<1>2. rs \in Seq(Execution) /\ Len(rs) = Len(accum.calls) /\ accum.calls \in Seq(Call)
  BY <1>1, RunsType DEF Turn
<1>3. DOMAIN rs = DOMAIN accum.calls /\ \A l \in DOMAIN accum.calls : rs[l].id = accum.calls[l].id
  BY DEF Runs
<1> HIDE DEF rs
<1>4. /\ N \in Nat /\ DOMAIN ran = 1..N /\ DOMAIN rs = 1..Len(rs) /\ Len(rs) \in Nat
      /\ DOMAIN (ran \o rs) = 1..N + Len(rs)
      /\ \A k \in 1..N : (ran \o rs)[k] = ran[k]
      /\ \A l \in 1..Len(rs) : (ran \o rs)[N + l] = rs[l]
  BY <1>1, <1>2, ExecutionsJoined
<1>5. ran' = ran \o rs
  BY DEF rs
<1> HIDE DEF N
<1>6. \A k \in DOMAIN ran' : k \in 1..N \/ \E l \in 1..Len(rs) : k = N + l
  <2> TAKE k \in DOMAIN ran'
  <2>1. k \in 1..N \/ (k - N \in 1..Len(rs) /\ k = N + (k - N))
    BY <1>4, <1>5
  <2> QED BY <2>1
<1>7. \A k \in DOMAIN ran' : \/ k \in DOMAIN ran /\ ran'[k] = ran[k]
                             \/ \E l \in DOMAIN accum.calls : ran'[k].id = accum.calls[l].id
  <2> TAKE k \in DOMAIN ran'
  <2>1. CASE k \in 1..N
    BY <1>4, <1>5, <2>1
  <2>2. ASSUME NEW l \in 1..Len(rs), k = N + l
        PROVE  \E j \in DOMAIN accum.calls : ran'[k].id = accum.calls[j].id
    <3>1. ran'[k] = rs[l] /\ l \in DOMAIN accum.calls
      BY <1>3, <1>4, <1>5, <2>2
    <3> QED BY <1>3, <3>1
  <2> QED BY <1>6, <2>1, <2>2
<1>8. \A k \in DOMAIN ran : k \in DOMAIN ran' /\ ran'[k] = ran[k]
  <2>1. \A k \in 1..N : k \in 1..N + Len(rs)
    BY <1>4
  <2> QED BY <1>4, <1>5, <2>1
<1>9. \A l \in DOMAIN accum.calls : N + l \in DOMAIN ran' /\ ran'[N + l].id = accum.calls[l].id
  <2> TAKE l \in DOMAIN accum.calls
  <2>1. l \in 1..Len(rs)
    BY <1>3, <1>4
  <2>2. N + l \in 1..N + Len(rs)
    BY <1>4, <2>1
  <2>3. ran'[N + l] = rs[l]
    BY <1>4, <1>5, <2>1
  <2> QED BY <1>3, <1>4, <1>5, <2>2, <2>3
<1>10. Ran' \subseteq Ran \cup Ids(accum.calls)
  BY <1>7 DEF Ran, Ids
<1>11. Ran \subseteq Ran' /\ Ids(accum.calls) \subseteq Ran'
  BY <1>8, <1>9 DEF Ran, Ids
<1> QED BY <1>7, <1>10, <1>11

\* The accepted answer goes on with the history, and with what the handle holds.
LEMMA AnswersFinish ==
  ASSUME WireInv, AnswersInv, Finish
  PROVE  AnswersInv'
<1> DEFINE m == Msg("assistant", Finalized(accum))
           ps == Shapes(api, streamed)
           last == IF ps = <<>> THEN <<>> ELSE <<Msg("assistant", ps)>>
           calls == accum.calls
           T == Ids(calls)
<1>1. WireTypes /\ TranslatorInv /\ Views /\ Fresh
  BY DEF WireInv, AnswersInv
<1>2. /\ point = "stream" /\ resumable' /\ spent' = spent /\ api' = api
      /\ point' # "stream" /\ point' \in {"idle", "tools"}
      /\ api = "anthropic" => replay' = Pruned(sent) \o last
      /\ api = "openai" => replay' = <<>> /\ wire' = wire \o Remembered(api, streamed)
      /\ talk' = Append(talk, m) /\ seen' = Len(talk') /\ ran' = ran \o Runs(accum)
      /\ streamed' = <<>> /\ accum' = accum
  BY <1>1, FinishDoes
<1>3. point' = IF calls = <<>> THEN "idle" ELSE "tools"
  BY DEF Finish
<1>4. /\ talk \in Seq(Message) /\ sent \in Seq(Message) /\ wire \in Seq(WireItem) /\ accum \in Turn
      /\ api \in {"anthropic", "openai"}
  BY <1>1 DEF WireTypes
<1>5. /\ calls \in Seq(Call) /\ streamed \in Seq(Block) /\ Distinct(streamed) /\ SameCalls(calls, streamed)
      /\ \A k, l \in DOMAIN calls : calls[k].id = calls[l].id => k = l
  BY <1>2, CallsOfAnswer
<1>6. Ran \cap T = {} /\ \A k \in DOMAIN calls : calls[k].id <= spent.blocks
  BY <1>1, <1>2, CallsNew
<1>7. Ran' = Ran \cup T
  BY <1>1, <1>2, RanGrows
<1>8. Due' = ResultsFor(calls)
  <2>1. ResultsFor(<<>>) = <<>>
    BY DEF ResultsFor
  <2> QED BY <1>2, <1>3, <2>1 DEF Due
<1>9. m \in Message /\ ViewIn(api)[m] \in Seq(WireItem) /\ Asks(ViewIn(api)[m], calls)
  BY <1>4, <1>5, TurnAsks
<1>10. /\ Remembered(api, streamed) \in Seq(WireItem) /\ Asks(Remembered(api, streamed), calls)
       /\ last \in Seq(Message) /\ Asks(Flat(last, WiredIn), calls)
  BY <1>5, HandleAsks
<1> HIDE DEF m, ps, last, calls, T
<1>11. \A w \in Seq(WireItem) : w \o <<>> = w
  BY ConcatEmptySeq
<1>12. Sound(api, View(api, talk) \o Due, Ran)'
  <2>1. View(api, talk) \in Seq(WireItem) /\ Sound(api, View(api, talk), Ran)
    <3>1. View(api, talk) \in Seq(WireItem)
      BY <1>4, ViewMade
    <3>2. Due = <<>>
      BY <1>2 DEF Due
    <3> QED BY <1>11, <3>1, <3>2 DEF AnswersInv
  <2>2. View(api, talk)' = View(api, talk) \o ViewIn(api)[m]
    <3>1. talk' = talk \o <<m>> /\ <<m>> \in Seq(Message)
      BY <1>2, <1>4, <1>9
    <3>2. View(api, talk)' = View(api, talk \o <<m>>)
      BY <1>2, <3>1 DEF View, ViewIn
    <3>3. View(api, talk \o <<m>>) = View(api, talk) \o View(api, <<m>>)
      BY <1>4, <3>1, ViewMade
    <3>4. View(api, <<m>>) = ViewIn(api)[m]
      BY <1>9, ViewMade
    <3> QED BY <3>2, <3>3, <3>4
  <2>3. Sound(api, (View(api, talk) \o ViewIn(api)[m]) \o ResultsFor(calls), Ran \cup T)
    BY <1>5, <1>6, <1>9, <2>1, TurnSound DEF T
  <2>4. (View(api, talk) \o Due)' = (View(api, talk) \o ViewIn(api)[m]) \o ResultsFor(calls)
    BY <1>8, <2>2
  <2> QED BY <1>2, <1>7, <2>3, <2>4 DEF Sound
<1>13. Delta' = <<>>
  <2>1. talk' \in Seq(Message)
    BY <1>2, <1>4, <1>9
  <2>2. Len(talk') \in Nat
    BY <2>1
  <2>3. Delta' = SubSeq(talk', Len(talk') + 1, Len(talk'))
    BY <1>2 DEF Delta
  <2> DEFINE n == Len(talk')
  <2>4. n + 1 \in Int /\ n \in Int /\ n < n + 1
    BY <2>2
  <2> HIDE DEF n
  <2>5. SubSeq(talk', n + 1, n) = <<>>
    BY <2>4, SubSeqEmpty
  <2> QED BY <2>3, <2>5 DEF n
<1>14. Sound(api, wire, Ran)
  BY <1>2 DEF AnswersInv
<1>15. Sound(api, Resumed \o Due, Ran)'
  <2>1. CASE api = "anthropic"
    <3>1. replay' = Pruned(sent) \o last
      BY <1>2, <2>1
    <3>2. Pruned(sent) \in Seq(Message) /\ replay' \in Seq(Message)
      BY <1>4, <1>10, <3>1, PrunedType, ConcatProperties
    <3>3. Resumed' = Flat(replay' \o <<>>, WiredIn)
      BY <1>2, <1>13, <2>1 DEF Resumed, View, ViewIn
    <3>4. replay' \o <<>> = replay'
      BY <3>2, ConcatEmptySeq
    <3>5. Flat(Pruned(sent) \o last, WiredIn) = Flat(Pruned(sent), WiredIn) \o Flat(last, WiredIn)
      BY <1>10, <3>2, WiredMade
    <3>6. wire = Flat(sent, WiredIn)
      <4>1. wire = Items(Folded(sent))
        BY <1>1, <1>2, <2>1 DEF Views, ViewsAgree
      <4> QED BY <1>4, <4>1, ItemsFolded
    <3>7. /\ Flat(Pruned(sent), WiredIn) \in Seq(WireItem) /\ Flat(sent, WiredIn) \in Seq(WireItem)
          /\ Flat(last, WiredIn) \in Seq(WireItem)
      BY <1>4, <1>10, <3>2, WiredMade
    <3>8. Pairwise(Flat(Pruned(sent), WiredIn), Flat(sent, WiredIn), Alike)
      BY <1>4, PrunedAlike
    <3>9. Sound(api, Flat(sent, WiredIn), Ran)
      BY <1>14, <3>6
    <3>10. Sound(api, Flat(Pruned(sent), WiredIn), Ran)
      BY <3>7, <3>8, <3>9, SoundAlike
    <3>11. Sound(api, (Flat(Pruned(sent), WiredIn) \o Flat(last, WiredIn)) \o ResultsFor(calls), Ran \cup T)
      BY <1>5, <1>6, <1>10, <3>7, <3>10, TurnSound DEF T
    <3>12. (Resumed \o Due)' = (Flat(Pruned(sent), WiredIn) \o Flat(last, WiredIn)) \o ResultsFor(calls)
      BY <1>8, <3>1, <3>3, <3>4, <3>5
    <3> QED BY <1>2, <1>7, <3>11, <3>12 DEF Sound
  <2>2. CASE api = "openai"
    <3>1. wire' = wire \o Remembered(api, streamed)
      BY <1>2, <2>2
    <3>2. View(api, Delta)' = <<>>
      <4>1. View(api, Delta)' = View(api, <<>>)
        BY <1>2, <1>13 DEF View, ViewIn
      <4> QED BY <4>1, ViewMade
    <3>3. Resumed' = wire' \o View(api, Delta)'
      BY <1>2, <2>2 DEF Resumed
    <3>4. wire' \in Seq(WireItem)
      BY <1>4, <1>10, <3>1, ConcatProperties
    <3>5. Resumed' = wire \o Remembered(api, streamed)
      BY <1>11, <3>1, <3>2, <3>3, <3>4
    <3>6. Sound(api, (wire \o Remembered(api, streamed)) \o ResultsFor(calls), Ran \cup T)
      BY <1>4, <1>5, <1>6, <1>10, <1>14, TurnSound DEF T
    <3>7. (Resumed \o Due)' = (wire \o Remembered(api, streamed)) \o ResultsFor(calls)
      BY <1>8, <3>5
    <3> QED BY <1>2, <1>7, <3>6, <3>7 DEF Sound
  <2> QED BY <1>4, <2>1, <2>2
<1>16. Fresh'
  <2>1. \A k \in DOMAIN ran' : ran'[k].id <= spent.blocks
    <3>1. \A k \in DOMAIN ran' : \/ k \in DOMAIN ran /\ ran'[k].id = ran[k].id
                                 \/ \E l \in DOMAIN calls : ran'[k].id = calls[l].id
      BY <1>1, <1>2, RanGrows DEF calls
    <3> QED BY <1>1, <1>6, <3>1 DEF Fresh
  <2> QED BY <1>2, <2>1 DEF Fresh
<1>17. seen' <= Len(talk')
  <2>1. talk' \in Seq(Message)
    BY <1>2, <1>4, <1>9
  <2>2. Len(talk') \in Nat
    BY <2>1
  <2> QED BY <1>2, <2>2
<1> QED BY <1>2, <1>12, <1>15, <1>16, <1>17 DEF AnswersInv

\* Before anything is said nothing is due.
LEMMA AnswersInit == WireInit => AnswersInv
<1> SUFFICES ASSUME WireInit PROVE AnswersInv
  OBVIOUS
<1> DEFINE m == Msg("user", <<Part("text", <<>>, "said")>>)
           v == ViewIn(api)[m]
<1>1. point = "request" /\ talk = <<m>> /\ resumable = FALSE /\ ran = <<>> /\ streamed = <<>>
  BY DEF WireInit
<1>2. m \in Message /\ v \in Seq(WireItem) /\ Plain(v) /\ v # <<>> /\ v[1].role = "user"
  BY SaidView
<1> HIDE DEF m
<1>3. View(api, talk) = v
  BY <1>1, <1>2, ViewMade
<1> HIDE DEF v
<1>4. OfKind(v, "use") = {} /\ OfKind(v, "result") = {}
  BY <1>2 DEF OfKind, Plain
<1>5. Sound(api, v, Ran)
  BY <1>2, <1>4 DEF Sound, Within, Answered
<1>6. Due = <<>> /\ v \o <<>> = v
  BY <1>1, <1>2, ConcatEmptySeq DEF Due
<1>7. Fresh
  BY <1>1 DEF Fresh
<1>8. Sound(api, View(api, talk) \o Due, Ran)
  BY <1>3, <1>5, <1>6
<1> QED BY <1>1, <1>7, <1>8 DEF AnswersInv

LEMMA AnswersStep ==
  ASSUME WireInv, AnswersInv, [WireNext]_wireVars
  PROVE  AnswersInv'
<1>1. WireTypes
  BY DEF WireInv
<1>2. CASE SendMessages
  BY <1>1, <1>2, AnswersSend
<1>3. CASE Finish
  BY <1>3, AnswersFinish
<1>4. CASE Break
  BY <1>4, AnswersBreak
<1>5. CASE Fallback
  BY <1>1, <1>5, AnswersFallback
<1>6. CASE Say
  BY <1>1, <1>6, AnswersSay
<1>7. ASSUME NEW asset \in BOOLEAN, NEW extra \in {"nothing", "repair", "feedback"}, Results(asset, extra)
      PROVE  AnswersInv'
  BY <1>1, <1>7, AnswersResults
<1>8. CASE UNCHANGED wireVars
  <2>1. UNCHANGED <<api, point, talk, seen, replay, resumable, wire, streamed, accum, ran, spent>>
    BY <1>8 DEF wireVars
  <2>2. Delta' = Delta
    BY <2>1 DEF Delta
  <2>3. View(api, talk)' = View(api, talk) /\ View(api, Delta)' = View(api, Delta)
    BY <2>1, <2>2 DEF View, ViewIn
  <2>4. View(api, replay \o Delta)' = View(api, replay \o Delta)
    BY <2>1, <2>2 DEF View, ViewIn
  <2>5. Resumed' = Resumed /\ Due' = Due /\ Ran' = Ran
    BY <2>1, <2>3, <2>4 DEF Resumed, Due, Ran
  <2>6. Fresh' <=> Fresh
    BY <2>1 DEF Fresh
  <2> QED BY <2>1, <2>3, <2>5, <2>6 DEF AnswersInv, Sound
<1> QED BY <1>2, <1>3, <1>4, <1>5, <1>6, <1>7, <1>8, AnswersBegin, AnswersEvent DEF WireNext

\* A wire whose calls are answered has one result to a call, and one call to a result.
LEMMA AnswersWellFormed == AnswersInv => WellFormed
<1> SUFFICES ASSUME AnswersInv, point = "stream"
             PROVE  /\ wire[1].role = "user"
                    /\ \A i \in Positions("use") :
                         Cardinality({j \in Positions("result") : wire[j].part.of = wire[i].part.of}) = 1
                    /\ \A j \in Positions("result") :
                         \E i \in Positions("use") :
                           /\ i < j /\ wire[i].part.of = wire[j].part.of
                           /\ \A k \in Positions("use") \ {i} : wire[k].part.of # wire[j].part.of
                           /\ api = "anthropic" =>
                                \E k \in i..(j - 1) :
                                  /\ \A n \in i..k : wire[n].role = "assistant"
                                  /\ \A n \in (k + 1)..j : wire[n].part.type = "result"
  BY DEF WellFormed
<1>1. Sound(api, wire, Ran)
  BY DEF AnswersInv
<1>2. wire[1].role = "user" /\ Answered(api, wire)
  BY <1>1 DEF Sound
<1>3. Positions("use") = OfKind(wire, "use") /\ Positions("result") = OfKind(wire, "result")
  BY DEF Positions, OfKind
<1>4. ASSUME NEW i \in Positions("use")
      PROVE  Cardinality({j \in Positions("result") : wire[j].part.of = wire[i].part.of}) = 1
  <2>1. PICK j \in Positions("result") : Answers(api, wire, i, j)
    BY <1>2, <1>3 DEF Answered
  <2>2. wire[j].part.of = wire[i].part.of /\ \A k \in Positions("result") : wire[k].part.of = wire[i].part.of => k = j
    BY <1>3, <2>1 DEF Answers
  <2>3. {k \in Positions("result") : wire[k].part.of = wire[i].part.of} = {j}
    BY <2>2
  <2> QED BY <2>3, FS_Singleton
<1>5. ASSUME NEW j \in Positions("result")
      PROVE  \E i \in Positions("use") :
               /\ i < j /\ wire[i].part.of = wire[j].part.of
               /\ \A k \in Positions("use") \ {i} : wire[k].part.of # wire[j].part.of
               /\ api = "anthropic" =>
                    \E k \in i..(j - 1) :
                      /\ \A n \in i..k : wire[n].role = "assistant"
                      /\ \A n \in (k + 1)..j : wire[n].part.type = "result"
  <2>1. PICK i \in Positions("use") : Answers(api, wire, i, j)
    BY <1>2, <1>3 DEF Answered
  <2>2. /\ i < j /\ wire[i].part.of = wire[j].part.of
        /\ \A k \in Positions("use") \ {i} : wire[k].part.of # wire[j].part.of
    BY <1>3, <2>1 DEF Answers
  <2>3. api = "anthropic" => \E k \in i..(j - 1) :
                               /\ \A n \in i..k : wire[n].role = "assistant"
                               /\ \A n \in (k + 1)..j : wire[n].part.type = "result"
    BY <2>1 DEF Answers, Adjoins
  <2> QED BY <2>2, <2>3
<1> QED BY <1>2, <1>4, <1>5

\* Whatever the session does, what the next request would show is a conversation the
\* provider accepts once the results of the turn follow it (StreamAccumulator.finalize
\* and executeToolBatch write the history, the request builders read it or the handle).
THEOREM AnswersInvariant ==
  ASSUME ~LateBreaks
  PROVE  WireSpec => []AnswersInv
<1>1. WireInit => AnswersInv
  BY AnswersInit
<1>2. WireInv /\ AnswersInv /\ [WireNext]_wireVars => AnswersInv'
  BY AnswersStep
<1> QED BY <1>1, <1>2, WireInvariant, PTL DEF WireSpec

\* Every request begins with the user, holds one result to a call and one call to a
\* result, and for Anthropic the results follow the answer that called (foldMessages,
\* contentPartsToBlocks, messageToInputItems and the splice of the handle's items),
\* for any number of requests, blocks and breaks, after a fallback and after a prune.
THEOREM ConversationStaysWellFormed ==
  ASSUME ~LateBreaks
  PROVE  WireSpec => []WellFormed
BY AnswersInvariant, AnswersWellFormed, PTL
=============================================================================
