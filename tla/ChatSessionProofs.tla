-------------------------- MODULE ChatSessionProofs --------------------------
(***************************************************************************)
(* Proofs about ChatSession: whatever the user does with resets, switches  *)
(* of preset, compactions, resumes, exits and crashes, a reset context     *)
(* does not come back by itself; and what was said reaches the model, from *)
(* message to message and over compactions and resumes.  The steps of a    *)
(* run are those of TurnRunner, and its invariant holds in every run of    *)
(* the chat.                                                               *)
(***************************************************************************)
EXTENDS ChatSession, TurnRunnerProofs

\* While a run is on, the chat waits for it.
Running == Stages \ {"idle"}
Waiting == {"idle", "ensure", "compact", "install", "down"}

Within(items, low) == \A i \in 1..Len(items) : items[i].n > low
HandleWithin(h, low) ==
  h # None => Within(h.covers, low) /\ (h.conv # None => Within(convs[h.conv], low))

ChatTypes ==
  /\ chatHistory \in Seq(Item) /\ chatHandle \in Handle \cup {None} /\ chatDelivered \in Nat
  /\ compacted \in Handle \cup {None} /\ resetAt \in Nat /\ resetAt <= made
  /\ provider \in Providers /\ conv \in Convs \cup {None} /\ convs \in [Convs -> Seq(Item)]
  /\ history \in Seq(Item) /\ handle \in Handle \cup {None}
  /\ rollout \in Seq(Line) /\ made \in Nat

\* A run is as TurnRunner has it, and outside of one there is no trace of it.
RunInv ==
  /\ pc \in Running => Core /\ CallsInv
  /\ pc \notin Running => pc \in Waiting /\ history = <<>> /\ handle = None
  /\ pc = "ensure" /\ after = "run" => chatHistory # <<>>
  /\ pc \in {"compact", "install"} <=> compacted # None

\* Nothing that the chat or its run refer to is older than the last reset;
\* the file and the server keep what is older, and it is all numbered from 1.
LeakInv ==
  /\ Within(history, resetAt) /\ Within(chatHistory, resetAt)
  /\ HandleWithin(handle, resetAt) /\ HandleWithin(chatHandle, resetAt)
  /\ HandleWithin(compacted, resetAt)
  /\ conv # None => Within(convs[conv], resetAt)
Numbered(lines) ==
  \A i \in 1..Len(lines) :
    /\ lines[i].type = "item" => lines[i].item.n > 0
    /\ lines[i].type = "handle" => Within(lines[i].handle.covers, 0)
KeptInv == Numbered(rollout) /\ \A c \in Convs : Within(convs[c], 0)

ChatInv == ChatTypes /\ RunInv /\ LeakInv /\ KeptInv
-----------------------------------------------------------------------------
\* Sequences within a bound.
LEMMA WithinAppend ==
  ASSUME NEW s \in Seq(Item), NEW e \in Item, NEW low \in Nat, Within(s, low), e.n > low
  PROVE  Append(s, e) \in Seq(Item) /\ Within(Append(s, e), low)
<1>1. /\ Append(s, e) \in Seq(Item) /\ Len(Append(s, e)) = Len(s) + 1 /\ Len(s) \in Nat
      /\ \A i \in 1..Len(s) : Append(s, e)[i] = s[i]
      /\ Append(s, e)[Len(s) + 1] = e
  BY AppendProperties, LenProperties
<1>2. \A i \in 1..Len(s) + 1 : i \in 1..Len(s) \/ i = Len(s) + 1
  BY <1>1
<1> QED BY <1>1, <1>2 DEF Within

LEMMA WithinJoined ==
  ASSUME NEW s \in Seq(Item), NEW t \in Seq(Item), NEW low \in Nat, Within(s, low), Within(t, low)
  PROVE  s \o t \in Seq(Item) /\ Within(s \o t, low)
<1> DEFINE joined == s \o t
<1>1. /\ joined \in Seq(Item) /\ Len(joined) = Len(s) + Len(t) /\ Len(s) \in Nat /\ Len(t) \in Nat
      /\ \A i \in 1..Len(s) : joined[i] = s[i]
      /\ \A i \in Len(s) + 1..Len(s) + Len(t) : joined[i] = t[i - Len(s)]
  BY Joined, LenProperties
<1> HIDE DEF joined
<1>2. \A i \in 1..Len(s) + Len(t) : i \in 1..Len(s) \/ (i \in Len(s) + 1..Len(s) + Len(t) /\ i - Len(s) \in 1..Len(t))
  BY <1>1
<1>3. Within(joined, low)
  BY <1>1, <1>2 DEF Within
<1> QED BY <1>1, <1>3 DEF joined

LEMMA WithinRest ==
  ASSUME NEW s \in Seq(Item), NEW low \in Nat, Within(s, low), NEW k \in Nat
  PROVE  SubSeq(s, k + 1, Len(s)) \in Seq(Item) /\ Within(SubSeq(s, k + 1, Len(s)), low)
<1> DEFINE rest == SubSeq(s, k + 1, Len(s))
<1>1. Len(s) \in Nat /\ k + 1 \in Int /\ \A i \in k + 1..Len(s) : i \in 1..Len(s) /\ s[i] \in Item
  BY LenProperties
<1>2. /\ rest \in Seq(Item)
      /\ Len(rest) = IF k + 1 <= Len(s) THEN Len(s) - (k + 1) + 1 ELSE 0
      /\ \A i \in 1..Len(s) - (k + 1) + 1 : rest[i] = s[k + 1 + i - 1]
  BY <1>1, SubSeqProperties
<1> HIDE DEF rest
<1>3. \A i \in 1..Len(rest) : i \in 1..Len(s) - (k + 1) + 1 /\ k + 1 + i - 1 \in 1..Len(s)
  BY <1>1, <1>2
<1>4. Within(rest, low)
  BY <1>2, <1>3 DEF Within
<1> QED BY <1>2, <1>4 DEF rest

LEMMA WithinLower ==
  ASSUME NEW s \in Seq(Item), NEW low \in Nat, Within(s, low)
  PROVE  Within(s, 0)
<1>1. \A i \in 1..Len(s) : s[i] \in Item
  BY LenProperties
<1>2. \A i \in 1..Len(s) : s[i].n \in Nat
  BY <1>1 DEF Item
<1> QED BY <1>2 DEF Within

LEMMA WithinEmpty == \A low : Within(<<>>, low)
<1>1. Len(<<>>) = 0
  OBVIOUS
<1> QED BY <1>1 DEF Within

LEMMA NumberedAppend ==
  ASSUME NEW lines \in Seq(Line), NEW l \in Line, Numbered(lines),
         l.type = "item" => l.item.n > 0, l.type = "handle" => Within(l.handle.covers, 0)
  PROVE  Append(lines, l) \in Seq(Line) /\ Numbered(Append(lines, l))
<1>1. /\ Append(lines, l) \in Seq(Line) /\ Len(Append(lines, l)) = Len(lines) + 1 /\ Len(lines) \in Nat
      /\ \A i \in 1..Len(lines) : Append(lines, l)[i] = lines[i]
      /\ Append(lines, l)[Len(lines) + 1] = l
  BY AppendProperties, LenProperties
<1>2. \A i \in 1..Len(lines) + 1 : i \in 1..Len(lines) \/ i = Len(lines) + 1
  BY <1>1
<1> QED BY <1>1, <1>2 DEF Numbered

\* What is read back from the file has been numbered, too.
LEMMA ReadNumbered ==
  ASSUME NEW lines \in Seq(Line), Numbered(lines)
  PROVE  ResponseItems(lines) \in Seq(Item) /\ Within(ResponseItems(lines), 0)
<1> DEFINE N == Len(lines)
           P == {n \in 0..N : Within(Read(lines)[n], 0)}
<1>1. N \in Nat /\ ResponseItems(lines) = Read(lines)[N] /\ \A n \in 1..N : lines[n] \in Line
  BY LenProperties DEF ResponseItems, Read
<1>2. /\ Read(lines)[0] = <<>>
      /\ \A n \in 1..N : Read(lines)[n] = AfterLine(Read(lines)[n - 1], lines[n])
      /\ \A n \in 0..N : Read(lines)[n] \in Seq(Item)
  BY ReadExists
<1>3. 0 \in P
  BY <1>1, <1>2, WithinEmpty
<1>4. ASSUME NEW n \in 0..N - 1, n \in P
      PROVE  n + 1 \in P
  <2>1. n + 1 \in 1..N /\ n + 1 \in 0..N /\ (n + 1) - 1 = n /\ n \in 0..N
    BY <1>1
  <2> DEFINE s == Read(lines)[n]
             l == lines[n + 1]
  <2>2. /\ Read(lines)[n + 1] = AfterLine(s, l) /\ s \in Seq(Item) /\ l \in Line
        /\ Within(s, 0) /\ (l.type = "item" => l.item.n > 0)
    BY <1>1, <1>2, <1>4, <2>1 DEF Numbered
  <2> HIDE DEF s, l
  <2>3. CASE l.type = "item"
    <3>1. l.item \in Item
      BY <2>2, <2>3 DEF Line
    <3>2. Within(Append(s, l.item), 0)
      BY <2>2, <2>3, <3>1, WithinAppend
    <3> QED BY <2>1, <2>2, <2>3, <3>2 DEF AfterLine
  <2>4. CASE l.type # "item"
    BY <2>1, <2>2, <2>4 DEF AfterLine
  <2> QED BY <2>3, <2>4
<1>5. N \in P
  <2> HIDE DEF P
  <2>1. 0..N \subseteq P
    BY <1>1, <1>3, <1>4, Induction
  <2> QED BY <1>1, <2>1
<1> QED BY <1>1, <1>2, <1>5

LEMMA Latest ==
  ASSUME NEW N \in Nat, NEW T \in SUBSET (1..N), T # {}
  PROVE  \E i \in T : \A j \in T : j <= i
<1> DEFINE Less == OpToRel(<, Nat)
           Back == {N - i : i \in T}
<1>1. /\ Back \subseteq Nat /\ Back # {}
      /\ \A x, y \in Nat : y < x => <<y, x>> \in Less
  <2>1. \A x, y \in Nat : y < x => <<y, x>> \in Less
    BY DEF OpToRel
  <2>2. \A i \in T : N - i \in Nat
    OBVIOUS
  <2>3. Back \subseteq Nat
    BY <2>2
  <2>4. Back # {}
    OBVIOUS
  <2> QED BY <2>1, <2>3, <2>4
<1>2. IsWellFoundedOn(Less, Nat)
  BY NatLessThanWellFounded
<1> HIDE DEF Less
<1>3. PICK x \in Back : \A y \in Back : ~(<<y, x>> \in Less)
  <2> HIDE DEF Back
  <2> QED BY <1>1, <1>2, WFMin
<1>4. PICK i \in T : x = N - i
  BY <1>3
<1>5. ASSUME NEW j \in T
      PROVE  j <= i
  <2>1. N - j \in Back /\ N - j \in Nat /\ x \in Nat
    BY <1>1, <1>3
  <2>2. ~(N - j < x)
    BY <1>1, <1>3, <2>1
  <2> QED BY <1>4, <2>2
<1> QED BY <1>5

LEMMA LastHandleNumbered ==
  ASSUME NEW lines \in Seq(Line), Numbered(lines)
  PROVE  /\ LastHandle(lines) \in Handle \cup {None}
         /\ LastHandle(lines) # None => Within(LastHandle(lines).covers, 0)
<1> DEFINE handles == {i \in DOMAIN lines : lines[i].type = "handle"}
           last == CHOOSE i \in handles : \A j \in handles : j <= i
<1>1. DOMAIN lines = 1..Len(lines) /\ Len(lines) \in Nat /\ \A i \in 1..Len(lines) : lines[i] \in Line
  BY LenProperties
<1>2. LastHandle(lines) = IF handles = {} THEN None ELSE lines[last].handle
  BY DEF LastHandle
<1>3. handles # {} => last \in handles
  BY <1>1, Latest
<1>4. \A i \in handles : lines[i].handle \in Handle /\ Within(lines[i].handle.covers, 0)
  BY <1>1 DEF Line, Numbered
<1> HIDE DEF handles, last
<1> QED BY <1>2, <1>3, <1>4

-----------------------------------------------------------------------------
(***************************************************************************)
(* A step of the run.                                                      *)
(***************************************************************************)
LEMMA LineOfItem ==
  ASSUME NEW item \in Item
  PROVE  ItemLine(item) \in Line /\ ItemLine(item).type = "item" /\ ItemLine(item).item = item
BY DEF ItemLine, Line

LEMMA LineOfHandle ==
  ASSUME NEW h \in Handle
  PROVE  HandleLine(h) \in Line /\ HandleLine(h).type = "handle" /\ HandleLine(h).handle = h
BY DEF HandleLine, Line

\* The types of the runner, among those of the chat.
LEMMA RunTypes ==
  ASSUME TypeOK
  PROVE  /\ history \in Seq(Item) /\ handle \in Handle \cup {None}
         /\ provider \in Providers /\ conv \in Convs \cup {None} /\ convs \in [Convs -> Seq(Item)]
         /\ rollout \in Seq(Line) /\ made \in Nat /\ pc \in Stages
BY DEF TypeOK, Line

\* What the model sees is not older than the reset.
LEMMA SeenWithin ==
  ASSUME Core, ChatTypes, LeakInv, pc = "request"
  PROVE  Seen(request) \in Seq(Item) /\ Within(Seen(request), resetAt)
<1>1. /\ request \in Request /\ request.handle = handle /\ request.messages = Pending
      /\ TypeOK /\ resetAt \in Nat /\ history \in Seq(Item) /\ delivered \in Nat
  BY DEF Core, RequestInv, ChatTypes, TypeOK
<1>2. Context(handle) \in Seq(Item) /\ Pending \in Seq(Item)
  BY <1>1, SeenType, PendingType
<1>3. Within(Pending, resetAt)
  BY <1>1, WithinRest DEF LeakInv, Pending
<1>4. Within(ConvContent(handle), resetAt)
  BY WithinEmpty DEF ConvContent, ConvUsed, LeakInv, HandleWithin
<1>5. ConvContent(handle) \in Seq(Item)
  BY <1>1, EmptySeq DEF ConvContent, ConvUsed, TypeOK, Handle
<1>6. handle # None => handle.covers \in Seq(Item) /\ Within(handle.covers, resetAt)
  BY DEF ChatTypes, Handle, LeakInv, HandleWithin
<1>7. Within(Context(handle), resetAt)
  BY <1>1, <1>4, <1>5, <1>6, WithinJoined DEF Context
<1>8. Seen(request) = Context(handle) \o Pending
  BY <1>1 DEF Seen
<1> QED BY <1>1, <1>2, <1>3, <1>7, <1>8, WithinJoined

\* Conversations that grow with what is new leave handles as they were.
LEMMA HandlesKept ==
  ASSUME NEW low \in Nat, NEW h \in Handle \cup {None}, HandleWithin(h, low),
         \A c \in Convs : Within(convs[c], low) => Within(convs'[c], low)
  PROVE  h # None => Within(h.covers, low) /\ (h.conv # None => Within(convs'[h.conv], low))
BY DEF HandleWithin, Handle

\* A step that leaves alone what handles refer to.
LEMMA LeakKept ==
  ASSUME LeakInv, UNCHANGED <<handle, convs, conv, chatHistory, chatHandle, compacted, resetAt>>,
         Within(history', resetAt)
  PROVE  LeakInv'
BY DEF LeakInv, HandleWithin

\* One more item, in the history and on file.
LEMMA OneMoreWithin ==
  ASSUME TypeOK, ChatTypes, LeakInv, KeptInv, NEW kind \in ItemKinds
  PROVE  /\ NewItem(kind) \in Item /\ NewItem(kind).n = made + 1
         /\ Within(Append(history, NewItem(kind)), resetAt)
         /\ Numbered(Append(rollout, ItemLine(NewItem(kind))))
<1>1. NewItem(kind) \in Item /\ NewItem(kind).n = made + 1
  BY ItemType DEF NewItem
<1>2. /\ resetAt \in Nat /\ made \in Nat /\ resetAt <= made /\ history \in Seq(Item) /\ rollout \in Seq(Line)
      /\ Within(history, resetAt) /\ Numbered(rollout)
  BY DEF ChatTypes, LeakInv, KeptInv
<1> DEFINE item == NewItem(kind)
<1>3. ItemLine(item) \in Line /\ ItemLine(item).type = "item" /\ ItemLine(item).item = item
  BY <1>1, LineOfItem
<1>4. item.n > resetAt /\ item.n > 0 /\ item \in Item
  BY <1>1, <1>2
<1> HIDE DEF item
<1>5. Within(Append(history, item), resetAt)
  BY <1>2, <1>4, WithinAppend
<1>6. Numbered(Append(rollout, ItemLine(item)))
  BY <1>2, <1>3, <1>4, NumberedAppend
<1> QED BY <1>1, <1>5, <1>6 DEF item

\* The new handle and its conversation hold what was seen, and the answer.
LEMMA AnswerWithin ==
  ASSUME Core, ChatTypes, LeakInv, KeptInv, UNCHANGED chatVars,
         NEW answer \in Answers, Answer(answer)
  PROVE  LeakInv' /\ KeptInv' /\ made' >= made
<1> DEFINE kind == IF answer.calls = <<>> THEN "text" ELSE "calls"
           item == NewItem(kind)
           seen == Append(Seen(request), item)
           new == NewHandle(request, seen)
<1>1. /\ history' = Append(history, item) /\ handle' = new /\ pc = "request" /\ made' = made + 1
      /\ convs' = (IF new.conv = None THEN convs ELSE [convs EXCEPT ![new.conv] = seen])
      /\ rollout' = Append(rollout, HandleLine(new))
      /\ UNCHANGED <<provider, conv, chatHistory, chatHandle, compacted, resetAt>>
  BY DEF Answer, chatVars
<1>2. /\ TypeOK /\ request \in Request /\ kind \in ItemKinds /\ resetAt \in Nat /\ made \in Nat
      /\ resetAt <= made
  BY <1>1 DEF Core, RequestInv, ItemKinds, ChatTypes
<1>3. /\ item \in Item /\ item.n = made + 1 /\ Within(Append(history, item), resetAt)
  <2> HIDE DEF kind
  <2> QED BY <1>2, OneMoreWithin
<1>4. seen \in Seq(Item) /\ Within(seen, resetAt)
  <2>1. Seen(request) \in Seq(Item) /\ Within(Seen(request), resetAt)
    BY <1>1, SeenWithin
  <2> HIDE DEF item
  <2> QED BY <1>2, <1>3, <2>1, WithinAppend
<1> HIDE DEF kind, item, seen
<1>5. Within(seen, 0)
  BY <1>2, <1>4, WithinLower
<1>6. new \in Handle /\ new.covers = seen /\ new.conv \in Convs \cup {None}
  BY <1>2, <1>4, SeenType DEF NewHandle, Handle
<1> HIDE DEF new
<1>7. /\ \A c \in Convs : Within(convs[c], resetAt) => Within(convs'[c], resetAt)
      /\ \A c \in Convs : Within(convs'[c], 0)
      /\ new.conv # None => convs'[new.conv] = seen
  BY <1>1, <1>2, <1>4, <1>5, <1>6 DEF TypeOK, KeptInv
<1>8. Numbered(rollout')
  <2>1. HandleLine(new) \in Line /\ HandleLine(new).type = "handle" /\ HandleLine(new).handle = new
    BY <1>6, LineOfHandle
  <2>2. rollout \in Seq(Line) /\ Numbered(rollout)
    BY DEF ChatTypes, KeptInv
  <2> QED BY <1>1, <1>5, <1>6, <2>1, <2>2, NumberedAppend
<1>9. /\ chatHandle \in Handle \cup {None} /\ compacted \in Handle \cup {None}
      /\ HandleWithin(chatHandle, resetAt) /\ HandleWithin(compacted, resetAt)
  BY DEF ChatTypes, LeakInv
<1>10. HandleWithin(chatHandle, resetAt)' /\ HandleWithin(compacted, resetAt)'
  BY <1>1, <1>2, <1>7, <1>9, HandlesKept DEF HandleWithin
<1>11. HandleWithin(handle, resetAt)'
  BY <1>1, <1>4, <1>6, <1>7 DEF HandleWithin
<1>12. conv' # None => Within(convs'[conv'], resetAt)
  BY <1>1, <1>2, <1>7 DEF LeakInv, TypeOK
<1>13. LeakInv'
  BY <1>1, <1>3, <1>10, <1>11, <1>12 DEF LeakInv
<1> QED BY <1>1, <1>2, <1>7, <1>8, <1>13 DEF KeptInv

LEMMA ResumeWithin ==
  ASSUME Core, ChatTypes, LeakInv, KeptInv, UNCHANGED chatVars, ResumeFails
  PROVE  LeakInv' /\ KeptInv' /\ made' >= made
<1> DEFINE fallback == ConversationFallback(request.handle)
<1>1. /\ handle' = fallback /\ request.handle = handle /\ handle # None /\ handle \in Handle
      /\ UNCHANGED <<convs, conv, history, rollout, made, chatHistory, chatHandle, compacted, resetAt>>
  BY DEF ResumeFails, Core, RequestInv, ChatTypes, chatVars
<1>2. HandleWithin(fallback, resetAt)
  BY <1>1, WithinEmpty DEF ConversationFallback, HandleWithin, LeakInv
<1>3. HandleWithin(handle, resetAt)'
  <2> HIDE DEF fallback
  <2> QED BY <1>1, <1>2 DEF HandleWithin
<1>4. LeakInv' /\ KeptInv'
  BY <1>1, <1>3 DEF LeakInv, KeptInv, HandleWithin
<1> QED BY <1>1, <1>4 DEF ChatTypes

LEMMA RecoveryWithin ==
  ASSUME Core, CallsInv, ChatTypes, LeakInv, KeptInv, UNCHANGED chatVars, AppendRecovery
  PROVE  LeakInv' /\ KeptInv' /\ made' >= made
<1>1. /\ ReadItems \in Seq(Item) /\ Len(ReadItems) = Reads /\ Reads \in Nat
      /\ ReadLines \in Seq(Line) /\ Len(ReadLines) = Reads
      /\ \A i \in 1..Reads : ReadLines[i] = ItemLine(ReadItems[i])
  BY ReadsType DEF Core, CallsInv, AppendRecovery
<1>2. /\ history' = history \o ReadItems /\ rollout' = rollout \o ReadLines /\ made' = made + Reads
      /\ UNCHANGED <<handle, convs, conv, chatHistory, chatHandle, compacted, resetAt>>
  BY RecoveryType DEF AppendRecovery, Reads, chatVars
<1>3. /\ resetAt \in Nat /\ made \in Nat /\ resetAt <= made /\ history \in Seq(Item)
      /\ rollout \in Seq(Line) /\ Numbered(rollout) /\ Within(history, resetAt)
  BY DEF ChatTypes, KeptInv, LeakInv
<1>4. \A i \in 1..Reads : ReadItems[i].n = made + i /\ made + i > resetAt /\ made + i > 0
  BY <1>1, <1>3 DEF ReadItems
<1>5. Within(ReadItems, resetAt)
  BY <1>1, <1>4 DEF Within
<1>6. Within(history', resetAt)
  BY <1>1, <1>2, <1>3, <1>5, WithinJoined
<1>7. Numbered(rollout')
  <2> DEFINE joined == rollout \o ReadLines
  <2>0. /\ joined \in Seq(Line) /\ Len(joined) = Len(rollout) + Len(ReadLines)
        /\ \A i \in 1..Len(rollout) : joined[i] = rollout[i]
        /\ \A i \in Len(rollout) + 1..Len(rollout) + Len(ReadLines) :
             joined[i] = ReadLines[i - Len(rollout)]
    BY <1>1, <1>3, Joined
  <2> HIDE DEF joined
  <2>1. /\ Len(joined) = Len(rollout) + Reads /\ Len(rollout) \in Nat
        /\ \A i \in 1..Len(rollout) : joined[i] = rollout[i]
        /\ \A i \in Len(rollout) + 1..Len(rollout) + Reads : joined[i] = ReadLines[i - Len(rollout)]
    BY <1>1, <1>3, <2>0, LenProperties
  <2>2. \A i \in 1..Len(rollout) + Reads :
          \/ i \in 1..Len(rollout)
          \/ i \in Len(rollout) + 1..Len(rollout) + Reads /\ i - Len(rollout) \in 1..Reads
    BY <1>1, <2>1
  <2>3. \A i \in 1..Reads : ReadLines[i].type = "item" /\ ReadLines[i].item.n > 0
    BY <1>1, <1>4 DEF ItemLine
  <2>4. Numbered(joined)
    BY <1>3, <2>1, <2>2, <2>3 DEF Numbered
  <2> QED BY <1>2, <2>4 DEF joined
<1>8. LeakInv'
  BY <1>2, <1>6, LeakKept
<1> QED BY <1>1, <1>2, <1>3, <1>7, <1>8 DEF KeptInv

LEMMA RunWithin ==
  ASSUME Core, CallsInv, ChatTypes, LeakInv, KeptInv, UNCHANGED chatVars, RunnerStep
  PROVE  LeakInv' /\ KeptInv' /\ made' >= made
<1>1. /\ TypeOK /\ made \in Nat /\ Within(history, resetAt) /\ resetAt \in Nat
      /\ UNCHANGED <<chatHistory, chatHandle, compacted, resetAt>>
  BY DEF Core, ChatTypes, LeakInv, chatVars
<1>2. CASE UNCHANGED <<history, handle, convs, conv, rollout, made>>
  BY <1>1, <1>2, LeakKept DEF KeptInv
<1>3. CASE \E kind \in ItemKinds : /\ history' = Append(history, NewItem(kind)) /\ made' = made + 1
                                   /\ rollout' \in {rollout, Append(rollout, ItemLine(NewItem(kind)))}
                                   /\ UNCHANGED <<handle, convs, conv>>
  <2>1. PICK kind \in ItemKinds : /\ history' = Append(history, NewItem(kind)) /\ made' = made + 1
                                  /\ rollout' \in {rollout, Append(rollout, ItemLine(NewItem(kind)))}
                                  /\ UNCHANGED <<handle, convs, conv>>
    BY <1>3
  <2>2. /\ Within(Append(history, NewItem(kind)), resetAt)
        /\ Numbered(Append(rollout, ItemLine(NewItem(kind))))
    BY <1>1, <2>1, OneMoreWithin
  <2>3. Within(history', resetAt) /\ Numbered(rollout')
    BY <1>1, <2>1, <2>2 DEF KeptInv
  <2> QED BY <1>1, <2>1, <2>3, LeakKept DEF KeptInv
<1>4. CASE Nudge \/ AppendResults \/ AppendFeedback \/ AppendAdvice
  <2>1. \/ UNCHANGED <<history, handle, convs, conv, rollout, made>>
        \/ \E kind \in {"nudge", "results", "feedback", "advice"} :
             /\ history' = Append(history, NewItem(kind)) /\ made' = made + 1
             /\ rollout' \in {rollout, Append(rollout, ItemLine(NewItem(kind)))}
             /\ UNCHANGED <<handle, convs, conv>>
    BY <1>4 DEF Nudge, AppendResults, AppendFeedback, AppendAdvice, Append1
  <2> QED BY <1>2, <1>3, <2>1 DEF ItemKinds
<1>5. CASE PersistAssistant
  <2> DEFINE last == history[Len(history)]
  <2>1. /\ rollout' = Append(rollout, ItemLine(last))
        /\ UNCHANGED <<history, handle, convs, conv, made>>
    BY <1>5 DEF PersistAssistant
  <2>2. Len(history) \in 1..Len(history) /\ last \in Item /\ last.n > resetAt
    <3>1. history \in Seq(Item) /\ history # <<>>
      BY DEF Core, TypeOK
    <3>2. Len(history) \in 1..Len(history) /\ last \in Item
      BY <3>1, LenProperties, EmptySeq
    <3> QED BY <1>1, <3>2 DEF Within
  <2> HIDE DEF last
  <2>3. last.n > 0
    BY <1>1, <2>2 DEF Item
  <2>4. Numbered(Append(rollout, ItemLine(last)))
    <3>1. rollout \in Seq(Line) /\ Numbered(rollout)
      BY DEF ChatTypes, KeptInv
    <3>2. ItemLine(last) \in Line /\ ItemLine(last).type = "item" /\ ItemLine(last).item = last
      BY <2>2, LineOfItem
    <3> QED BY <2>3, <3>1, <3>2, NumberedAppend
  <2> QED BY <1>1, <2>1, <2>4, LeakKept DEF KeptInv
<1>6. CASE StopAtTop \/ SendRequest \/ GenerateFails \/ StreamCut \/ EndTurn
           \/ \E n \in 1..MaxCalls, fb \in Feedbacks : \E calls \in [1..n -> Call] : RunBatch(calls, fb)
  BY <1>2, <1>6 DEF StopAtTop, SendRequest, GenerateFails, StreamCut, EndTurn, RunBatch, Stop
<1> QED BY <1>4, <1>5, <1>6, AnswerWithin, ResumeWithin, RecoveryWithin DEF RunnerStep

\* Only a run that is on takes a step.
LEMMA StepRuns == RunnerStep => pc \in Running /\ pc \notin Waiting
BY DEF RunnerStep, Running, Waiting, Stages, StopAtTop, SendRequest, ResumeFails, GenerateFails,
   StreamCut, Answer, PersistAssistant, Nudge, EndTurn, RunBatch, AppendResults, AppendFeedback,
   AppendRecovery, AppendAdvice

LEMMA RunChat ==
  ASSUME ChatInv, RunStep
  PROVE  ChatInv'
<1>1. RunnerStep /\ UNCHANGED chatVars /\ ChatTypes /\ LeakInv /\ KeptInv /\ RunInv
  BY DEF RunStep, ChatInv
<1>2. pc \in Running /\ pc \notin Waiting
  BY <1>1, StepRuns
<1>3. Core /\ CallsInv /\ compacted = None
  BY <1>1, <1>2 DEF RunInv, Waiting
<1>4. Core' /\ CallsInv'
  BY <1>1, <1>3, CoreStep DEF Next
<1>5. LeakInv' /\ KeptInv' /\ made' >= made
  BY <1>1, <1>3, RunWithin
<1>6. /\ history' \in Seq(Item) /\ handle' \in Handle \cup {None}
      /\ provider' \in Providers /\ conv' \in Convs \cup {None} /\ convs' \in [Convs -> Seq(Item)]
      /\ rollout' \in Seq(Line) /\ made' \in Nat /\ pc' \in Stages /\ pc' # "idle"
  BY <1>4 DEF Core, TypeOK, Line
<1>7. ChatTypes'
  BY <1>1, <1>5, <1>6 DEF ChatTypes, chatVars
<1>8. RunInv'
  BY <1>1, <1>3, <1>4, <1>6 DEF RunInv, Running, Stages, chatVars
<1> QED BY <1>5, <1>7, <1>8 DEF ChatInv

-----------------------------------------------------------------------------
(***************************************************************************)
(* The steps of the chat.                                                  *)
(***************************************************************************)
\* A run starts with the invariant of TurnRunner.
LEMMA StartCore ==
  ASSUME chatHistory \in Seq(Item), chatHistory # <<>>, chatHandle \in Handle \cup {None},
         chatDelivered \in Nat, Start(chatHistory, chatHandle, chatDelivered),
         provider' \in Providers, conv' \in Convs \cup {None}, convs' \in [Convs -> Seq(Item)],
         rollout' \in Seq(Line), made' \in Nat
  PROVE  Core' /\ CallsInv' /\ Answered' = {}
<1>1. /\ history' = chatHistory /\ seeded' = Len(chatHistory) /\ handle' = chatHandle
      /\ delivered' \in 0..Len(chatHistory) /\ pc' = "loop" /\ Renewed
      /\ Len(chatHistory) \in Nat
  <2>1. Len(chatHistory) \in Nat
    BY LenProperties
  <2> QED BY <2>1 DEF Start
<1>2. TypeOK'
  <2>1. log' \in Seq(Logged) /\ reply' \in Reply /\ reply' = NoReply
    BY <1>1, EmptySeq DEF Renewed, NoReply, Reply
  <2>2. badArgs' \in [Tools -> [signature : Signatures, count : Nat] \cup {None}]
    BY <1>1 DEF Renewed
  <2>3. /\ seeded' \in 0..Len(history') /\ turnsRun' \in 0..MaxTurns /\ strikes' \in 0..MaxStrikes
        /\ patchFails' \in Nat
    BY <1>1, LimitsAssumption DEF Renewed
  <2>4. /\ request' = None /\ force' \in BOOLEAN /\ aborted' \in BOOLEAN /\ suppressed' = {}
        /\ searches' \in [count : Nat, advised : BOOLEAN]
    BY <1>1 DEF Renewed
  <2>5. feedback' \in Feedbacks /\ pc' \in Stages /\ reason' \in Reasons
    BY <1>1, ModesAssumption DEF Renewed, Stages, Reasons
  <2> QED BY <1>1, <2>1, <2>2, <2>3, <2>4, <2>5 DEF TypeOK, Line
<1>3. Answered' = {} /\ Talk' = {}
  BY <1>1 DEF Answered, Talk
<1>4. Cardinality(Answered') = 0 /\ Cardinality(Talk') = 0
  BY <1>3, FS_EmptySet
<1>5. RequestInv' /\ CallsInv'
  BY <1>1 DEF RequestInv, CallsInv
<1>6. TurnInv'
  BY <1>1, <1>4 DEF TurnInv, Renewed
<1>7. StrikeInv'
  BY <1>1, <1>4, LimitsAssumption DEF StrikeInv, LoopEarned, Renewed
<1> QED BY <1>1, <1>2, <1>3, <1>5, <1>6, <1>7 DEF Core

\* A conversation that is made sure of is new, or the one there was.
LEMMA CreatedWithin ==
  ASSUME ChatTypes, KeptInv, NEW c \in Unused \cup {None}, CreateConversation(c), conv' \in {conv, c},
         conv # None => Within(convs[conv], resetAt)
  PROVE  /\ conv' \in Convs \cup {None} /\ (conv' # None => Within(convs[conv'], resetAt))
         /\ rollout' \in Seq(Line) /\ Numbered(rollout')
<1>1. CASE c = None
  BY <1>1 DEF CreateConversation, ChatTypes, KeptInv
<1>2. CASE c # None
  <2> DEFINE h == ConversationHandle(c)
  <2>1. c \in Convs /\ convs[c] = <<>>
    BY <1>2 DEF Unused
  <2>2. h \in Handle /\ Within(h.covers, 0)
    BY <2>1, WithinEmpty, EmptySeq DEF ConversationHandle, Handle
  <2>3. rollout' = Append(rollout, HandleLine(h)) /\ rollout \in Seq(Line) /\ Numbered(rollout)
    BY <1>2 DEF CreateConversation, ChatTypes, KeptInv
  <2> HIDE DEF h
  <2>4. HandleLine(h) \in Line /\ HandleLine(h).type = "handle" /\ HandleLine(h).handle = h
    BY <2>2, LineOfHandle
  <2>5. rollout' \in Seq(Line) /\ Numbered(rollout')
    BY <2>2, <2>3, <2>4, NumberedAppend
  <2>6. conv' # None => Within(convs[conv'], resetAt)
    BY <2>1, WithinEmpty
  <2> QED BY <2>1, <2>5, <2>6 DEF ChatTypes
<1> QED BY <1>1, <1>2

LEMMA EnsureChat ==
  ASSUME ChatInv, NEW c \in Unused \cup {None}, EnsureConversation(c)
  PROVE  ChatInv'
<1>1. ChatTypes /\ RunInv /\ LeakInv /\ KeptInv
  BY DEF ChatInv
<1>2. /\ pc = "ensure" /\ compacted = None
      /\ UNCHANGED <<provider, convs, made, chatHistory, chatHandle, chatDelivered, after, compacted,
                     resetAt, messages, commands>>
  BY <1>1 DEF EnsureConversation, RunInv
<1>3. /\ conv' \in Convs \cup {None} /\ (conv' # None => Within(convs[conv'], resetAt))
      /\ rollout' \in Seq(Line) /\ Numbered(rollout')
  <2>1. CASE UNCHANGED <<conv, rollout>>
    BY <1>1, <2>1 DEF ChatTypes, LeakInv, KeptInv
  <2>2. CASE CreateConversation(c)
    <3>1. conv' \in {conv, c}
      BY <2>2 DEF CreateConversation
    <3> QED BY <1>1, <2>2, <3>1, CreatedWithin DEF LeakInv
  <2> QED BY <2>1, <2>2 DEF EnsureConversation
<1>4. KeptInv'
  BY <1>1, <1>2, <1>3 DEF KeptInv
<1>5. CASE after = "run"
  <2>1. Start(chatHistory, chatHandle, chatDelivered) /\ chatHistory # <<>>
    BY <1>1, <1>2, <1>5 DEF EnsureConversation, RunInv
  <2>2. Core' /\ CallsInv'
    BY <1>1, <1>2, <1>3, <2>1, StartCore DEF ChatTypes
  <2>3. history' = chatHistory /\ handle' = chatHandle /\ pc' = "loop"
    BY <2>1 DEF Start
  <2>4. ChatTypes'
    BY <1>1, <1>2, <1>3, <2>3 DEF ChatTypes
  <2>5. RunInv'
    BY <1>2, <2>2, <2>3 DEF RunInv, Running, Stages
  <2>6. LeakInv'
    BY <1>1, <1>2, <1>3, <2>3 DEF LeakInv, HandleWithin
  <2> QED BY <1>4, <2>4, <2>5, <2>6 DEF ChatInv
<1>6. CASE after # "run"
  <2>1. pc' = "idle" /\ UNCHANGED <<history, handle>>
    BY <1>6 DEF EnsureConversation, runState
  <2>2. ChatTypes'
    BY <1>1, <1>2, <1>3, <2>1 DEF ChatTypes
  <2>3. RunInv'
    BY <1>1, <1>2, <2>1 DEF RunInv, Running, Waiting, Stages
  <2>4. LeakInv'
    BY <1>1, <1>2, <1>3, <2>1 DEF LeakInv, HandleWithin
  <2> QED BY <1>4, <2>2, <2>3, <2>4 DEF ChatInv
<1> QED BY <1>5, <1>6

LEMMA MessageChat ==
  ASSUME ChatInv, Message
  PROVE  ChatInv'
<1>1. ChatTypes /\ RunInv /\ LeakInv /\ KeptInv
  BY DEF ChatInv
<1> DEFINE item == NewItem("user")
<1>2. /\ pc = "idle" /\ pc' = "ensure" /\ made' = made + 1
      /\ chatHistory' = Append(chatHistory, item) /\ rollout' = Append(rollout, ItemLine(item))
      /\ UNCHANGED <<history, handle, provider, conv, convs, chatHandle, chatDelivered, compacted, resetAt>>
  BY DEF Message, runState
<1>3. item \in Item /\ item.n = made + 1
  BY <1>1 DEF NewItem, Item, ItemKinds, ChatTypes
<1>4. item.n > resetAt /\ item.n > 0 /\ made' \in Nat /\ resetAt <= made' /\ resetAt \in Nat
  BY <1>1, <1>2, <1>3 DEF ChatTypes
<1> HIDE DEF item
<1>5. /\ chatHistory \in Seq(Item) /\ Within(chatHistory, resetAt)
      /\ rollout \in Seq(Line) /\ Numbered(rollout)
  BY <1>1 DEF ChatTypes, LeakInv, KeptInv
<1>6. Append(chatHistory, item) \in Seq(Item) /\ Within(Append(chatHistory, item), resetAt)
  BY <1>3, <1>4, <1>5, WithinAppend
<1>7. Append(rollout, ItemLine(item)) \in Seq(Line) /\ Numbered(Append(rollout, ItemLine(item)))
  <2>1. ItemLine(item) \in Line /\ ItemLine(item).type = "item" /\ ItemLine(item).item = item
    BY <1>3, LineOfItem
  <2> QED BY <1>3, <1>4, <1>5, <2>1, NumberedAppend
<1>8. Append(chatHistory, item) # <<>>
  BY <1>3, <1>5, AppendProperties
<1>9. ChatTypes'
  BY <1>1, <1>2, <1>4, <1>6, <1>7 DEF ChatTypes
<1>10. RunInv'
  BY <1>1, <1>2, <1>8 DEF RunInv, Running, Waiting, Stages
<1>11. LeakInv'
  BY <1>1, <1>2, <1>6 DEF LeakInv, HandleWithin
<1>12. KeptInv'
  BY <1>1, <1>2, <1>7 DEF KeptInv
<1> QED BY <1>9, <1>10, <1>11, <1>12 DEF ChatInv

\* Between runs the invariant is about the chat alone.
LEMMA WaitingChat ==
  ASSUME history' = <<>>, handle' = None, pc' \in Waiting, ~(pc' = "ensure" /\ after' = "run"),
         pc' \in {"compact", "install"} <=> compacted' # None,
         chatHistory' \in Seq(Item), Within(chatHistory', resetAt'),
         chatHandle' \in Handle \cup {None}, HandleWithin(chatHandle, resetAt)', chatDelivered' \in Nat,
         compacted' \in Handle \cup {None}, HandleWithin(compacted, resetAt)',
         resetAt' \in Nat, made' \in Nat, resetAt' <= made',
         provider' \in Providers, conv' \in Convs \cup {None}, convs' \in [Convs -> Seq(Item)],
         conv' # None => Within(convs'[conv'], resetAt'),
         rollout' \in Seq(Line), KeptInv'
  PROVE  ChatInv'
<1>1. ChatTypes'
  BY EmptySeq DEF ChatTypes
<1>2. RunInv'
  BY DEF RunInv, Running, Waiting, Stages
<1>3. HandleWithin(handle, resetAt)' /\ Within(history', resetAt')
  BY WithinEmpty DEF HandleWithin
<1>4. LeakInv'
  BY <1>3 DEF LeakInv
<1> QED BY <1>1, <1>2, <1>4 DEF ChatInv

LEMMA HandleConversation ==
  ASSUME ChatTypes, NEW h \in Handle \cup {None}, HandleWithin(h, resetAt), SyncConversation(h)
  PROVE  conv' \in Convs \cup {None} /\ (conv' # None => Within(convs[conv'], resetAt))
BY DEF SyncConversation, HandleWithin, Handle

\* The part of the state that none of the commands touches.
LEMMA Untouched ==
  ASSUME ChatInv, UNCHANGED <<convs, rollout, made>>
  PROVE  /\ convs' \in [Convs -> Seq(Item)] /\ rollout' \in Seq(Line) /\ made' \in Nat /\ KeptInv'
BY DEF ChatInv, ChatTypes, KeptInv

LEMMA EndChat ==
  ASSUME ChatInv, EndRun
  PROVE  ChatInv'
<1>1. ChatTypes /\ LeakInv /\ RunInv /\ KeptInv
  BY DEF ChatInv
<1>2. /\ pc = "done" /\ pc' = "idle" /\ history' = <<>> /\ handle' = None
      /\ UNCHANGED <<provider, convs, rollout, made, after, compacted, resetAt>>
  BY DEF EndRun, Rest
<1>3. compacted = None
  BY <1>1, <1>2 DEF RunInv
<1>4. /\ chatHistory' \in Seq(Item) /\ Within(chatHistory', resetAt)
      /\ chatHandle' \in Handle \cup {None} /\ HandleWithin(chatHandle', resetAt)
      /\ chatDelivered' \in Nat
      /\ conv' \in Convs \cup {None} /\ (conv' # None => Within(convs[conv'], resetAt))
  <2>1. CASE reason = "thrown"
    BY <1>1, <2>1 DEF EndRun, ChatTypes, LeakInv
  <2>2. CASE reason # "thrown"
    <3> DEFINE rest == SubSeq(history, Len(chatHistory) + 1, Len(history))
    <3>1. /\ chatHistory' = chatHistory \o rest /\ chatHandle' = handle /\ SyncConversation(handle)
          /\ chatDelivered' = DeliveredBy(chatHistory', handle)
      BY <2>2 DEF EndRun
    <3>2. /\ chatHistory \in Seq(Item) /\ Within(chatHistory, resetAt) /\ resetAt \in Nat
          /\ history \in Seq(Item) /\ Within(history, resetAt) /\ Len(chatHistory) \in Nat
      BY <1>1, LenProperties DEF ChatTypes, LeakInv
    <3>3. rest \in Seq(Item) /\ Within(rest, resetAt)
      BY <3>2, WithinRest
    <3> HIDE DEF rest
    <3>4. chatHistory' \in Seq(Item) /\ Within(chatHistory', resetAt)
      BY <3>1, <3>2, <3>3, WithinJoined
    <3>5. chatDelivered' \in Nat
      BY <3>1, <3>4, LenProperties DEF DeliveredBy
    <3> QED BY <1>1, <3>1, <3>4, <3>5, HandleConversation DEF ChatTypes, LeakInv
  <2> QED BY <2>1, <2>2
<1>5. HandleWithin(chatHandle, resetAt)' /\ HandleWithin(compacted, resetAt)'
  BY <1>2, <1>3, <1>4 DEF HandleWithin
<1> QED BY <1>1, <1>2, <1>3, <1>4, <1>5, WaitingChat, Untouched DEF Waiting, ChatTypes

LEMMA ForgetChat ==
  ASSUME ChatInv, ForgetContext, history' = <<>>, handle' = None, pc' \in {"ensure", "down"},
         after' = "idle", compacted' = None, provider' \in Providers,
         resetAt' \in {made, resetAt}, UNCHANGED <<convs, rollout, made>>
  PROVE  ChatInv'
<1>1. chatHistory' = <<>> /\ chatHandle' = None /\ chatDelivered' = 0 /\ conv' = None
  BY DEF ForgetContext, SyncConversation
<1>2. /\ HandleWithin(chatHandle, resetAt)' /\ HandleWithin(compacted, resetAt)'
      /\ Within(chatHistory', resetAt') /\ chatHistory' \in Seq(Item)
  BY <1>1, WithinEmpty, EmptySeq DEF HandleWithin
<1>3. resetAt' \in Nat /\ resetAt' <= made'
  BY DEF ChatInv, ChatTypes
<1> QED BY <1>1, <1>2, <1>3, WaitingChat, Untouched DEF Waiting

LEMMA ResetChat ==
  ASSUME ChatInv, NEW name, NEW p \in Providers, Reset(name, p)
  PROVE  ChatInv'
<1>1. /\ pc = "idle" /\ pc' = "ensure" /\ after' = "idle" /\ provider' = p /\ resetAt' = made
      /\ ForgetContext /\ UNCHANGED <<history, handle, convs, rollout, made, compacted>>
  BY DEF Reset, Command, runState
<1>2. history = <<>> /\ handle = None /\ compacted = None
  BY <1>1 DEF ChatInv, RunInv, Running
<1> QED BY <1>1, <1>2, ForgetChat

LEMMA DownChat ==
  ASSUME ChatInv, GoDown
  PROVE  ChatInv'
<1>1. /\ pc' = "down" /\ after' = "idle" /\ compacted' = None /\ history' = <<>> /\ handle' = None
      /\ ForgetContext /\ UNCHANGED <<provider, convs, rollout, made, resetAt>>
  BY DEF GoDown, Rest
<1>2. provider' \in Providers
  BY <1>1 DEF ChatInv, ChatTypes
<1> QED BY <1>1, <1>2, ForgetChat

LEMMA ClearChat ==
  ASSUME ChatInv, Clear
  PROVE  ChatInv'
<1>1. /\ pc = "idle" /\ chatHistory' = <<>>
      /\ UNCHANGED <<pc, history, handle, provider, conv, convs, rollout, made, chatHandle,
                     chatDelivered, after, compacted, resetAt>>
  BY DEF Clear, Command, runVars
<1>2. ChatTypes /\ LeakInv /\ RunInv /\ KeptInv
  BY DEF ChatInv
<1>3. history = <<>> /\ handle = None /\ compacted = None
  BY <1>1, <1>2 DEF RunInv, Running
<1>4. chatHistory' \in Seq(Item) /\ Within(chatHistory', resetAt')
  BY <1>1, WithinEmpty, EmptySeq
<1>5. HandleWithin(chatHandle, resetAt)' /\ HandleWithin(compacted, resetAt)'
  BY <1>1, <1>2 DEF LeakInv, HandleWithin
<1> QED BY <1>1, <1>2, <1>3, <1>4, <1>5, WaitingChat, Untouched DEF Waiting, ChatTypes, LeakInv

LEMMA CompactChat ==
  ASSUME ChatInv, Compact
  PROVE  ChatInv'
<1>1. /\ pc = "idle" /\ pc' = "compact" /\ conv' = None
      /\ compacted' = [kind |-> "compacted", conv |-> None, covers |-> chatHistory]
      /\ UNCHANGED <<history, handle, provider, convs, rollout, made, chatHistory, chatHandle,
                     chatDelivered, after, resetAt>>
  BY DEF Compact, Command, SyncConversation, runState, CompactedItems
<1>2. ChatTypes /\ LeakInv /\ RunInv /\ KeptInv
  BY DEF ChatInv
<1>3. history = <<>> /\ handle = None
  BY <1>1, <1>2 DEF RunInv, Running
<1>4. compacted' \in Handle /\ compacted' # None
  <2>1. compacted' \in Handle
    BY <1>1, <1>2 DEF ChatTypes, Handle
  <2> QED BY <2>1, NoneAssumption
<1>5. HandleWithin(chatHandle, resetAt)' /\ HandleWithin(compacted, resetAt)'
  BY <1>1, <1>2 DEF LeakInv, HandleWithin
<1> QED BY <1>1, <1>2, <1>3, <1>4, <1>5, WaitingChat, Untouched DEF Waiting, ChatTypes, LeakInv

LEMMA CompactingChat ==
  ASSUME ChatInv, NEW c \in Unused \cup {None}, CompactConversation(c)
  PROVE  ChatInv'
<1>1. /\ pc = "compact" /\ pc' = "install" /\ compacted' = [compacted EXCEPT !.conv = c]
      /\ CreateConversation(c)
      /\ UNCHANGED <<history, handle, provider, convs, made, chatHistory, chatHandle,
                     chatDelivered, after, resetAt>>
  BY DEF CompactConversation, runState
<1>2. ChatTypes /\ LeakInv /\ RunInv /\ KeptInv
  BY DEF ChatInv
<1>3. history = <<>> /\ handle = None /\ compacted \in Handle
  BY <1>1, <1>2 DEF RunInv, Running, Stages, ChatTypes
<1>4. /\ conv' \in Convs \cup {None} /\ (conv' # None => Within(convs[conv'], resetAt))
      /\ rollout' \in Seq(Line) /\ Numbered(rollout')
  BY <1>1, <1>2, CreatedWithin DEF CreateConversation, LeakInv
<1>5. /\ compacted' \in Handle /\ compacted'.covers = compacted.covers /\ compacted'.conv = c
      /\ c # None => Within(convs[c], resetAt)
  BY <1>1, <1>3, WithinEmpty DEF Handle, Unused
<1>6. HandleWithin(chatHandle, resetAt)' /\ HandleWithin(compacted, resetAt)'
  <2>1. compacted # None
    BY <1>1, <1>2 DEF RunInv
  <2> QED BY <1>1, <1>2, <1>5, <2>1 DEF LeakInv, HandleWithin
<1>7. KeptInv'
  BY <1>1, <1>2, <1>4 DEF KeptInv
<1>8. compacted' # None
  BY <1>5, NoneAssumption
<1> QED BY <1>1, <1>2, <1>3, <1>4, <1>5, <1>6, <1>7, <1>8, WaitingChat DEF Waiting, ChatTypes, LeakInv

LEMMA InstallChat ==
  ASSUME ChatInv, CompactInstall
  PROVE  ChatInv'
<1>1. /\ pc = "install" /\ pc' = "idle" /\ compacted' = None /\ chatHandle' = compacted
      /\ SyncConversation(compacted) /\ chatDelivered' = Len(chatHistory)
      /\ rollout' = Append(rollout, HandleLine(compacted))
      /\ UNCHANGED <<history, handle, provider, convs, made, chatHistory, after, resetAt>>
  BY DEF CompactInstall, runState
<1>2. ChatTypes /\ LeakInv /\ RunInv /\ KeptInv
  BY DEF ChatInv
<1>3. /\ history = <<>> /\ handle = None /\ compacted \in Handle /\ compacted # None
      /\ HandleWithin(compacted, resetAt) /\ resetAt \in Nat
  BY <1>1, <1>2 DEF RunInv, Running, Stages, ChatTypes, LeakInv
<1>4. conv' \in Convs \cup {None} /\ (conv' # None => Within(convs[conv'], resetAt))
  BY <1>1, <1>2, <1>3, HandleConversation
<1>5. Within(compacted.covers, 0)
  BY <1>3, WithinLower DEF HandleWithin, Handle
<1>6. rollout' \in Seq(Line) /\ Numbered(rollout')
  <2>1. HandleLine(compacted) \in Line /\ HandleLine(compacted).type = "handle"
        /\ HandleLine(compacted).handle = compacted
    BY <1>3, LineOfHandle
  <2> QED BY <1>1, <1>2, <1>5, <2>1, NumberedAppend DEF ChatTypes, KeptInv
<1>7. KeptInv' /\ chatDelivered' \in Nat
  BY <1>1, <1>2, <1>6, LenProperties DEF KeptInv, ChatTypes
<1>8. HandleWithin(chatHandle, resetAt)' /\ HandleWithin(compacted, resetAt)'
  BY <1>1, <1>3 DEF HandleWithin
<1> QED BY <1>1, <1>2, <1>3, <1>4, <1>6, <1>7, <1>8, WaitingChat DEF Waiting, ChatTypes, LeakInv

\* What is read back from the file is older than a reset, which is over then.
LEMMA RebuildChat ==
  ASSUME ChatInv, Rebuild, pc \in {"idle", "down"}, provider' \in Providers,
         UNCHANGED <<history, handle, convs, rollout, made, compacted>>
  PROVE  ChatInv'
<1>1. ChatTypes /\ LeakInv /\ RunInv /\ KeptInv
  BY DEF ChatInv
<1>2. history = <<>> /\ handle = None /\ compacted = None
  BY <1>1 DEF RunInv, Running, Stages
<1> DEFINE h == LastHandle(rollout)
           items == ResponseItems(rollout)
<1>3. /\ items \in Seq(Item) /\ Within(items, 0)
      /\ h \in Handle \cup {None} /\ (h # None => Within(h.covers, 0))
  BY <1>1, ReadNumbered, LastHandleNumbered DEF ChatTypes, KeptInv
<1>4. /\ chatHistory' = items /\ chatHandle' = h /\ SyncConversation(h)
      /\ chatDelivered' = Len(chatHistory') /\ resetAt' = 0 /\ pc' = "ensure" /\ after' = "idle"
  BY DEF Rebuild
<1> HIDE DEF h, items
<1>5. \A c \in Convs : Within(convs[c], 0)
  BY <1>1 DEF KeptInv
<1>6. conv' \in Convs \cup {None} /\ (conv' # None => Within(convs[conv'], 0))
  BY <1>3, <1>4, <1>5 DEF SyncConversation, Handle
<1>7. HandleWithin(chatHandle, resetAt)' /\ HandleWithin(compacted, resetAt)'
  BY <1>2, <1>3, <1>4, <1>5 DEF HandleWithin, Handle
<1>8. chatDelivered' \in Nat
  BY <1>3, <1>4, LenProperties
<1> QED BY <1>1, <1>2, <1>3, <1>4, <1>6, <1>7, <1>8, WaitingChat, Untouched DEF Waiting, ChatTypes

LEMMA ChatStep == ChatInv /\ [ChatNext]_allVars => ChatInv'
<1> SUFFICES ASSUME ChatInv, [ChatNext]_allVars PROVE ChatInv'
  OBVIOUS
<1>1. CASE UNCHANGED allVars
  BY <1>1 DEF allVars, vars, runVars, chatVars, ChatInv, ChatTypes, RunInv, LeakInv, KeptInv,
     HandleWithin, Core, TypeOK, RequestInv, TurnInv, StrikeInv, LoopEarned, Answered, Talk,
     CallsInv, Last, Pending
<1>2. CASE \E c \in Unused \cup {None} : EnsureConversation(c) \/ CompactConversation(c)
  BY <1>2, EnsureChat, CompactingChat
<1>3. CASE \E p \in Providers : Restart(p) \/ \E name \in {"new", "switch"} : Reset(name, p)
  <2>1. PICK p \in Providers : Restart(p) \/ \E name \in {"new", "switch"} : Reset(name, p)
    BY <1>3
  <2>2. CASE Restart(p)
    BY <2>2, RebuildChat DEF Restart, runState
  <2> QED BY <2>1, <2>2, ResetChat
<1>4. CASE Resume
  <2>1. provider' \in Providers
    BY <1>4 DEF Resume, ChatInv, ChatTypes
  <2> QED BY <1>4, <2>1, RebuildChat DEF Resume, Command, runState
<1>5. CASE Exit \/ Crash
  BY <1>5, DownChat DEF Exit, Crash
<1> QED BY <1>1, <1>2, <1>3, <1>4, <1>5, MessageChat, RunChat, EndChat, ClearChat, CompactChat, InstallChat
        DEF ChatNext

LEMMA ChatStart == ChatInit => ChatInv
<1> SUFFICES ASSUME ChatInit PROVE ChatInv
  OBVIOUS
<1>1. ChatTypes
  BY EmptySeq DEF ChatInit, ChatTypes
<1>2. RunInv
  BY DEF ChatInit, RunInv, Running, Waiting, Stages
<1>3. LeakInv
  BY WithinEmpty DEF ChatInit, LeakInv, HandleWithin
<1>4. KeptInv
  BY WithinEmpty DEF ChatInit, KeptInv, Numbered
<1> QED BY <1>1, <1>2, <1>3, <1>4 DEF ChatInv

\* After /new or a switch of preset, and until a /resume asks for it, nothing
\* from before reaches the model, through a handle, a conversation, a fallback,
\* a compaction, an exit or a crash.
THEOREM ResetsHold == ChatSpec => []NothingLeaks
<1>1. ChatInv => NothingLeaks
  <2> SUFFICES ASSUME ChatInv, Asking
               PROVE  \A i \in DOMAIN Seen(request) : Seen(request)[i].n > resetAt
    BY DEF NothingLeaks
  <2>1. pc = "request" /\ pc \in Running
    BY DEF Asking, Running, Stages
  <2>2. Seen(request) \in Seq(Item) /\ Within(Seen(request), resetAt)
    BY <2>1, SeenWithin DEF ChatInv, RunInv
  <2>3. DOMAIN Seen(request) = 1..Len(Seen(request))
    BY <2>2, LenProperties
  <2> QED BY <2>2, <2>3 DEF Within
<1>2. ChatSpec => []ChatInv
  BY ChatStart, ChatStep, PTL DEF ChatSpec
<1> QED BY <1>1, <1>2, PTL

-----------------------------------------------------------------------------
(***************************************************************************)
(* What the user and the model said reaches the model, message after       *)
(* message.                                                                *)
(***************************************************************************)
\* Between runs, too, the handle stands for the history up to a length.
StandsFor ==
  chatHandle # None =>
    /\ chatHandle.conv \in {None, conv} /\ chatHandle.kind # "compacted"
    /\ chatDelivered \in 0..Len(chatHistory)
    /\ ConvUsed(chatHandle) = None =>
         /\ chatHandle.kind \in {"response", "messages"} /\ chatHandle.conv = None
         /\ chatHandle.covers = SubSeq(chatHistory, 1, chatDelivered)
    /\ ConvUsed(chatHandle) # None =>
         \A i \in 1..chatDelivered : \E j \in DOMAIN convs[ConvUsed(chatHandle)] :
           convs[ConvUsed(chatHandle)][j] = chatHistory[i]

AllAnsweredIn(items) ==
  \A i \in 1..Len(items) :
    items[i].kind = "calls" => i < Len(items) /\ items[i + 1].kind = "results"

\* The run goes on from the chat's history.
Continues ==
  Len(chatHistory) <= Len(history) /\ \A i \in 1..Len(chatHistory) : history[i] = chatHistory[i]

\* It ends with nothing left to deliver.
AllDelivered ==
  /\ pc = "reply" => delivered = Len(history)
  /\ pc = "done" /\ reason # "thrown" /\ handle # None => delivered = Len(history)
  /\ ~aborted

SteadyInv ==
  /\ ChatInv /\ pc \notin {"down", "compact", "install"}
  /\ StandsFor /\ AllAnsweredIn(chatHistory)
  /\ pc \in Running => HandleInv /\ AnsweredInv /\ Continues /\ AllDelivered

LEMMA DeliveredStep ==
  ASSUME ~StopAtTop, ~StreamCut, Core, AllDelivered, RunnerStep
  PROVE  AllDelivered'
<1>1. feedback = "none" /\ ~aborted /\ TypeOK /\ ~Benchmark /\ Feedbacks = {"none"}
  BY ChatAssumption DEF Core, TypeOK, AllDelivered
<1>2. ~Nudge
  BY <1>1 DEF Nudge
<1>3. CASE SendRequest
  BY <1>1, <1>3 DEF SendRequest, AllDelivered
<1>4. CASE ResumeFails
  BY <1>1, <1>4 DEF ResumeFails, TakenBack, AllDelivered
<1>5. CASE GenerateFails
  <2>1. handle = None /\ handle' = None /\ pc' = "done" /\ ~aborted'
    BY <1>1, <1>5 DEF GenerateFails, Stop, Core, RequestInv
  <2> QED BY <2>1 DEF AllDelivered
<1>6. CASE \E answer \in Answers : Answer(answer)
  BY <1>1, <1>6 DEF Answer, AllDelivered
<1>7. CASE PersistAssistant
  BY <1>1, <1>7 DEF PersistAssistant, AllDelivered
<1>8. CASE EndTurn
  BY <1>1, <1>8 DEF EndTurn, Stop, AllDelivered
<1>9. CASE \E n \in 1..MaxCalls, fb \in Feedbacks : \E calls \in [1..n -> Call] : RunBatch(calls, fb)
  <2>1. pc' = "results" /\ UNCHANGED aborted
    BY <1>9 DEF RunBatch
  <2> QED BY <1>1, <2>1 DEF AllDelivered
<1>10. CASE AppendResults \/ AppendFeedback \/ AppendRecovery \/ AppendAdvice
  <2>1. pc' \in Working \cup {"loop"} /\ UNCHANGED aborted
    BY <1>1, <1>10 DEF AppendResults, AppendFeedback, AppendRecovery, AppendAdvice, Working
  <2> QED BY <1>1, <2>1 DEF AllDelivered, Working
<1> QED BY <1>2, <1>3, <1>4, <1>5, <1>6, <1>7, <1>8, <1>9, <1>10 DEF RunnerStep

\* A conversation only grows.
LEMMA ConvsGrow ==
  ASSUME Core, HandleInv, NEW answer \in Answers, Answer(answer), NEW c \in Convs
  PROVE  \A j \in DOMAIN convs[c] : j \in DOMAIN convs'[c] /\ convs'[c][j] = convs[c][j]
<1> DEFINE item == NewItem(IF answer.calls = <<>> THEN "text" ELSE "calls")
           sight == Seen(request)
           seen == Append(sight, item)
           new == NewHandle(request, seen)
<1>1. /\ pc = "request"
      /\ convs' = (IF new.conv = None THEN convs ELSE [convs EXCEPT ![new.conv] = seen])
  BY DEF Answer
<1>2. /\ request \in Request /\ request.handle = handle /\ request.messages = Pending
      /\ ConvUsed(handle) = Own /\ Own \in Convs \cup {None} /\ TypeOK
      /\ convs \in [Convs -> Seq(Item)]
  BY <1>1, OwnRequest DEF Core, TypeOK
<1>3. new.conv = Own
  BY <1>2 DEF NewHandle
<1>4. CASE Own = None \/ c # Own
  <2> HIDE DEF new, seen
  <2> QED BY <1>1, <1>2, <1>3, <1>4
<1>5. CASE Own # None /\ c = Own
  <2>1. convs'[c] = seen
    <3> HIDE DEF new, seen
    <3> QED BY <1>1, <1>2, <1>3, <1>5
  <2>2. Context(handle) = convs[c]
    <3>1. handle # None => handle.conv # None /\ handle.kind # "compacted"
      BY <1>2, <1>5 DEF HandleInv, ConvUsed
    <3>2. ConvContent(handle) = convs[Own]
      BY <1>2, <1>5 DEF ConvContent
    <3> QED BY <1>5, <3>1, <3>2 DEF Context
  <2>3. convs[c] \in Seq(Item) /\ Pending \in Seq(Item) /\ item \in Item
    BY <1>2, PendingType, ItemType DEF ItemKinds
  <2>4. sight = convs[c] \o Pending
    BY <1>2, <2>2 DEF Seen
  <2>5. /\ sight \in Seq(Item) /\ Len(sight) = Len(convs[c]) + Len(Pending)
        /\ \A j \in 1..Len(convs[c]) : sight[j] = convs[c][j]
    <3> DEFINE s == convs[c]
               t == Pending
               joined == s \o t
    <3>1. s \in Seq(Item) /\ t \in Seq(Item)
      BY <2>3
    <3> HIDE DEF s, t
    <3>2. /\ joined \in Seq(Item) /\ Len(joined) = Len(s) + Len(t)
          /\ \A j \in 1..Len(s) : joined[j] = s[j]
      BY <3>1, Joined
    <3>3. sight = joined
      BY <2>4 DEF s, t
    <3> HIDE DEF joined, sight
    <3>4. /\ sight \in Seq(Item) /\ Len(sight) = Len(s) + Len(t)
          /\ \A j \in 1..Len(s) : sight[j] = s[j]
      BY <3>2, <3>3
    <3> QED BY <3>4 DEF s, t
  <2> HIDE DEF item, sight
  <2>6. /\ DOMAIN seen = 1..Len(seen) /\ Len(seen) = Len(sight) + 1
        /\ \A j \in 1..Len(sight) : seen[j] = sight[j]
    <3>1. /\ seen \in Seq(Item) /\ Len(seen) = Len(sight) + 1
          /\ \A j \in 1..Len(sight) : seen[j] = sight[j]
      BY <2>3, <2>5, AppendProperties
    <3> HIDE DEF seen
    <3> QED BY <3>1, LenProperties
  <2>7. DOMAIN convs[c] = 1..Len(convs[c]) /\ Len(convs[c]) \in Nat /\ Len(Pending) \in Nat
    BY <2>3, LenProperties
  <2> HIDE DEF seen
  <2> QED BY <2>1, <2>5, <2>6, <2>7
<1> QED BY <1>4, <1>5

\* A run leaves what the chat's handle stands for.
LEMMA StandsForRun ==
  ASSUME Core, HandleInv, ChatTypes, StandsFor, RunnerStep, UNCHANGED chatVars
  PROVE  StandsFor'
<1>1. UNCHANGED <<provider, conv, chatHistory, chatHandle, chatDelivered>>
  BY DEF chatVars, RunnerStep, StopAtTop, SendRequest, ResumeFails, GenerateFails,
     StreamCut, Answer, PersistAssistant, Nudge, EndTurn, RunBatch, AppendResults, AppendFeedback,
     AppendRecovery, AppendAdvice
<1>2. \A c \in Convs : \A j \in DOMAIN convs[c] : j \in DOMAIN convs'[c] /\ convs'[c][j] = convs[c][j]
  <2>1. CASE \E answer \in Answers : Answer(answer)
    BY <2>1, ConvsGrow
  <2>2. CASE UNCHANGED convs
    BY <2>2
  <2> QED BY <2>1, <2>2 DEF RunnerStep, StopAtTop, SendRequest, ResumeFails, GenerateFails,
     StreamCut, PersistAssistant, Nudge, EndTurn, RunBatch, AppendResults, AppendFeedback,
     AppendRecovery, AppendAdvice
<1>3. SUFFICES ASSUME chatHandle # None PROVE StandsFor'
  BY <1>1 DEF StandsFor
<1> DEFINE c == ConvUsed(chatHandle)
<1>4. ConvUsed(chatHandle)' = c /\ (c # None => c \in Convs)
  BY <1>1, <1>3 DEF ConvUsed, ChatTypes, Handle
<1> HIDE DEF c
<1>5. ConvUsed(chatHandle) = c
  BY DEF c
<1>6. c # None => \A i \in 1..chatDelivered : \E j \in DOMAIN convs'[c] : convs'[c][j] = chatHistory[i]
  BY <1>2, <1>3, <1>4, <1>5 DEF StandsFor
<1> QED BY <1>1, <1>3, <1>4, <1>5, <1>6 DEF StandsFor

LEMMA ContinuesStep ==
  ASSUME ChatTypes, Core, CallsInv, Continues, RunnerStep, UNCHANGED chatHistory
  PROVE  Continues'
<1>1. /\ Len(history') >= Len(history) /\ Len(history) \in Nat /\ history' \in Seq(Item)
      /\ \A i \in 1..Len(history) : history'[i] = history[i]
  BY HistoryGrows DEF Next
<1>2. Len(chatHistory) \in Nat /\ Len(history') \in Nat
  BY <1>1, LenProperties DEF ChatTypes
<1>3. \A i \in 1..Len(chatHistory) : i \in 1..Len(history)
  BY <1>1, <1>2 DEF Continues
<1> QED BY <1>1, <1>2, <1>3 DEF Continues

LEMMA SteadyRun ==
  ASSUME steady', SteadyInv, RunStep
  PROVE  SteadyInv'
<1>1. /\ ChatInv /\ ChatTypes /\ RunInv /\ ChatInv' /\ RunnerStep /\ UNCHANGED chatVars /\ RunInv'
      /\ StandsFor /\ AllAnsweredIn(chatHistory) /\ UNCHANGED chatHistory
  BY RunChat DEF SteadyInv, ChatInv, RunStep, chatVars
<1>2. pc \in Running
  BY <1>1, StepRuns
<1>3. /\ ~StopAtTop /\ ~StreamCut
      /\ Core /\ CallsInv /\ HandleInv /\ AnsweredInv /\ Continues /\ AllDelivered /\ [Next]_vars
  BY <1>1, <1>2 DEF SteadyInv, RunInv, Next, RunStep
<1>4. Core' /\ HandleInv' /\ AnsweredInv' /\ AllDelivered' /\ StandsFor'
  BY <1>1, <1>3, CoreStep, HandleStep, AnsweredStep, DeliveredStep, StandsForRun
<1>5. Continues'
  BY <1>1, <1>3, ContinuesStep
<1>6. pc' \in Stages /\ pc' # "idle"
  BY <1>4 DEF Core, TypeOK
<1> QED BY <1>1, <1>4, <1>5, <1>6 DEF SteadyInv, Stages

\* The run that starts stands where the chat does.
LEMMA SteadyEnsure ==
  ASSUME steady', SteadyInv, NEW c \in Unused \cup {None}, EnsureConversation(c)
  PROVE  SteadyInv'
<1>1. /\ ChatInv /\ ChatTypes /\ RunInv /\ ChatInv' /\ RunInv' /\ pc = "ensure"
      /\ StandsFor /\ AllAnsweredIn(chatHistory)
      /\ UNCHANGED <<provider, convs, chatHistory, chatHandle, chatDelivered>>
  BY EnsureChat DEF SteadyInv, ChatInv, EnsureConversation
<1>2. conv = conv' \/ conv = None
  BY DEF EnsureConversation, CreateConversation
<1>3. StandsFor'
  <2> SUFFICES ASSUME chatHandle # None PROVE StandsFor'
    BY <1>1 DEF StandsFor
  <2>1. ConvUsed(chatHandle)' = ConvUsed(chatHandle)
    BY <1>1 DEF ConvUsed
  <2>2. chatHandle.conv \in {None, conv'}
    BY <1>2, <1>1 DEF StandsFor
  <2> QED BY <1>1, <2>1, <2>2 DEF StandsFor
<1>4. CASE after # "run"
  <2>1. pc' = "idle"
    BY <1>4 DEF EnsureConversation
  <2> QED BY <1>1, <1>3, <2>1 DEF SteadyInv, Running, Stages
<1>5. CASE after = "run"
  <2>1. Start(chatHistory, chatHandle, chatDelivered) /\ pc' = "loop"
    BY <1>5 DEF EnsureConversation, Start
  <2>2. /\ history' = chatHistory /\ handle' = chatHandle /\ turnsRun' = 0 /\ aborted' = FALSE
        /\ chatHistory \in Seq(Item) /\ Len(chatHistory) \in Nat
        /\ chatHandle # None => delivered' = chatDelivered
    <3>1. Len(chatHistory) \in Nat /\ chatHistory \in Seq(Item)
      BY <1>1, LenProperties DEF ChatTypes
    <3>2. chatHandle # None => ~(chatDelivered > Len(chatHistory))
      BY <1>1, <3>1 DEF StandsFor
    <3> QED BY <2>1, <3>1, <3>2 DEF Start, Renewed
  <2>3. HandleInv'
    <3> SUFFICES ASSUME chatHandle # None PROVE HandleInv'
      BY <2>2 DEF HandleInv
    <3>1. UNCHANGED <<chatHandle, chatHistory, chatDelivered>>
      BY <1>1
    <3>2. Own' = ConvUsed(chatHandle)' /\ Covered' = chatDelivered
      BY <2>1, <2>2, <3>1 DEF Own, ConvUsed, Covered
    <3> QED BY <1>3, <2>2, <3>1, <3>2 DEF HandleInv, StandsFor
  <2>4. AnsweredInv'
    BY <1>1, <2>2 DEF AnsweredInv, AllAnsweredIn
  <2>5. Continues'
    BY <1>1, <2>2 DEF Continues
  <2>6. AllDelivered'
    BY <2>1, <2>2 DEF AllDelivered
  <2> QED BY <1>1, <1>3, <2>1, <2>3, <2>4, <2>5, <2>6 DEF SteadyInv
<1> QED BY <1>4, <1>5

LEMMA AllAnsweredAppend ==
  ASSUME NEW s \in Seq(Item), NEW e \in Item, e.kind # "calls", AllAnsweredIn(s)
  PROVE  AllAnsweredIn(Append(s, e))
<1> DEFINE more == Append(s, e)
<1>1. /\ Len(more) = Len(s) + 1 /\ Len(s) \in Nat /\ more[Len(s) + 1] = e
      /\ \A i \in 1..Len(s) : more[i] = s[i]
  BY AppendProperties, LenProperties
<1> HIDE DEF more
<1> SUFFICES ASSUME NEW i \in 1..Len(more), more[i].kind = "calls"
             PROVE  i < Len(more) /\ more[i + 1].kind = "results"
  BY DEF AllAnsweredIn, more
<1>2. i # Len(s) + 1
  BY <1>1
<1>3. i \in 1..Len(s) /\ s[i].kind = "calls"
  BY <1>1, <1>2
<1>4. i < Len(s) /\ s[i + 1].kind = "results"
  BY <1>3 DEF AllAnsweredIn
<1>5. i + 1 \in 1..Len(s)
  BY <1>1, <1>3, <1>4
<1> QED BY <1>1, <1>4, <1>5

LEMMA SteadyMessage ==
  ASSUME steady', SteadyInv, Message
  PROVE  SteadyInv'
<1> DEFINE item == NewItem("user")
<1>1. /\ ChatTypes /\ StandsFor /\ AllAnsweredIn(chatHistory) /\ ChatInv' /\ pc' = "ensure"
      /\ chatHistory' = Append(chatHistory, item)
      /\ UNCHANGED <<provider, conv, convs, chatHandle, chatDelivered>>
  BY MessageChat DEF SteadyInv, ChatInv, Message
<1>2. item \in Item /\ item.kind = "user"
  BY <1>1 DEF NewItem, Item, ItemKinds, ChatTypes
<1> HIDE DEF item
<1>3. /\ chatHistory \in Seq(Item) /\ Len(chatHistory) \in Nat /\ chatHistory' \in Seq(Item)
      /\ Len(chatHistory') = Len(chatHistory) + 1 /\ chatHistory'[Len(chatHistory) + 1] = item
      /\ \A i \in 1..Len(chatHistory) : chatHistory'[i] = chatHistory[i]
  <2>1. chatHistory \in Seq(Item)
    BY <1>1 DEF ChatTypes
  <2> QED BY <1>1, <1>2, <2>1, LenProperties, AppendProperties
<1>4. AllAnsweredIn(chatHistory')
  BY <1>1, <1>2, <1>3, AllAnsweredAppend
<1>5. StandsFor'
  <2> SUFFICES ASSUME chatHandle # None PROVE StandsFor'
    BY <1>1 DEF StandsFor
  <2>1. chatDelivered \in 0..Len(chatHistory) /\ ConvUsed(chatHandle)' = ConvUsed(chatHandle)
    BY <1>1 DEF StandsFor, ConvUsed
  <2>2. SubSeq(chatHistory', 1, chatDelivered) = SubSeq(chatHistory, 1, chatDelivered)
    BY <1>3, <2>1, SamePrefix
  <2>3. \A i \in 1..chatDelivered : chatHistory'[i] = chatHistory[i]
    BY <1>3, <2>1
  <2>4. chatDelivered \in 0..Len(chatHistory')
    BY <1>3, <2>1
  <2> DEFINE c == ConvUsed(chatHandle)
  <2>5. c # None => \A i \in 1..chatDelivered : \E j \in DOMAIN convs[c] : convs[c][j] = chatHistory[i]
    BY <1>1 DEF StandsFor
  <2> HIDE DEF c
  <2>6. c # None => \A i \in 1..chatDelivered : \E j \in DOMAIN convs'[c] : convs'[c][j] = chatHistory'[i]
    BY <1>1, <2>3, <2>5
  <2>7. ConvUsed(chatHandle)' = c /\ ConvUsed(chatHandle) = c
    BY <2>1 DEF c
  <2>8. /\ chatHandle.conv \in {None, conv} /\ chatHandle.kind # "compacted"
        /\ c = None => /\ chatHandle.kind \in {"response", "messages"} /\ chatHandle.conv = None
                       /\ chatHandle.covers = SubSeq(chatHistory, 1, chatDelivered)
    BY <1>1, <2>7 DEF StandsFor
  <2>9. UNCHANGED <<conv, convs, chatHandle, chatDelivered>>
    BY <1>1
  <2> QED BY <2>2, <2>4, <2>6, <2>7, <2>8, <2>9 DEF StandsFor
<1> QED BY <1>1, <1>4, <1>5 DEF SteadyInv, Running, Stages

\* With the rest of the run the chat has all of it.
LEMMA RestOfRun ==
  ASSUME ChatTypes, Continues
  PROVE  chatHistory \o SubSeq(history, Len(chatHistory) + 1, Len(history)) = history
<1>1. /\ chatHistory \in Seq(Item) /\ history \in Seq(Item) /\ Len(chatHistory) \in Nat
      /\ Len(history) \in Nat /\ Len(chatHistory) \in 0..Len(history)
      /\ \A i \in 1..Len(chatHistory) : history[i] = chatHistory[i]
  BY LenProperties DEF ChatTypes, Continues
<1>2. SubSeq(history, 1, Len(chatHistory)) = SubSeq(chatHistory, 1, Len(chatHistory))
  BY <1>1, SamePrefix
<1>3. SubSeq(chatHistory, 1, Len(chatHistory)) = chatHistory
  BY <1>1, SubSeqFull
<1> QED BY <1>1, <1>2, <1>3, TwoPieces

\* What a run ends with becomes the chat's history, and all of it is delivered.
LEMMA SteadyEnd ==
  ASSUME steady', SteadyInv, EndRun
  PROVE  SteadyInv'
<1>1. /\ pc = "done" /\ pc \in Running /\ pc' = "idle" /\ ChatTypes /\ RunInv /\ ChatInv'
      /\ StandsFor /\ AllAnsweredIn(chatHistory) /\ UNCHANGED <<provider, convs>>
  BY EndChat DEF SteadyInv, ChatInv, EndRun, Rest, Running, Stages
<1>2. Core /\ HandleInv /\ AnsweredInv /\ Continues /\ AllDelivered
  BY <1>1 DEF SteadyInv, RunInv
<1>3. CASE reason = "thrown"
  <2>1. UNCHANGED <<chatHistory, chatHandle, chatDelivered, conv>>
    BY <1>3 DEF EndRun
  <2>2. StandsFor'
    BY <1>1, <2>1 DEF StandsFor, ConvUsed
  <2> QED BY <1>1, <2>1, <2>2 DEF SteadyInv, Running, Stages
<1>4. CASE reason # "thrown"
  <2>1. /\ chatHistory' = chatHistory \o SubSeq(history, Len(chatHistory) + 1, Len(history))
        /\ chatHandle' = handle /\ SyncConversation(handle)
        /\ chatDelivered' = DeliveredBy(chatHistory', handle)
    BY <1>4 DEF EndRun
  <2>2. history \in Seq(Item) /\ Len(history) \in Nat
    BY <1>1, LenProperties DEF ChatTypes
  <2>3. chatHistory' = history
    BY <1>1, <1>2, <2>1, RestOfRun
  <2>4. AllAnsweredIn(chatHistory')
    BY <1>1, <1>2, <2>3 DEF AnsweredInv, AllAnsweredIn
  <2>5. StandsFor'
    <3> SUFFICES ASSUME handle # None PROVE StandsFor'
      BY <2>1 DEF StandsFor
    <3>1. chatDelivered' = Len(history) /\ delivered = Len(history) /\ Covered = Len(history)
      BY <1>1, <1>2, <1>4, <2>1, <2>3 DEF DeliveredBy, AllDelivered, Covered
    <3>2. conv' = handle.conv /\ chatHandle' = handle
      BY <2>1 DEF SyncConversation
    <3>3. ConvUsed(chatHandle)' = Own
      BY <1>1, <2>1 DEF ConvUsed, Own
    <3> QED BY <1>1, <1>2, <2>2, <2>3, <3>1, <3>2, <3>3 DEF StandsFor, HandleInv
  <2> QED BY <1>1, <2>4, <2>5 DEF SteadyInv, Running, Stages
<1> QED BY <1>3, <1>4

LEMMA SteadyReset ==
  ASSUME steady', SteadyInv, NEW name, NEW p \in Providers, Reset(name, p)
  PROVE  SteadyInv'
<1>1. ChatInv' /\ pc' = "ensure" /\ chatHandle' = None /\ chatHistory' = <<>>
  BY ResetChat DEF SteadyInv, Reset, ForgetContext
<1>2. StandsFor'
  BY <1>1 DEF StandsFor
<1>3. AllAnsweredIn(chatHistory')
  <2>1. Len(<<>>) = 0
    OBVIOUS
  <2> QED BY <1>1, <2>1 DEF AllAnsweredIn
<1> QED BY <1>1, <1>2, <1>3 DEF SteadyInv, Running, Stages

LEMMA SteadyStep ==
  ASSUME steady', SteadyInv, [ChatNext]_allVars
  PROVE  SteadyInv'
<1>1. pc \notin {"down", "compact", "install"}
  BY DEF SteadyInv
<1>2. CASE Clear \/ Compact \/ CompactInstall \/ Resume \/ Exit \/ Crash
  BY <1>1, <1>2 DEF Clear, Compact, CompactInstall, Resume, Exit, Crash, Command, GoDown
<1>3. (\A c : ~CompactConversation(c)) /\ \A p : ~Restart(p)
  BY <1>1 DEF CompactConversation, Restart
<1>4. CASE UNCHANGED allVars
  <2>1. ChatInv'
    BY ChatStep DEF SteadyInv
  <2>2. UNCHANGED <<pc, provider, conv, convs, chatHistory, chatHandle, chatDelivered>>
    BY <1>4 DEF allVars, vars, runVars, chatVars
  <2>3. UNCHANGED <<history, handle, delivered, turnsRun, reply, reason, aborted>>
    BY <1>4 DEF allVars, vars, runVars
  <2>4. StandsFor' = StandsFor /\ AllAnsweredIn(chatHistory') = AllAnsweredIn(chatHistory)
    BY <2>2 DEF StandsFor, ConvUsed, AllAnsweredIn
  <2>5. /\ HandleInv' = HandleInv /\ AnsweredInv' = AnsweredInv
        /\ Continues' = Continues /\ AllDelivered' = AllDelivered
    BY <2>2, <2>3 DEF HandleInv, Own, ConvUsed, Covered, AnsweredInv, Continues, AllDelivered
  <2> QED BY <2>1, <2>2, <2>4, <2>5 DEF SteadyInv
<1> QED BY <1>2, <1>3, <1>4, SteadyMessage, SteadyRun, SteadyEnd, SteadyEnsure, SteadyReset DEF ChatNext

LEMMA SteadyStart == ChatInit => SteadyInv
<1> SUFFICES ASSUME ChatInit PROVE SteadyInv
  OBVIOUS
<1>1. ChatInv /\ pc = "ensure" /\ chatHandle = None /\ chatHistory = <<>>
  BY ChatStart DEF ChatInit
<1>2. Len(<<>>) = 0
  OBVIOUS
<1> QED BY <1>1, <1>2 DEF SteadyInv, StandsFor, AllAnsweredIn, Running, Stages

\* The chat does not get steady again.
LEMMA SteadyBefore ==
  ASSUME [ChatNext]_allVars, steady'
  PROVE  steady
<1>1. CASE RunStep
  BY <1>1 DEF RunStep
<1>2. CASE Message \/ EndRun \/ CompactInstall
  BY <1>2 DEF Message, EndRun, CompactInstall
<1>3. CASE \E c \in Unused \cup {None} : EnsureConversation(c) \/ CompactConversation(c)
  BY <1>3 DEF EnsureConversation, CompactConversation
<1>4. CASE \E p \in Providers : Restart(p) \/ \E name \in {"new", "switch"} : Reset(name, p)
  BY <1>4 DEF Restart, Reset, Command
<1>5. CASE Clear \/ Compact \/ Resume \/ Exit \/ Crash
  BY <1>5 DEF Clear, Compact, Resume, Exit, Crash, Command, GoDown
<1>6. CASE UNCHANGED allVars
  BY <1>6 DEF allVars
<1> QED BY <1>1, <1>2, <1>3, <1>4, <1>5, <1>6 DEF ChatNext

\* Over the messages of a chat and the resets between them, whatever requests
\* fail and are tried again lower down the ladder, each request shows the model
\* the whole history, with every call answered at once, until a stream is cut, a
\* run stops at its limit, or the context is cleared, compacted or rebuilt
\* (sendMessage, ensureConversation, handleForRequest).
THEOREM ChatDelivers == ChatSpec => []SteadyReaches
<1> DEFINE IfSteady == steady => SteadyInv
<1>1. SteadyInv => NothingLost /\ CallsAnswered
  <2> SUFFICES ASSUME SteadyInv, Asking PROVE NothingLost /\ CallsAnswered
    BY DEF NothingLost, CallsAnswered
  <2>1. pc = "request" /\ pc \in Running
    BY DEF Asking, Running, Stages
  <2>2. Core /\ HandleInv /\ AnsweredInv /\ TypeOK /\ request \in Request /\ history \in Seq(Item)
    BY <2>1 DEF SteadyInv, ChatInv, RunInv, Core, RequestInv, TypeOK
  <2>3. DOMAIN history = 1..Len(history) /\ Len(history) \in Nat /\ DOMAIN Seen(request) = 1..Len(Seen(request))
    BY <2>2, SeenType, LenProperties
  <2>4. NothingLost
    <3>1. \A i \in 1..Len(history) : \E j \in 1..Len(Seen(request)) : Seen(request)[j] = history[i]
      BY <2>1, <2>2, SeesAll
    <3> QED BY <2>3, <3>1 DEF NothingLost
  <2>5. CallsAnswered
    <3> SUFFICES ASSUME ConvUsed(request.handle) = None PROVE
          \A i \in DOMAIN Seen(request) : Seen(request)[i].kind = "calls" =>
             i < Len(Seen(request)) /\ Seen(request)[i + 1].kind = "results"
      BY DEF CallsAnswered
    <3>1. Own = None
      BY <2>1, <2>2, OwnRequest
    <3>2. Seen(request) = history
      BY <2>1, <2>2, <3>1, SeesHistory
    <3> QED BY <2>1, <2>2, <2>3, <3>2 DEF AnsweredInv
  <2> QED BY <2>4, <2>5
<1>2. ChatInit => IfSteady
  BY SteadyStart
<1>3. IfSteady /\ [ChatNext]_allVars => IfSteady'
  BY SteadyStep, SteadyBefore
<1>4. IfSteady => SteadyReaches
  BY <1>1 DEF SteadyReaches
<1> QED BY <1>2, <1>3, <1>4, PTL DEF ChatSpec

-----------------------------------------------------------------------------
(***************************************************************************)
(* What is on file reaches the model, over compactions and resumes.  The   *)
(* server has everything on file under the last handle of the file, but    *)
(* for a message whose run has not started; while a run is on it has what  *)
(* is delivered under the run's own handle, and the answer puts that on    *)
(* file.                                                                   *)
(***************************************************************************)
Items == ResponseItems(rollout)
Tip == LastHandle(rollout)

Plain(items) == \A i \in 1..Len(items) : items[i].kind # "nudge"

\* The context of a handle with a conversation.
InContext(h, kept) == IF h.kind = "compacted" THEN kept[h.conv] \o h.covers ELSE kept[h.conv]

\* With a provider a handle has the first d items: itself, or in the conversations that are kept.
Has(p, h, items, d, kept) ==
  /\ p = "anthropic" => h.kind = "messages" /\ h.conv = None /\ h.covers = SubSeq(items, 1, d)
  /\ p = "openai" =>
       /\ h.kind # "messages" /\ h.conv # None
       /\ \A i \in 1..d : \E j \in 1..Len(InContext(h, kept)) : InContext(h, kept)[j] = items[i]

\* How many of the items on file the last handle is to have.
Said == IF pc = "ensure" /\ after = "run" THEN Len(Items) - 1 ELSE Len(Items)

WaitFile ==
  /\ Plain(Items) /\ AllAnsweredIn(Items)
  /\ pc # "down" => chatHistory = Items
  /\ pc \in {"idle", "ensure", "down"} => IF Tip = None THEN Said = 0 ELSE Has(provider, Tip, Items, Said, convs)
  /\ pc \in {"idle", "ensure"} =>
       /\ conv = (IF Tip = None THEN None ELSE Tip.conv) /\ convTried = (conv # None)
       /\ chatHandle = None => Said = 0
       /\ chatHandle # None => chatHandle = Tip /\ chatDelivered = Said
  /\ pc \in {"compact", "install"} =>
       compacted.kind = "compacted" /\ compacted.covers = chatHistory /\ provider = "openai"
  /\ pc = "install" => compacted.conv # None

RunFile ==
  /\ Plain(history) /\ AnsweredInv /\ Continues /\ AllDelivered /\ FiledInv
  /\ pc = "done" => Items = Filed(history)
  /\ provider = "openai" => conv # None
  /\ handle # None => Has(provider, handle, history, Covered, convs)
  /\ pc \in {"assistant", "reply", "done"} => handle # None /\ handle = Tip
  /\ reason # "thrown"

FileInv ==
  /\ ChatInv
  /\ pc \in Waiting => WaitFile
  /\ pc \in Running => RunFile

-----------------------------------------------------------------------------
LEMMA TipAppend ==
  ASSUME NEW lines \in Seq(Line), NEW l \in Line
  PROVE  /\ l.type = "item" => LastHandle(Append(lines, l)) = LastHandle(lines)
         /\ l.type = "handle" => LastHandle(Append(lines, l)) = l.handle
<1> DEFINE N == Len(lines)
           more == Append(lines, l)
           handles == {i \in DOMAIN lines : lines[i].type = "handle"}
           handles2 == {i \in DOMAIN more : more[i].type = "handle"}
           last == CHOOSE i \in handles : \A j \in handles : j <= i
           last2 == CHOOSE i \in handles2 : \A j \in handles2 : j <= i
<1>1. /\ N \in Nat /\ DOMAIN lines = 1..N /\ DOMAIN more = 1..N + 1 /\ more[N + 1] = l
      /\ \A i \in 1..N : more[i] = lines[i]
  BY AppendProperties, LenProperties
<1>2. /\ LastHandle(lines) = IF handles = {} THEN None ELSE lines[last].handle
      /\ LastHandle(more) = IF handles2 = {} THEN None ELSE more[last2].handle
  BY DEF LastHandle
<1>3. handles \subseteq 1..N /\ handles2 \subseteq 1..N + 1
  BY <1>1
<1> HIDE DEF more, N
<1>4. ASSUME l.type = "item" PROVE LastHandle(more) = LastHandle(lines)
  <2>1. handles2 = handles
    <3>1. \A i \in 1..N + 1 : i \in 1..N \/ i = N + 1
      BY <1>1
    <3>2. \A i \in 1..N : i \in 1..N + 1
      BY <1>1
    <3> QED BY <1>1, <1>4, <3>1, <3>2
  <2>2. handles # {} => last \in handles
    BY <1>1, <1>3, Latest
  <2>3. last2 = last
    BY <2>1
  <2> HIDE DEF handles, handles2, last, last2
  <2>4. CASE handles = {}
    BY <1>2, <2>1, <2>4
  <2>5. CASE handles # {}
    <3>1. more[last] = lines[last]
      BY <1>1, <1>3, <2>2, <2>5
    <3> QED BY <1>2, <2>1, <2>3, <2>5, <3>1
  <2> QED BY <2>4, <2>5
<1>5. ASSUME l.type = "handle" PROVE LastHandle(more) = l.handle
  <2>1. N + 1 \in handles2
    BY <1>1, <1>5
  <2>2. last2 \in handles2 /\ \A j \in handles2 : j <= last2
    <3>1. N + 1 \in Nat /\ handles2 # {}
      BY <1>1, <2>1
    <3>2. \E i \in handles2 : \A j \in handles2 : j <= i
      <4> HIDE DEF handles2
      <4> QED BY <1>3, <3>1, Latest
    <3> QED BY <3>2
  <2> HIDE DEF handles, handles2, last, last2
  <2>3. last2 = N + 1
    BY <1>1, <1>3, <2>1, <2>2
  <2> QED BY <1>1, <1>2, <2>1, <2>3
<1> QED BY <1>4, <1>5 DEF more

LEMMA ReadTip ==
  ASSUME NEW lines \in Seq(Line), NEW h \in Handle
  PROVE  LastHandle(Append(lines, HandleLine(h))) = h
BY LineOfHandle, TipAppend

\* A line on file.
LEMMA ItemFiled ==
  ASSUME ChatTypes, NEW item \in Item, rollout' = Append(rollout, ItemLine(item))
  PROVE  Items \in Seq(Item) /\ Items' = Append(Items, item) /\ Tip' = Tip
<1>1. ItemLine(item) \in Line /\ ItemLine(item).type = "item" /\ ItemLine(item).item = item
  BY LineOfItem
<1>2. rollout \in Seq(Line)
  BY DEF ChatTypes
<1>3. /\ ResponseItems(rollout) \in Seq(Item)
      /\ ResponseItems(Append(rollout, ItemLine(item))) = AfterLine(ResponseItems(rollout), ItemLine(item))
      /\ LastHandle(Append(rollout, ItemLine(item))) = LastHandle(rollout)
  BY <1>1, <1>2, ReadAppend, TipAppend
<1> QED BY <1>1, <1>3 DEF Items, Tip, AfterLine

LEMMA HandleFiled ==
  ASSUME ChatTypes, NEW h \in Handle, rollout' = Append(rollout, HandleLine(h))
  PROVE  Items \in Seq(Item) /\ Items' = Items /\ Tip' = h
<1>1. HandleLine(h) \in Line /\ HandleLine(h).type = "handle" /\ HandleLine(h).handle = h
  BY LineOfHandle
<1>2. rollout \in Seq(Line)
  BY DEF ChatTypes
<1>3. /\ ResponseItems(rollout) \in Seq(Item)
      /\ ResponseItems(Append(rollout, HandleLine(h))) = AfterLine(ResponseItems(rollout), HandleLine(h))
      /\ LastHandle(Append(rollout, HandleLine(h))) = h
  BY <1>1, <1>2, ReadAppend, TipAppend
<1> QED BY <1>1, <1>3 DEF Items, Tip, AfterLine

LEMMA PlainAppend ==
  ASSUME NEW s \in Seq(Item), NEW e \in Item, e.kind # "nudge", Plain(s)
  PROVE  Plain(Append(s, e))
<1>1. /\ Len(Append(s, e)) = Len(s) + 1 /\ Len(s) \in Nat /\ Append(s, e)[Len(s) + 1] = e
      /\ \A i \in 1..Len(s) : Append(s, e)[i] = s[i]
  BY AppendProperties, LenProperties
<1>2. \A i \in 1..Len(s) + 1 : i \in 1..Len(s) \/ i = Len(s) + 1
  BY <1>1
<1> QED BY <1>1, <1>2 DEF Plain

\* Without nudges all of a history goes on file.
LEMMA FiledPlain ==
  ASSUME NEW items \in Seq(Item), Plain(items)
  PROVE  Filed(items) = items
<1> DEFINE N == Len(items)
           P == {n \in 0..N : Keep(items)[n] = SubSeq(items, 1, n)}
<1>1. /\ N \in Nat /\ Filed(items) = Keep(items)[N] /\ Keep(items)[0] = <<>>
      /\ \A n \in 1..N : Keep(items)[n] = AfterItem(Keep(items)[n - 1], items[n])
  BY FiledExists, LenProperties DEF Filed, Keep
<1>2. 0 \in P
  <2>1. 0 \in 0..N /\ SubSeq(items, 1, 0) = <<>>
    BY <1>1, SubSeqEmpty
  <2> QED BY <1>1, <2>1
<1>3. ASSUME NEW n \in 0..N - 1, n \in P PROVE n + 1 \in P
  <2>1. n + 1 \in 1..N /\ n + 1 \in 0..N /\ (n + 1) - 1 = n
    BY <1>1
  <2>2. SubSeq(items, 1, n + 1) = Append(SubSeq(items, 1, n), items[n + 1])
    <3>1. SubSeq(items, 1, n) \in Seq(Item) /\ SubSeq(items, 1, n + 1) \in Seq(Item)
      BY <2>1, TwoPieces
    <3>2. <<>> \o SubSeq(items, 1, n + 1) = Append(<<>> \o SubSeq(items, 1, n), items[n + 1])
      BY EmptySeq, OneFurther
    <3> QED BY <3>1, <3>2, ConcatEmptySeq
  <2>3. Keep(items)[n + 1] = AfterItem(Keep(items)[n], items[n + 1])
    BY <1>1, <2>1
  <2>4. items[n + 1].kind # "nudge"
    BY <2>1 DEF Plain
  <2> QED BY <1>3, <2>1, <2>2, <2>3, <2>4 DEF AfterItem
<1>4. N \in P
  <2> HIDE DEF P, N
  <2>1. 0..N \subseteq P
    BY <1>1, <1>2, <1>3, Induction
  <2> QED BY <1>1, <2>1
<1> QED BY <1>1, <1>4, SubSeqFull

LEMMA HasKept ==
  ASSUME NEW p, NEW h, NEW kept, NEW s \in Seq(Item), NEW t \in Seq(Item), NEW d \in 0..Len(s),
         Len(t) >= Len(s), \A i \in 1..Len(s) : t[i] = s[i], Has(p, h, s, d, kept)
  PROVE  Has(p, h, t, d, kept)
<1>1. SubSeq(t, 1, d) = SubSeq(s, 1, d)
  BY SamePrefix
<1>2. Len(s) \in Nat /\ \A i \in 1..d : t[i] = s[i]
  BY LenProperties
<1> QED BY <1>1, <1>2 DEF Has

\* What the server shows the model of such a handle.
LEMMA ContextIs ==
  ASSUME provider = "openai", NEW h \in Handle, h.conv # None, h.kind # "messages"
  PROVE  Context(h) = InContext(h, convs)
<1>1. h # None
  BY NoneAssumption
<1>2. ConvContent(h) = convs[h.conv]
  BY <1>1 DEF ConvContent, ConvUsed
<1>3. h.kind \in {"response", "conversation", "compacted"}
  BY DEF Handle
<1> QED BY <1>1, <1>2, <1>3 DEF Context, InContext

\* A handle that has what is delivered leaves the request nothing to miss.
LEMMA HasSeen ==
  ASSUME Core, pc = "request", provider = "openai",
         handle # None => Has(provider, handle, history, delivered, convs)
  PROVE  /\ Seen(request) \in Seq(Item)
         /\ \A i \in 1..Len(history) : \E j \in 1..Len(Seen(request)) : Seen(request)[j] = history[i]
<1>1. /\ TypeOK /\ request \in Request /\ request.handle = handle /\ request.messages = Pending
      /\ handle \in Handle \cup {None}
  BY DEF Core, RequestInv, TypeOK
<1>2. ASSUME handle # None
      PROVE  \A i \in 1..delivered : \E j \in 1..Len(Context(handle)) : Context(handle)[j] = history[i]
  <2>1. Context(handle) = InContext(handle, convs)
    BY <1>1, <1>2, ContextIs DEF Has
  <2> QED BY <1>2, <2>1 DEF Has
<1>3. Seen(request) \in Seq(Item)
  BY <1>1, SeenType
<1> QED BY <1>1, <1>2, <1>3, SeesCovered

\* With Anthropic's handles it is as in a run on its own.
LEMMA HasHandleInv ==
  ASSUME Core, provider = "anthropic",
         handle # None => Has(provider, handle, history, Covered, convs)
  PROVE  HandleInv /\ Own = None
BY DEF Has, HandleInv, Own, ConvUsed

LEMMA HasAnswer ==
  ASSUME Core, NEW answer \in Answers, Answer(answer), provider = "openai" => conv # None,
         handle # None => Has(provider, handle, history, Covered, convs)
  PROVE  Has(provider', handle', history', Covered', convs') /\ handle' \in Handle /\ Tip' = handle'
<1> DEFINE item == NewItem(IF answer.calls = <<>> THEN "text" ELSE "calls")
           sight == Seen(request)
           seen == Append(sight, item)
           new == NewHandle(request, seen)
<1>1. /\ history' = Append(history, item) /\ handle' = new /\ pc' = "assistant" /\ pc = "request"
      /\ convs' = (IF new.conv = None THEN convs ELSE [convs EXCEPT ![new.conv] = seen])
      /\ rollout' = Append(rollout, HandleLine(new))
      /\ UNCHANGED <<provider, conv>>
  BY DEF Answer
<1>2. /\ request \in Request /\ request.handle = handle /\ TypeOK /\ history \in Seq(Item)
      /\ handle \in Handle \cup {None} /\ convs \in [Convs -> Seq(Item)] /\ conv \in Convs \cup {None}
      /\ provider \in {"openai", "anthropic"} /\ rollout \in Seq(Line)
  BY <1>1, ModesAssumption DEF Core, RequestInv, TypeOK, Line
<1>3. item \in Item /\ sight \in Seq(Item)
  BY <1>2, SeenType, ItemType DEF ItemKinds
<1>4. /\ new.conv = ConvUsed(handle) /\ new.covers = seen /\ ConvUsed(handle) \in Convs \cup {None}
      /\ new.kind = IF provider = "openai" THEN "response" ELSE "messages"
  BY <1>2, SeenType DEF NewHandle
<1>5. seen \in Seq(Item) /\ new \in Handle
  <2>1. seen \in Seq(Item)
    <3> HIDE DEF item, sight
    <3> QED BY <1>3, AppendProperties
  <2> QED BY <1>2, <1>4, <2>1 DEF NewHandle, Handle
<1>6. Tip' = new
  <2> HIDE DEF new
  <2> QED BY <1>1, <1>2, <1>5, ReadTip DEF Tip
<1>7. Covered' = Len(history')
  BY <1>1 DEF Covered
<1>8. CASE provider = "anthropic"
  <2>1. HandleInv'
    BY <1>8, HasHandleInv, HandleAnswer
  <2>2. handle' # None /\ Own' = None
    <3>1. handle' # None
      BY <1>1, <1>5, NoneAssumption
    <3> QED BY <1>1, <1>8, <3>1 DEF Own, ConvUsed
  <2>3. handle'.conv = None /\ handle'.covers = SubSeq(history', 1, Covered')
    BY <2>1, <2>2 DEF HandleInv
  <2>4. handle'.kind = "messages"
    BY <1>1, <1>4, <1>8
  <2> QED BY <1>1, <1>5, <1>6, <1>8, <2>3, <2>4 DEF Has
<1>9. CASE provider = "openai"
  <2>1. ConvUsed(handle) # None
    BY <1>9 DEF ConvUsed, Has
  <2>2. \A i \in 1..Len(history) : \E j \in 1..Len(sight) : sight[j] = history[i]
    <3>1. Covered = delivered
      BY <1>1 DEF Covered
    <3> QED BY <1>1, <1>9, <3>1, HasSeen
  <2>3. /\ history' \in Seq(Item) /\ Len(history') = Len(history) + 1 /\ Len(history) \in Nat
        /\ history'[Len(history) + 1] = item
        /\ \A i \in 1..Len(history) : history'[i] = history[i]
    <3> HIDE DEF item
    <3>1. /\ Append(history, item) \in Seq(Item) /\ Len(Append(history, item)) = Len(history) + 1
          /\ Append(history, item)[Len(history) + 1] = item /\ Len(history) \in Nat
          /\ \A i \in 1..Len(history) : Append(history, item)[i] = history[i]
      BY <1>2, <1>3, Appended1, LenProperties
    <3> QED BY <1>1, <3>1
  <2>4. /\ Len(seen) = Len(sight) + 1 /\ Len(sight) \in Nat
        /\ \A j \in 1..Len(sight) : seen[j] = sight[j]
        /\ seen[Len(sight) + 1] = item
    <3> HIDE DEF item, sight
    <3> QED BY <1>3, AppendProperties, LenProperties
  <2>5. InContext(new, convs') = seen
    <3>1. convs'[new.conv] = seen
      <4> HIDE DEF new, seen
      <4> QED BY <1>1, <1>2, <1>4, <2>1
    <3> QED BY <1>4, <1>9, <3>1 DEF InContext
  <2> HIDE DEF item, sight, seen, new
  <2>6. ASSUME NEW i \in 1..Len(history')
        PROVE  \E j \in 1..Len(seen) : seen[j] = history'[i]
    <3>1. CASE i = Len(history) + 1
      BY <2>3, <2>4, <3>1
    <3>2. CASE i # Len(history) + 1
      <4>1. i \in 1..Len(history)
        BY <2>3, <3>2
      <4>2. PICK j \in 1..Len(sight) : sight[j] = history[i]
        BY <2>2, <4>1
      <4>3. j \in 1..Len(seen)
        BY <2>4, <4>2
      <4> QED BY <2>3, <2>4, <4>1, <4>2, <4>3
    <3> QED BY <3>1, <3>2
  <2> QED BY <1>1, <1>4, <1>5, <1>6, <1>7, <1>9, <2>1, <2>5, <2>6 DEF Has
<1> QED BY <1>2, <1>8, <1>9

\* The chat adds no nudges.
LEMMA PlainStep ==
  ASSUME Core, CallsInv, Plain(history), RunnerStep
  PROVE  Plain(history')
<1>1. history \in Seq(Item) /\ TypeOK /\ ~Nudge
  BY ChatAssumption DEF Core, TypeOK, Nudge
<1>2. CASE UNCHANGED history
  BY <1>2
<1>3. CASE \E kind \in ItemKinds \ {"nudge"} : history' = Append(history, NewItem(kind))
  <2>1. PICK kind \in ItemKinds \ {"nudge"} : history' = Append(history, NewItem(kind))
    BY <1>3
  <2> DEFINE item == NewItem(kind)
  <2>2. item \in Item /\ item.kind # "nudge" /\ history' = Append(history, item)
    BY <1>1, <2>1, ItemType DEF NewItem
  <2> HIDE DEF item
  <2> QED BY <1>1, <2>2, PlainAppend
<1>4. CASE AppendRecovery
  <2>1. /\ Len(history) \in Nat /\ Reads \in Nat /\ Len(history') = Len(history) + Reads
        /\ \A i \in 1..Len(history) : history'[i] = history[i]
        /\ \A i \in Len(history) + 1..Len(history') : history'[i].kind = "recovery"
    BY <1>4, RecoveryQuiet
  <2>2. \A i \in 1..Len(history') : i \in 1..Len(history) \/ i \in Len(history) + 1..Len(history')
    BY <2>1
  <2> QED BY <2>1, <2>2 DEF Plain
<1>5. CASE \E answer \in Answers : Answer(answer)
  <2>1. PICK answer \in Answers : Answer(answer)
    BY <1>5
  <2>2. history' = Append(history, NewItem(IF answer.calls = <<>> THEN "text" ELSE "calls"))
    BY <2>1 DEF Answer
  <2>3. (IF answer.calls = <<>> THEN "text" ELSE "calls") \in ItemKinds \ {"nudge"}
    BY DEF ItemKinds
  <2> QED BY <1>3, <2>2, <2>3
<1>6. CASE AppendResults \/ AppendFeedback \/ AppendAdvice
  <2>1. UNCHANGED history \/ \E kind \in {"results", "feedback", "advice"} :
                                history' = Append(history, NewItem(kind))
    BY <1>6 DEF AppendResults, AppendFeedback, AppendAdvice, Append1
  <2> QED BY <1>2, <1>3, <2>1 DEF ItemKinds
<1>7. CASE StopAtTop \/ SendRequest \/ ResumeFails \/ GenerateFails \/ StreamCut
           \/ PersistAssistant \/ EndTurn
           \/ \E n \in 1..MaxCalls, fb \in Feedbacks : \E calls \in [1..n -> Call] : RunBatch(calls, fb)
  BY <1>2, <1>7 DEF StopAtTop, SendRequest, ResumeFails, GenerateFails, StreamCut,
     PersistAssistant, EndTurn, RunBatch
<1> QED BY <1>1, <1>4, <1>5, <1>6, <1>7 DEF RunnerStep

\* A step of a run in which nothing fails.
LEMMA HasRun ==
  ASSUME Core, CallsInv, RunnerStep, ~ResumeFails, provider = "openai" => conv # None,
         handle # None => Has(provider, handle, history, Covered, convs)
  PROVE  /\ handle' # None => Has(provider', handle', history', Covered', convs')
         /\ UNCHANGED <<provider, conv>>
<1>1. CASE \E answer \in Answers : Answer(answer)
  BY <1>1, HasAnswer DEF Answer
<1>2. CASE ~\E answer \in Answers : Answer(answer)
  <2>1. UNCHANGED <<handle, convs, provider, conv>>
    BY <1>2 DEF RunnerStep, StopAtTop, SendRequest, GenerateFails, StreamCut, PersistAssistant,
       Nudge, EndTurn, RunBatch, AppendResults, AppendFeedback, AppendRecovery, AppendAdvice
  <2>2. Covered' = Covered
    BY <1>2 DEF RunnerStep, StopAtTop, SendRequest, GenerateFails, StreamCut, PersistAssistant,
       Nudge, EndTurn, RunBatch, AppendResults, AppendFeedback, AppendRecovery, AppendAdvice,
       Covered, Stop
  <2>3. /\ history' \in Seq(Item) /\ Len(history') >= Len(history) /\ Len(history) \in Nat
        /\ \A i \in 1..Len(history) : history'[i] = history[i]
    BY HistoryGrows DEF Next
  <2>4. history \in Seq(Item) /\ Covered \in 0..Len(history)
    BY <2>3 DEF Core, TypeOK, Covered
  <2> QED BY <2>1, <2>2, <2>3, <2>4, HasKept
<1> QED BY <1>1, <1>2

\* The answer is on file under the handle of the run until it calls tools.
LEMMA TipRun ==
  ASSUME ChatTypes, Core, CallsInv, FiledInv, AllDelivered, RunnerStep,
         ~ResumeFails, ~GenerateFails, ~StreamCut, ~StopAtTop,
         provider = "openai" => conv # None,
         handle # None => Has(provider, handle, history, Covered, convs),
         pc \in {"assistant", "reply", "done"} => handle # None /\ handle = Tip,
         reason # "thrown"
  PROVE  /\ pc' \in {"assistant", "reply", "done"} => handle' # None /\ handle' = Tip'
         /\ pc' = "done" => Items' = Filed(history')
         /\ reason' # "thrown"
<1>1. /\ TypeOK /\ ~Nudge /\ feedback = "none"
  BY ChatAssumption DEF Core, TypeOK, Nudge
<1>2. CASE \E answer \in Answers : Answer(answer)
  <2>1. PICK answer \in Answers : Answer(answer)
    BY <1>2
  <2>2. Tip' = handle' /\ handle' # None
    BY <2>1, HasAnswer, NoneAssumption
  <2>3. pc' = "assistant" /\ UNCHANGED reason
    BY <2>1 DEF Answer
  <2> QED BY <2>2, <2>3
<1>3. CASE PersistAssistant
  <2> DEFINE last == history[Len(history)]
  <2>1. /\ rollout' = Append(rollout, ItemLine(last)) /\ UNCHANGED <<handle, reason>>
        /\ pc = "assistant" /\ pc' = "reply"
    BY <1>3 DEF PersistAssistant
  <2>2. last \in Item
    BY <1>1, LenProperties, EmptySeq DEF Core, TypeOK
  <2> HIDE DEF last
  <2>3. Tip' = Tip
    BY <2>1, <2>2, ItemFiled
  <2> QED BY <2>1, <2>3
<1>4. CASE EndTurn
  <2>1. UNCHANGED <<rollout, handle, history>> /\ pc = "reply" /\ pc' = "done" /\ reason' = "end_turn"
    BY <1>4 DEF EndTurn, Stop
  <2>2. Items' = Items /\ Tip' = Tip
    BY <2>1 DEF Items, Tip
  <2>3. Items = Filed(history)
    BY <2>1 DEF FiledInv, Items
  <2> QED BY <2>1, <2>2, <2>3
<1>5. CASE SendRequest \/ AppendResults \/ AppendFeedback \/ AppendRecovery \/ AppendAdvice
           \/ \E n \in 1..MaxCalls, fb \in Feedbacks : \E calls \in [1..n -> Call] : RunBatch(calls, fb)
  <2>1. pc' \notin {"assistant", "reply", "done"} /\ UNCHANGED reason
    BY <1>1, <1>5 DEF SendRequest, AppendResults, AppendFeedback, AppendRecovery, AppendAdvice, RunBatch
  <2> QED BY <2>1
<1> QED BY <1>1, <1>2, <1>3, <1>4, <1>5 DEF RunnerStep

LEMMA FileRun ==
  ASSUME intact', FileInv, RunStep
  PROVE  FileInv'
<1>1. /\ ChatInv /\ ChatTypes /\ RunInv /\ ChatInv' /\ RunnerStep /\ UNCHANGED chatVars /\ RunInv'
      /\ UNCHANGED chatHistory
  BY RunChat DEF FileInv, ChatInv, RunStep, chatVars
<1>2. pc \in Running
  BY <1>1, StepRuns
<1>3. /\ ~StopAtTop /\ ~StreamCut /\ ~ResumeFails /\ ~GenerateFails
      /\ Core /\ CallsInv /\ RunFile /\ [Next]_vars
  BY <1>1, <1>2 DEF FileInv, RunInv, Next, RunStep
<1>4. /\ Plain(history) /\ AnsweredInv /\ Continues /\ AllDelivered /\ FiledInv
      /\ provider = "openai" => conv # None
      /\ handle # None => Has(provider, handle, history, Covered, convs)
      /\ pc \in {"assistant", "reply", "done"} => handle # None /\ handle = Tip
      /\ reason # "thrown"
  BY <1>3 DEF RunFile
<1>5. Core' /\ Plain(history') /\ AnsweredInv' /\ Continues' /\ AllDelivered' /\ FiledInv'
  BY <1>1, <1>3, <1>4, CoreStep, PlainStep, AnsweredStep, ContinuesStep, DeliveredStep, FiledStep
<1>6. /\ handle' # None => Has(provider', handle', history', Covered', convs')
      /\ UNCHANGED <<provider, conv>>
  BY <1>3, <1>4, HasRun, <1>1
<1>7. /\ pc' \in {"assistant", "reply", "done"} => handle' # None /\ handle' = Tip'
      /\ pc' = "done" => Items' = Filed(history')
      /\ reason' # "thrown"
  BY <1>1, <1>3, <1>4, TipRun
<1>8. RunFile'
  BY <1>4, <1>5, <1>6, <1>7 DEF RunFile
<1>9. pc' \notin Waiting
  BY <1>5 DEF Core, TypeOK, Stages, Waiting
<1> QED BY <1>1, <1>8, <1>9 DEF FileInv

LEMMA FileMessage ==
  ASSUME FileInv, Message
  PROVE  FileInv'
<1> DEFINE item == NewItem("user")
<1>1. /\ ChatTypes /\ ChatInv' /\ WaitFile /\ pc = "idle" /\ pc' = "ensure" /\ after' = "run"
      /\ chatHistory' = Append(chatHistory, item) /\ rollout' = Append(rollout, ItemLine(item))
      /\ UNCHANGED <<provider, conv, convs, convTried, chatHandle, chatDelivered>>
  BY MessageChat DEF FileInv, ChatInv, Message, Waiting
<1>2. item \in Item /\ item.kind = "user"
  BY <1>1 DEF NewItem, Item, ItemKinds, ChatTypes
<1> HIDE DEF item
<1>3. Items \in Seq(Item) /\ Items' = Append(Items, item) /\ Tip' = Tip
  BY <1>1, <1>2, ItemFiled
<1>4. /\ Items' \in Seq(Item) /\ Len(Items') = Len(Items) + 1 /\ Len(Items) \in Nat
      /\ \A i \in 1..Len(Items) : Items'[i] = Items[i]
  BY <1>2, <1>3, AppendProperties, LenProperties
<1>5. /\ Plain(Items) /\ AllAnsweredIn(Items) /\ chatHistory = Items
      /\ IF Tip = None THEN Said = 0 ELSE Has(provider, Tip, Items, Said, convs)
      /\ conv = (IF Tip = None THEN None ELSE Tip.conv) /\ convTried = (conv # None)
      /\ chatHandle = None => Said = 0
      /\ chatHandle # None => chatHandle = Tip /\ chatDelivered = Said
  BY <1>1 DEF WaitFile
<1>6. Plain(Items') /\ AllAnsweredIn(Items')
  BY <1>2, <1>3, <1>5, PlainAppend, AllAnsweredAppend
<1>7. Said = Len(Items) /\ Said' = Len(Items)
  BY <1>1, <1>4 DEF Said
<1>8. ASSUME Tip # None PROVE Has(provider, Tip, Items', Said, convs)
  <2>1. Has(provider, Tip, Items, Said, convs) /\ Said \in 0..Len(Items) /\ Len(Items') >= Len(Items)
    BY <1>4, <1>5, <1>7, <1>8
  <2> QED BY <1>3, <1>4, <2>1, HasKept
<1>9. WaitFile'
  BY <1>1, <1>3, <1>5, <1>6, <1>7, <1>8 DEF WaitFile
<1> QED BY <1>1, <1>9 DEF FileInv, Running, Stages

\* A conversation that is made sure of is the one of the last handle on file.
LEMMA FileCreate ==
  ASSUME ChatTypes, NEW c \in Unused, c # None, CreateConversation(c)
  PROVE  /\ Items' = Items /\ Tip' = ConversationHandle(c) /\ Tip' # None
         /\ conv' = c /\ Tip'.conv = c
         /\ \A p, items : p = "openai" => Has(p, Tip', items, 0, convs)
<1>1. ConversationHandle(c) \in Handle /\ rollout' = Append(rollout, HandleLine(ConversationHandle(c)))
      /\ conv' = c
  BY EmptySeq DEF Unused, CreateConversation, ConversationHandle, Handle
<1>2. Items' = Items /\ Tip' = ConversationHandle(c)
  BY <1>1, HandleFiled
<1>3. Tip' # None
  BY <1>1, <1>2, NoneAssumption
<1> QED BY <1>1, <1>2, <1>3 DEF ConversationHandle, Has

\* Where the chat is to go on from, after ensureConversation.
LEMMA EnsureFile ==
  ASSUME intact', FileInv, NEW c \in Unused \cup {None}, EnsureConversation(c)
  PROVE  /\ ChatInv' /\ ChatTypes /\ Items \in Seq(Item) /\ Items' = Items
         /\ Plain(Items) /\ AllAnsweredIn(Items) /\ chatHistory = Items
         /\ UNCHANGED <<provider, convs, chatHistory, chatHandle, chatDelivered, after>>
         /\ IF Tip' = None THEN Said = 0 ELSE Has(provider, Tip', Items, Said, convs)
         /\ conv' = (IF Tip' = None THEN None ELSE Tip'.conv)
         /\ convTried' = (conv' # None)
         /\ provider = "openai" => conv' # None
         /\ chatHandle = None => Said = 0
         /\ chatHandle # None => chatHandle = Tip' /\ chatDelivered = Said
<1>1. /\ ChatTypes /\ ChatInv' /\ WaitFile /\ pc = "ensure"
      /\ UNCHANGED <<provider, convs, chatHistory, chatHandle, chatDelivered, after>>
  BY EnsureChat DEF FileInv, ChatInv, EnsureConversation, Waiting
<1>2. /\ Plain(Items) /\ AllAnsweredIn(Items) /\ chatHistory = Items
      /\ IF Tip = None THEN Said = 0 ELSE Has(provider, Tip, Items, Said, convs)
      /\ conv = (IF Tip = None THEN None ELSE Tip.conv) /\ convTried = (conv # None)
      /\ chatHandle = None => Said = 0
      /\ chatHandle # None => chatHandle = Tip /\ chatDelivered = Said
  BY <1>1 DEF WaitFile
<1>3. Items \in Seq(Item)
  BY <1>1, <1>2 DEF ChatTypes
<1>4. CASE conv # None \/ convTried \/ provider # "openai"
  <2>1. UNCHANGED <<conv, convTried, rollout>>
    BY <1>4 DEF EnsureConversation
  <2>2. Items' = Items /\ Tip' = Tip
    BY <2>1 DEF Items, Tip
  <2> QED BY <1>1, <1>2, <1>3, <1>4, <2>1, <2>2
<1>5. CASE ~(conv # None \/ convTried \/ provider # "openai")
  <2>1. CreateConversation(c) /\ convTried' = TRUE /\ c # None
    BY <1>5 DEF EnsureConversation, CreateConversation
  <2>2. c \in Unused
    BY <2>1
  <2>3. /\ Items' = Items /\ Tip' # None /\ conv' = c /\ Tip'.conv = c
        /\ \A p, items : p = "openai" => Has(p, Tip', items, 0, convs)
    BY <1>1, <2>1, <2>2, FileCreate
  <2>4. Tip = None \/ Tip.conv = None
    BY <1>2, <1>5
  <2>5. Tip = None
    BY <1>2, <1>5, <2>4 DEF Has
  <2>6. Said = 0 /\ chatHandle = None
    BY <1>2, <2>5
  <2> QED BY <1>1, <1>2, <1>3, <1>5, <2>1, <2>3, <2>6
<1> QED BY <1>4, <1>5

LEMMA FileEnsure ==
  ASSUME intact', FileInv, NEW c \in Unused \cup {None}, EnsureConversation(c)
  PROVE  FileInv'
<1>1. /\ ChatInv' /\ ChatTypes /\ Items \in Seq(Item) /\ Items' = Items
      /\ Plain(Items) /\ AllAnsweredIn(Items) /\ chatHistory = Items
      /\ UNCHANGED <<provider, convs, chatHistory, chatHandle, chatDelivered, after>>
      /\ IF Tip' = None THEN Said = 0 ELSE Has(provider, Tip', Items, Said, convs)
      /\ conv' = (IF Tip' = None THEN None ELSE Tip'.conv) /\ convTried' = (conv' # None)
      /\ provider = "openai" => conv' # None
      /\ chatHandle = None => Said = 0
      /\ chatHandle # None => chatHandle = Tip' /\ chatDelivered = Said
  BY EnsureFile
<1>2. pc = "ensure" /\ Len(Items) \in Nat /\ chatHistory \in Seq(Item)
  BY <1>1, LenProperties DEF EnsureConversation
<1>3. CASE after # "run"
  <2>1. pc' = "idle"
    BY <1>3 DEF EnsureConversation
  <2>2. Said' = Said
    BY <1>1, <1>2, <1>3, <2>1 DEF Said
  <2>3. WaitFile'
    BY <1>1, <2>1, <2>2 DEF WaitFile
  <2> QED BY <1>1, <2>1, <2>3 DEF FileInv, Running, Stages
<1>4. CASE after = "run"
  <2>1. /\ history' = chatHistory /\ handle' = chatHandle /\ pc' = "loop" /\ aborted' = FALSE
        /\ reason' = "end_turn"
        /\ delivered' = IF chatHandle = None \/ chatDelivered > Len(chatHistory)
                        THEN Len(chatHistory) ELSE chatDelivered
    BY <1>4 DEF EnsureConversation, Start, Renewed
  <2>2. Said = Len(Items) - 1
    BY <1>2, <1>4 DEF Said
  <2>3. Plain(history') /\ AnsweredInv' /\ Continues'
    <3>1. AllAnsweredIn(history')
      BY <1>1, <2>1
    <3> QED BY <1>1, <1>2, <2>1, <3>1 DEF AnsweredInv, AllAnsweredIn, Continues
  <2>4. AllDelivered'
    BY <2>1 DEF AllDelivered
  <2>5. FiledInv'
    <3>1. Filed(history') = Items
      BY <1>1, <1>2, <2>1, FiledPlain
    <3> QED BY <1>1, <2>1, <3>1 DEF FiledInv, Items
  <2>6. handle' # None => Has(provider', handle', history', Covered', convs')
    <3> SUFFICES ASSUME chatHandle # None PROVE Has(provider', handle', history', Covered', convs')
      BY <2>1
    <3>1. chatHandle = Tip' /\ Tip' # None /\ chatDelivered = Said /\ delivered' = Said
      BY <1>1, <1>2, <2>1, <2>2
    <3>2. Covered' = Said
      BY <2>1, <3>1 DEF Covered
    <3> QED BY <1>1, <2>1, <3>1, <3>2
  <2>7. RunFile'
    BY <1>1, <2>1, <2>3, <2>4, <2>5, <2>6 DEF RunFile
  <2> QED BY <1>1, <2>1, <2>7 DEF FileInv, Waiting
<1> QED BY <1>3, <1>4

LEMMA FileEnd ==
  ASSUME FileInv, EndRun
  PROVE  FileInv'
<1>1. /\ pc = "done" /\ pc \in Running /\ pc' = "idle" /\ ChatTypes /\ RunInv /\ ChatInv'
      /\ UNCHANGED <<provider, convs, rollout>>
  BY EndChat DEF FileInv, ChatInv, EndRun, Rest, Running, Stages
<1>2. /\ Core /\ Plain(history) /\ AnsweredInv /\ Continues /\ AllDelivered
      /\ Items = Filed(history) /\ handle # None /\ handle = Tip /\ reason # "thrown"
      /\ Has(provider, handle, history, Covered, convs)
  BY <1>1 DEF FileInv, RunInv, RunFile
<1>3. /\ chatHistory' = chatHistory \o SubSeq(history, Len(chatHistory) + 1, Len(history))
      /\ chatHandle' = handle /\ SyncConversation(handle)
      /\ chatDelivered' = DeliveredBy(chatHistory', handle)
  BY <1>2 DEF EndRun
<1>4. chatHistory' = history /\ history \in Seq(Item) /\ Len(history) \in Nat
  BY <1>1, <1>2, <1>3, RestOfRun, LenProperties DEF ChatTypes
<1>5. Items = history /\ Items' = history /\ Tip' = handle
  BY <1>1, <1>2, <1>4, FiledPlain DEF Items, Tip
<1>6. /\ chatDelivered' = Len(history) /\ delivered = Len(history) /\ Covered = Len(history)
      /\ Said' = Len(history)
  BY <1>1, <1>2, <1>3, <1>4, <1>5 DEF DeliveredBy, AllDelivered, Covered, Said
<1>7. conv' = handle.conv /\ convTried' = (conv' # None)
  BY <1>2, <1>3 DEF SyncConversation
<1>8. AllAnsweredIn(history)
  BY <1>1, <1>2 DEF AnsweredInv, AllAnsweredIn
<1>9. WaitFile'
  BY <1>1, <1>2, <1>3, <1>4, <1>5, <1>6, <1>7, <1>8 DEF WaitFile
<1> QED BY <1>1, <1>9 DEF FileInv, Running, Stages

LEMMA FileCompact ==
  ASSUME FileInv, Compact
  PROVE  FileInv'
<1>1. /\ ChatInv' /\ WaitFile /\ pc = "idle" /\ pc' = "compact" /\ provider = "openai"
      /\ compacted' = [kind |-> "compacted", conv |-> None, covers |-> chatHistory]
      /\ UNCHANGED <<provider, rollout, chatHistory>>
  BY CompactChat DEF FileInv, Compact, Command, CompactedItems, Waiting
<1>2. Items' = Items
  BY <1>1 DEF Items
<1>3. WaitFile'
  BY <1>1, <1>2 DEF WaitFile
<1> QED BY <1>1, <1>3 DEF FileInv, Running, Stages

LEMMA FileCompacting ==
  ASSUME intact', FileInv, NEW c \in Unused \cup {None}, CompactConversation(c)
  PROVE  FileInv'
<1>1. /\ ChatInv' /\ ChatTypes /\ RunInv /\ WaitFile /\ pc = "compact" /\ pc' = "install"
      /\ compacted' = [compacted EXCEPT !.conv = c] /\ CreateConversation(c)
      /\ UNCHANGED <<provider, chatHistory>>
  BY CompactingChat DEF FileInv, ChatInv, CompactConversation, Waiting
<1>2. c # None /\ c \in Unused
  BY <1>1 DEF CreateConversation
<1>3. Items' = Items
  BY <1>1, <1>2, FileCreate
<1>4. compacted \in Handle
  BY <1>1 DEF ChatTypes, RunInv
<1>5. compacted'.kind = compacted.kind /\ compacted'.covers = compacted.covers /\ compacted'.conv = c
  BY <1>1, <1>4 DEF Handle
<1>6. WaitFile'
  BY <1>1, <1>2, <1>3, <1>5 DEF WaitFile
<1> QED BY <1>1, <1>6 DEF FileInv, Running, Stages

\* What was compacted is in the new context.
LEMMA CoversHas ==
  ASSUME NEW h \in Handle, h.kind = "compacted", h.conv # None, NEW kept \in [Convs -> Seq(Item)]
  PROVE  Has("openai", h, h.covers, Len(h.covers), kept)
<1> DEFINE s == kept[h.conv]
           t == h.covers
           joined == s \o t
<1>1. s \in Seq(Item) /\ t \in Seq(Item)
  BY DEF Handle
<1>2. InContext(h, kept) = joined
  BY DEF InContext
<1> HIDE DEF s, t
<1>3. /\ Len(joined) = Len(s) + Len(t) /\ Len(s) \in Nat /\ Len(t) \in Nat
      /\ \A i \in Len(s) + 1..Len(s) + Len(t) : joined[i] = t[i - Len(s)]
  BY <1>1, Joined, LenProperties
<1> HIDE DEF joined
<1>4. ASSUME NEW i \in 1..Len(t)
      PROVE  \E j \in 1..Len(joined) : joined[j] = t[i]
  <2>1. Len(s) + i \in Len(s) + 1..Len(s) + Len(t) /\ (Len(s) + i) - Len(s) = i
        /\ Len(s) + i \in 1..Len(joined)
    BY <1>3
  <2>2. joined[Len(s) + i] = t[i]
    BY <1>3, <2>1
  <2> QED BY <2>1, <2>2
<1> QED BY <1>2, <1>4 DEF Has, t

LEMMA FileInstall ==
  ASSUME FileInv, CompactInstall
  PROVE  FileInv'
<1>1. /\ ChatInv' /\ ChatTypes /\ RunInv /\ WaitFile /\ pc = "install" /\ pc' = "idle"
      /\ chatHandle' = compacted /\ chatDelivered' = Len(chatHistory) /\ SyncConversation(compacted)
      /\ rollout' = Append(rollout, HandleLine(compacted))
      /\ UNCHANGED <<provider, convs, chatHistory>>
  BY InstallChat DEF FileInv, ChatInv, CompactInstall, Waiting
<1>2. compacted \in Handle /\ compacted # None
  BY <1>1 DEF ChatTypes, RunInv
<1>3. Items' = Items /\ Tip' = compacted
  BY <1>1, <1>2, HandleFiled
<1>4. /\ Plain(Items) /\ AllAnsweredIn(Items) /\ chatHistory = Items /\ provider = "openai"
      /\ compacted.kind = "compacted" /\ compacted.covers = chatHistory /\ compacted.conv # None
  BY <1>1 DEF WaitFile
<1>5. conv' = compacted.conv /\ convTried' = (conv' # None)
  BY <1>1, <1>2 DEF SyncConversation
<1>6. Said' = Len(Items)
  BY <1>1, <1>3 DEF Said
<1>7. Has(provider, compacted, Items, Len(Items), convs)
  BY <1>1, <1>2, <1>4, CoversHas DEF ChatTypes
<1>8. WaitFile'
  BY <1>1, <1>2, <1>3, <1>4, <1>5, <1>6, <1>7 DEF WaitFile
<1> QED BY <1>1, <1>8 DEF FileInv, Running, Stages

\* Rebuilt from the file, the chat is where the file is.
LEMMA FileRebuild ==
  ASSUME FileInv, ChatInv', Rebuild, pc \in {"idle", "down"}, UNCHANGED <<provider, convs, rollout>>
  PROVE  FileInv'
<1>1. /\ WaitFile /\ pc' = "ensure" /\ after' = "idle" /\ chatHistory' = Items /\ chatHandle' = Tip
      /\ SyncConversation(Tip) /\ chatDelivered' = Len(chatHistory')
      /\ Items' = Items /\ Tip' = Tip
  BY DEF FileInv, Rebuild, Items, Tip, Waiting
<1>2. /\ Plain(Items) /\ AllAnsweredIn(Items)
      /\ IF Tip = None THEN Said = 0 ELSE Has(provider, Tip, Items, Said, convs)
  BY <1>1 DEF WaitFile
<1>3. Said' = Said /\ Said = Len(Items)
  BY <1>1 DEF Said
<1>4. conv' = (IF Tip' = None THEN None ELSE Tip'.conv) /\ convTried' = (conv' # None)
  BY <1>1 DEF SyncConversation
<1>5. WaitFile'
  BY <1>1, <1>2, <1>3, <1>4 DEF WaitFile
<1> QED BY <1>1, <1>5 DEF FileInv, Running, Stages

LEMMA FileDown ==
  ASSUME FileInv, pc = "idle", GoDown
  PROVE  FileInv'
<1>1. ChatInv' /\ WaitFile /\ pc' = "down" /\ UNCHANGED <<provider, convs, rollout>>
  BY DownChat DEF FileInv, GoDown, Rest, Waiting
<1>2. Items' = Items /\ Tip' = Tip
  BY <1>1 DEF Items, Tip
<1>3. Said' = Said
  BY <1>1, <1>2 DEF Said
<1>4. WaitFile'
  BY <1>1, <1>2, <1>3 DEF WaitFile
<1> QED BY <1>1, <1>4 DEF FileInv, Running, Stages

LEMMA FileStays ==
  ASSUME FileInv, UNCHANGED allVars
  PROVE  FileInv'
<1>1. ChatInv'
  BY ChatStep DEF FileInv
<1>2. /\ UNCHANGED <<pc, provider, conv, convs, rollout, chatHistory, chatHandle, chatDelivered>>
      /\ UNCHANGED <<convTried, after, compacted, history, handle, delivered, reason, aborted>>
  BY DEF allVars, vars, runVars, chatVars
<1>3. Items' = Items /\ Tip' = Tip
  BY <1>2 DEF Items, Tip
<1>4. Said' = Said /\ Covered' = Covered
  BY <1>2, <1>3 DEF Said, Covered
<1>5. WaitFile' = WaitFile
  BY <1>2, <1>3, <1>4 DEF WaitFile
<1>6. /\ AnsweredInv' = AnsweredInv /\ Continues' = Continues /\ AllDelivered' = AllDelivered
      /\ FiledInv' = FiledInv
  BY <1>2 DEF AnsweredInv, Continues, AllDelivered, FiledInv, Last
<1>7. RunFile' = RunFile
  BY <1>2, <1>3, <1>4, <1>6 DEF RunFile
<1> QED BY <1>1, <1>2, <1>5, <1>7 DEF FileInv

LEMMA FileStep ==
  ASSUME intact', FileInv, [ChatNext]_allVars
  PROVE  FileInv'
<1>1. ChatInv'
  BY ChatStep DEF FileInv
<1>2. CASE \E c \in Unused \cup {None} : EnsureConversation(c) \/ CompactConversation(c)
  BY <1>2, FileEnsure, FileCompacting
<1>3. CASE \E p \in Providers : Restart(p) \/ \E name \in {"new", "switch"} : Reset(name, p)
  <2>1. PICK p \in Providers : Restart(p) \/ \E name \in {"new", "switch"} : Reset(name, p)
    BY <1>3
  <2>2. \A name \in {"new", "switch"} : ~Reset(name, p)
    BY DEF Reset, Command
  <2>3. Rebuild /\ pc = "down" /\ UNCHANGED <<provider, convs, rollout>>
    BY <2>1, <2>2 DEF Restart
  <2> QED BY <1>1, <2>3, FileRebuild
<1>4. CASE Resume
  BY <1>1, <1>4, FileRebuild DEF Resume, Command
<1>5. CASE Exit \/ Crash
  <2>1. GoDown /\ pc = "idle"
    BY <1>5 DEF Exit, Crash, GoDown
  <2> QED BY <2>1, FileDown
<1>6. ~Clear
  BY DEF Clear, Command
<1> QED BY <1>2, <1>3, <1>4, <1>5, <1>6, FileMessage, FileRun, FileEnd, FileCompact, FileInstall, FileStays
        DEF ChatNext

LEMMA FileStart == ChatInit => FileInv
<1> SUFFICES ASSUME ChatInit PROVE FileInv
  OBVIOUS
<1>1. /\ ChatInv /\ pc = "ensure" /\ after = "idle" /\ chatHandle = None /\ chatHistory = <<>>
      /\ conv = None /\ convTried = FALSE /\ rollout = <<>>
  BY ChatStart DEF ChatInit
<1>2. Len(<<>>) = 0 /\ DOMAIN <<>> = {}
  OBVIOUS
<1>3. Items = <<>>
  <2>1. <<>> \in Seq(Line)
    BY EmptySeq
  <2>2. Read(<<>>)[0] = <<>>
    BY <2>1, ReadExists
  <2> QED BY <1>1, <1>2, <2>2 DEF Items, ResponseItems, Read
<1>4. Tip = None
  BY <1>1, <1>2 DEF Tip, LastHandle
<1>5. Said = 0
  BY <1>1, <1>2, <1>3 DEF Said
<1>6. Plain(Items) /\ AllAnsweredIn(Items)
  BY <1>2, <1>3 DEF Plain, AllAnsweredIn
<1>7. WaitFile
  BY <1>1, <1>3, <1>4, <1>5, <1>6 DEF WaitFile
<1> QED BY <1>1, <1>7 DEF FileInv, Running, Stages

\* The chat does not get intact again.
LEMMA IntactBefore ==
  ASSUME [ChatNext]_allVars, intact'
  PROVE  intact
<1>1. CASE RunStep
  BY <1>1 DEF RunStep
<1>2. CASE Message \/ EndRun \/ CompactInstall
  BY <1>2 DEF Message, EndRun, CompactInstall
<1>3. CASE \E c \in Unused \cup {None} : EnsureConversation(c) \/ CompactConversation(c)
  BY <1>3 DEF EnsureConversation, CompactConversation, CreateConversation
<1>4. CASE \E p \in Providers : Restart(p) \/ \E name \in {"new", "switch"} : Reset(name, p)
  BY <1>4 DEF Restart, Reset, Command
<1>5. CASE Clear \/ Compact \/ Resume \/ Exit \/ Crash
  BY <1>5 DEF Clear, Compact, Resume, Exit, Crash, Command, GoDown
<1>6. CASE UNCHANGED allVars
  BY <1>6 DEF allVars
<1> QED BY <1>1, <1>2, <1>3, <1>4, <1>5, <1>6 DEF ChatNext

\* With the invariant a request shows the model all that was said.
LEMMA FileSeen ==
  ASSUME FileInv, Asking
  PROVE  NothingLost /\ CallsAnswered /\ FileReachesModel
<1>1. pc = "request" /\ pc \in Running
  BY DEF Asking, Running, Stages
<1>2. /\ Core /\ RunFile /\ TypeOK /\ request \in Request /\ history \in Seq(Item)
      /\ request.handle = handle /\ provider \in {"openai", "anthropic"}
  BY <1>1, ModesAssumption DEF FileInv, ChatInv, RunInv, Core, RequestInv, TypeOK
<1>3. /\ Plain(history) /\ AnsweredInv /\ FiledInv /\ Covered = delivered
      /\ provider = "openai" => conv # None
      /\ handle # None => Has(provider, handle, history, Covered, convs)
  BY <1>1, <1>2 DEF RunFile, Covered
<1>4. /\ DOMAIN history = 1..Len(history) /\ Len(history) \in Nat
      /\ DOMAIN Seen(request) = 1..Len(Seen(request))
  BY <1>2, SeenType, LenProperties
<1>5. ResponseItems(rollout) = history
  BY <1>1, <1>2, <1>3, FiledPlain DEF FiledInv
<1>6. CASE provider = "openai"
  <2>1. \A i \in 1..Len(history) : \E j \in 1..Len(Seen(request)) : Seen(request)[j] = history[i]
    BY <1>1, <1>2, <1>3, <1>6, HasSeen
  <2>2. NothingLost
    BY <1>4, <2>1 DEF NothingLost
  <2>3. FileReachesModel
    BY <1>4, <1>5, <2>1 DEF FileReachesModel
  <2>4. ConvUsed(request.handle) # None
    BY <1>2, <1>3, <1>6 DEF ConvUsed, Has
  <2> QED BY <2>2, <2>3, <2>4 DEF CallsAnswered
<1>7. CASE provider = "anthropic"
  <2>1. HandleInv /\ Own = None
    BY <1>2, <1>3, <1>7, HasHandleInv
  <2>2. Seen(request) = history
    BY <1>1, <1>2, <2>1, SeesHistory
  <2>3. NothingLost
    BY <1>4, <2>2 DEF NothingLost
  <2>4. FileReachesModel
    BY <1>4, <1>5, <2>2 DEF FileReachesModel
  <2>5. CallsAnswered
    BY <1>1, <1>3, <1>4, <2>2 DEF CallsAnswered, AnsweredInv
  <2> QED BY <2>3, <2>4, <2>5
<1> QED BY <1>2, <1>6, <1>7

\* Over the messages of a chat, compactions, exits and resumes of one file after
\* another, each request shows the model all that is on file, which is all of
\* the history, with every call answered at once, until a request fails or stops
\* short, a process dies in a run, a conversation is refused, or the context is
\* given up or goes to another preset (readSnapshot, compactSession, resume).
THEOREM SessionReaches == ChatSpec => []ResumedReaches
<1> DEFINE IfIntact == intact => FileInv
<1>1. ChatInit => IfIntact
  BY FileStart
<1>2. IfIntact /\ [ChatNext]_allVars => IfIntact'
  BY FileStep, IntactBefore
<1>3. IfIntact => ResumedReaches
  <2> SUFFICES ASSUME FileInv PROVE NothingLost /\ CallsAnswered /\ FileReachesModel
    BY DEF ResumedReaches
  <2>1. ~Asking => NothingLost /\ CallsAnswered /\ FileReachesModel
    BY DEF NothingLost, CallsAnswered, FileReachesModel
  <2> QED BY <2>1, FileSeen
<1> QED BY <1>1, <1>2, <1>3, PTL DEF ChatSpec
=============================================================================
