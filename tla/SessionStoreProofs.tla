------------------------- MODULE SessionStoreProofs -------------------------
(***************************************************************************)
(* What holds of SessionStore for any number of processes and sessions.    *)
(*                                                                         *)
(* Type correctness needs one more fact than TypeOK: a process inside a    *)
(* store call knows its session.  Exclusion is proved until a fault        *)
(* strikes: a lock file always belongs to a live process that is either    *)
(* writing it or holds the session, so no process ever gets to remove a    *)
(* lock as stale.  After a crash exclusion is false (the run stale_lock),  *)
(* and the proof breaks where LoadRemove deletes by path.                  *)
(* What is on file survives all of the faults: FileInv follows a session   *)
(* from the id that only its opener knows to the lines of the appends.     *)
(***************************************************************************)
EXTENDS SessionStore, FiniteSetTheorems, TLAPS

-----------------------------------------------------------------------------
\* Counting lines gives a number, whatever the kinds (rowFromRollout).
LEMMA CountKindType ==
  ASSUME NEW file \in Seq(Line), NEW kinds
  PROVE  CountKind(file, kinds) \in Nat
<1> DEFINE S == {i \in 1 .. Len(file) : file[i].kind \in kinds}
<1>1. IsFiniteSet(1 .. Len(file))
  BY FS_Interval
<1>2. IsFiniteSet(S)
  BY <1>1, FS_Subset
<1> QED
  BY <1>2, FS_CardinalityType DEF CountKind

\* Appending keeps the file a sequence of lines (appendFile).
LEMMA AppendedType ==
  ASSUME NEW file \in Seq(Line), NEW l \in Line
  PROVE  Appended(file, l) \in Seq(Line)
<1>1. [kind |-> "garbled", turn |-> 0] \in Line /\ Torn \in Line
  BY DEF Line, Torn
<1>2. CASE file # <<>> /\ file[Len(file)].kind = "torn"
  BY <1>1, <1>2 DEF Appended
<1>3. CASE ~(file # <<>> /\ file[Len(file)].kind = "torn")
  BY <1>3 DEF Appended
<1> QED
  BY <1>2, <1>3

LEMMA RowFromRolloutType ==
  ASSUME TypeOK, NEW s \in Sessions
  PROVE  RowFromRollout(s) \in Row
<1>1. CountKind(rollout[s], {"turn_context"}) \in Nat
  BY CountKindType DEF TypeOK
<1> QED
  BY <1>1 DEF RowFromRollout, Row

LEMMA UpsertedType ==
  ASSUME TypeOK, NEW s \in Sessions, NEW turn \in Nat,
         NEW status \in {"active", "completed", "crashed"}
  PROVE  Upserted(s, status, turn) \in Row
<1>1. row[s] \in Row \cup {NoRow}
  BY DEF TypeOK
<1> QED
  BY <1>1 DEF Upserted, Row

-----------------------------------------------------------------------------
\* A process inside a call has the session of that call.
CallHasSession == \A p \in Procs : pc[p] # "idle" => sess[p] \in Sessions

TypeInv == TypeOK /\ CallHasSession

LEMMA TypeInit == Init => TypeInv
BY DEF Init, TypeInv, TypeOK, CallHasSession, Stages, LockFile

\* Dies: the memory of a process goes, what it wrote stays.
LEMMA DiesType ==
  ASSUME TypeInv, NEW p \in Procs, Dies(p), UNCHANGED <<lock, row, opened, acked, purged>>,
         rollout' \in [Sessions -> Seq(Line)], struck' \subseteq Faults
  PROVE  TypeInv'
BY DEF Dies, TypeInv, TypeOK, CallHasSession, Stages

LEMMA ProcStepType ==
  ASSUME TypeInv, NEW p \in Procs, ProcStep(p)
  PROVE  TypeInv'
<1> USE DEF TypeInv, TypeOK, CallHasSession, At, Goto, Return
<1>1. CASE WriteLock(p)
  BY <1>1 DEF WriteLock, LockFile, Stages
<1>2. CASE OpenMeta(p)
  <2>1. <<Meta>> \in Seq(Line)
    BY DEF Meta, Line
  <2> QED
    BY <1>2, <2>1 DEF OpenMeta, Stages
<1>3. CASE OpenRow(p)
  BY <1>3 DEF OpenRow, Stages, Row
<1>4. CASE LoadCheck(p)
  BY <1>4 DEF LoadCheck, Stages
<1>5. CASE LoadRead(p)
  BY <1>5 DEF LoadRead, Stages
<1>6. CASE LoadRemove(p)
  BY <1>6 DEF LoadRemove, Stages
<1>7. CASE LoadCreate(p)
  <2>1. CASE lock[sess[p]] = NoFile
    <3>1. [pid |-> p, written |-> FALSE] \in LockFile
      BY DEF LockFile
    <3> QED
      BY <1>7, <2>1, <3>1 DEF LoadCreate, Free, Stages
  <2>2. CASE lock[sess[p]] # NoFile
    BY <1>7, <2>2 DEF LoadCreate, Free, Stages
  <2> QED
    BY <2>1, <2>2
<1>8. CASE ListRow(p)
  BY <1>8 DEF ListRow, Stages
<1>9. CASE PurgeRollout(p)
  BY <1>9 DEF PurgeRollout, Stages
<1>10. CASE PurgeLock(p)
  BY <1>10 DEF PurgeLock, Stages
<1>11. CASE Exit(p)
  BY <1>11 DEF Exit
<1>12. CASE Crash(p)
  BY <1>12, DiesType DEF Crash, Strikes, TypeInv, TypeOK
<1> QED
  BY <1>1, <1>2, <1>3, <1>4, <1>5, <1>6, <1>7, <1>8, <1>9, <1>10, <1>11, <1>12 DEF ProcStep

LEMMA CallStepType ==
  ASSUME TypeInv, NEW p \in Procs, NEW s \in Sessions, CallStep(p, s)
  PROVE  TypeInv'
<1> USE DEF TypeInv, TypeOK, CallHasSession, At, Begin
<1>1. CASE OpenLock(p, s)
  BY <1>1 DEF OpenLock, LockFile, Stages
<1>2. CASE LoadFind(p, s)
  BY <1>2, RowFromRolloutType DEF LoadFind, Stages
<1>3. CASE ListRead(p, s)
  BY <1>3, RowFromRolloutType DEF ListRead, Stages
<1>4. CASE Release(p, s)
  BY <1>4 DEF Release
<1>5. ASSUME NEW item \in Items, AppendStart(p, s, item)
      PROVE  TypeInv'
  <2>1. item \in Line
    BY BoundsAssumption DEF Items, Line
  <2>2. [proc |-> p, sess |-> s, item |-> item, wrote |-> FALSE] \in AppendCall
    BY <2>1 DEF AppendCall
  <2> QED
    BY <1>5, <2>2 DEF AppendStart
<1>6. ASSUME NEW status \in {"completed", "crashed"}, MarkCompleted(p, s, status)
      PROVE  TypeInv'
  <2>1. Upserted(s, status, 0) \in Row
    BY UpsertedType
  <2> QED
    BY <1>6, <2>1 DEF MarkCompleted
<1>7. ASSUME NEW purge \in BOOLEAN, Delete(p, s, purge)
      PROVE  TypeInv'
  BY <1>7 DEF Delete, Strikes, Stages
<1> QED
  BY <1>1, <1>2, <1>3, <1>4, <1>5, <1>6, <1>7 DEF CallStep

LEMMA AppendStepType ==
  ASSUME TypeInv, NEW call \in inflight, AppendStep(call)
  PROVE  TypeInv'
<1>0. /\ call \in AppendCall /\ call.proc \in Procs /\ call.sess \in Sessions
      /\ call.item \in Line /\ call.item.turn \in Nat
      /\ rollout[call.sess] \in Seq(Line) /\ acked[call.sess] \in Nat
  BY DEF TypeInv, TypeOK, AppendCall, Line
<1>1. CASE AppendWrite(call)
  <2>1. Appended(rollout[call.sess], call.item) \in Seq(Line)
    BY <1>0, AppendedType
  <2>2. [call EXCEPT !.wrote = TRUE] \in AppendCall
    BY <1>0 DEF AppendCall
  <2> QED
    BY <1>1, <2>1, <2>2 DEF AppendWrite, TypeInv, TypeOK, CallHasSession
<1>2. CASE AppendRow(call)
  <2>1. Upserted(call.sess, "active", call.item.turn) \in Row
    BY <1>0, UpsertedType DEF TypeInv
  <2> QED
    BY <1>0, <1>2, <2>1 DEF AppendRow, Written, TypeInv, TypeOK, CallHasSession
<1>3. CASE TornCrash(call)
  <2>1. Torn \in Line
    BY DEF Torn, Line
  <2>2. Appended(rollout[call.sess], Torn) \in Seq(Line)
    BY <1>0, <2>1, AppendedType
  <2>3. rollout' \in [Sessions -> Seq(Line)]
    BY <1>3, <2>2 DEF TornCrash, TypeInv, TypeOK
  <2> QED
    BY <1>0, <1>3, <2>3, DiesType DEF TornCrash, Strikes, TypeInv, TypeOK
<1> QED
  BY <1>1, <1>2, <1>3 DEF AppendStep

LEMMA TypeStep == TypeInv /\ [Next]_vars => TypeInv'
<1> SUFFICES ASSUME TypeInv, [Next]_vars PROVE TypeInv'
  OBVIOUS
<1>1. CASE UNCHANGED vars
  BY <1>1 DEF vars, TypeInv, TypeOK, CallHasSession
<1>2. CASE Next
  BY <1>2, ProcStepType, CallStepType, AppendStepType DEF Next
<1> QED
  BY <1>1, <1>2

LEMMA TypeInvariant == Spec => []TypeInv
BY TypeInit, TypeStep, PTL DEF Spec

\* Every state of the store is well typed: each line, lock file and row is one
\* the code can have written (rowFromRollout, upsertSession, acquireLock).
THEOREM TypeCorrect == Spec => []TypeOK
<1>1. TypeInv => TypeOK
  BY DEF TypeInv
<1> QED
  BY <1>1, TypeInvariant, PTL

-----------------------------------------------------------------------------
\* Without crashes and deletes a lock file is always somebody's: its
\* process is alive and either writes it or holds the session.
LockIsOwned ==
  \A s \in Sessions : lock[s] # NoFile =>
    LET p == lock[s].pid IN
    /\ p \in alive
    /\ s \in active[p] \/ (pc[p] \in {"openWrite", "loadWrite"} /\ sess[p] = s)

WriterOwnsLock ==
  \A p \in Procs : pc[p] \in {"openWrite", "loadWrite"} =>
    lock[sess[p]] = [pid |-> p, written |-> FALSE]

NobodyRemoves == \A p \in Procs : pc[p] \notin {"loadRemove", "purgeRollout", "purgeLock"}

LockInv == HolderOwnsLock /\ WriterOwnsLock /\ LockIsOwned /\ NobodyRemoves

LEMMA LockInit == Init => LockInv
BY DEF Init, LockInv, HolderOwnsLock, WriterOwnsLock, LockIsOwned, NobodyRemoves

\* A step that touches no lock, keeps every live process alive and moves one
\* process between stages that neither write nor remove a lock.
LEMMA LockUntouched ==
  ASSUME LockInv, NEW p \in Procs,
         UNCHANGED <<alive, lock, active>>,
         pc[p] \notin {"openWrite", "loadWrite"},
         pc'[p] \notin {"openWrite", "loadWrite", "loadRemove", "purgeRollout", "purgeLock"},
         \A q \in Procs \ {p} : pc'[q] = pc[q] /\ sess'[q] = sess[q],
         \A s \in Sessions : lock[s] # NoFile => lock[s].pid \in Procs
  PROVE  LockInv'
<1>1. HolderOwnsLock'
  BY DEF LockInv, HolderOwnsLock
<1>2. WriterOwnsLock'
  BY DEF LockInv, WriterOwnsLock
<1>3. LockIsOwned'
  BY DEF LockInv, LockIsOwned
<1>4. NobodyRemoves'
  BY DEF LockInv, NobodyRemoves
<1> QED
  BY <1>1, <1>2, <1>3, <1>4 DEF LockInv

\* Creating a lock file where there was none.
LEMMA LockCreated ==
  ASSUME TypeOK, LockInv, NEW p \in Procs, NEW s \in Sessions,
         NEW stage \in {"openWrite", "loadWrite"},
         p \in alive, pc[p] \in {"idle", "loadCreate"}, lock[s] = NoFile,
         lock' = [lock EXCEPT ![s] = [pid |-> p, written |-> FALSE]],
         pc' = [pc EXCEPT ![p] = stage],
         sess' = [sess EXCEPT ![p] = s],
         UNCHANGED <<alive, active>>
  PROVE  LockInv'
<1>0. /\ \A q \in Procs : pc'[q] = IF q = p THEN stage ELSE pc[q]
      /\ \A q \in Procs : sess'[q] = IF q = p THEN s ELSE sess[q]
      /\ \A t \in Sessions :
           lock'[t] = IF t = s THEN [pid |-> p, written |-> FALSE] ELSE lock[t]
      /\ active \in [Procs -> SUBSET Sessions]
  BY DEF TypeOK
<1>1. HolderOwnsLock'
  <2> SUFFICES ASSUME NEW q \in Procs, NEW t \in active[q]
               PROVE  lock'[t] = [pid |-> q, written |-> TRUE]
    BY DEF HolderOwnsLock
  <2>1. t \in Sessions /\ lock[t] = [pid |-> q, written |-> TRUE]
    BY <1>0 DEF LockInv, HolderOwnsLock
  <2>2. t # s
    BY <2>1, NoFileAssumption
  <2> QED
    BY <1>0, <2>1, <2>2
<1>2. WriterOwnsLock'
  <2> SUFFICES ASSUME NEW q \in Procs, pc'[q] \in {"openWrite", "loadWrite"}
               PROVE  lock'[sess'[q]] = [pid |-> q, written |-> FALSE]
    BY DEF WriterOwnsLock
  <2>1. CASE q = p
    BY <1>0, <2>1
  <2>2. CASE q # p
    <3>1. lock[sess[q]] = [pid |-> q, written |-> FALSE] /\ sess'[q] = sess[q]
      BY <1>0, <2>2 DEF LockInv, WriterOwnsLock
    <3>2. sess[q] # s
      BY <3>1, NoFileAssumption
    <3> QED
      BY <3>1, <3>2
  <2> QED
    BY <2>1, <2>2
<1>3. LockIsOwned'
  <2> SUFFICES ASSUME NEW t \in Sessions, lock'[t] # NoFile
               PROVE  LET q == lock'[t].pid IN
                      /\ q \in alive
                      /\ t \in active[q] \/ (pc'[q] \in {"openWrite", "loadWrite"} /\ sess'[q] = t)
    BY DEF LockIsOwned
  <2>1. CASE t = s
    BY <1>0, <2>1
  <2>2. CASE t # s
    <3>1. lock'[t] = lock[t] /\ lock[t].pid \in Procs
      BY <1>0, <2>2 DEF TypeOK, LockFile
    <3> QED
      BY <1>0, <2>2, <3>1 DEF LockInv, LockIsOwned
  <2> QED
    BY <2>1, <2>2
<1>4. NobodyRemoves'
  BY <1>0 DEF LockInv, NobodyRemoves
<1> QED
  BY <1>1, <1>2, <1>3, <1>4 DEF LockInv

\* Removing the lock files of sessions a process holds, and its handles.
LEMMA LockReleased ==
  ASSUME TypeInv, LockInv, NEW p \in Procs, NEW S \in SUBSET active[p],
         pc[p] = "idle",
         lock' = [s \in Sessions |-> IF s \in S THEN NoFile ELSE lock[s]],
         active' = [active EXCEPT ![p] = @ \ S],
         \/ alive' = alive
         \/ (alive' = alive \ {p} /\ S = active[p]),
         UNCHANGED <<pc, sess>>
  PROVE  LockInv'
<1>0. /\ \A q \in Procs : active'[q] = IF q = p THEN active[p] \ S ELSE active[q]
      /\ active \in [Procs -> SUBSET Sessions]
      /\ \A s \in Sessions : lock[s] # NoFile => lock[s].pid \in Procs
  BY DEF TypeInv, TypeOK, LockFile
<1>1. \A s \in S : lock[s] = [pid |-> p, written |-> TRUE]
  BY DEF LockInv, HolderOwnsLock
<1>2. HolderOwnsLock'
  <2> SUFFICES ASSUME NEW q \in Procs, NEW s \in active'[q]
               PROVE  lock'[s] = [pid |-> q, written |-> TRUE]
    BY DEF HolderOwnsLock
  <2>1. s \in Sessions /\ lock[s] = [pid |-> q, written |-> TRUE]
    BY <1>0 DEF LockInv, HolderOwnsLock
  <2>2. s \notin S
    BY <1>0, <1>1, <2>1
  <2> QED
    BY <2>1, <2>2
<1>3. WriterOwnsLock'
  <2> SUFFICES ASSUME NEW q \in Procs, pc[q] \in {"openWrite", "loadWrite"}, sess[q] \in Sessions
               PROVE  lock'[sess[q]] = [pid |-> q, written |-> FALSE]
    BY DEF WriterOwnsLock, TypeInv, CallHasSession
  <2>1. lock[sess[q]] = [pid |-> q, written |-> FALSE]
    BY DEF LockInv, WriterOwnsLock
  <2>2. sess[q] \notin S
    BY <1>1, <2>1
  <2> QED
    BY <2>1, <2>2
<1>4. LockIsOwned'
  <2> SUFFICES ASSUME NEW s \in Sessions, lock'[s] # NoFile
               PROVE  LET q == lock'[s].pid IN
                      /\ q \in alive'
                      /\ s \in active'[q] \/ (pc[q] \in {"openWrite", "loadWrite"} /\ sess[q] = s)
    BY DEF LockIsOwned
  <2>1. s \notin S /\ lock'[s] = lock[s] /\ lock[s].pid \in Procs
    BY <1>0
  <2>2. /\ lock[s].pid \in alive
        /\ \/ s \in active[lock[s].pid]
           \/ pc[lock[s].pid] \in {"openWrite", "loadWrite"} /\ sess[lock[s].pid] = s
    BY <2>1 DEF LockInv, LockIsOwned
  <2> QED
    BY <1>0, <2>1, <2>2
<1>5. NobodyRemoves'
  BY DEF LockInv, NobodyRemoves
<1> QED
  BY <1>2, <1>3, <1>4, <1>5 DEF LockInv

LEMMA ProcStepLock ==
  ASSUME struck' = {}, TypeInv, LockInv, NEW p \in Procs, ProcStep(p)
  PROVE  LockInv'
<1>0. \A s \in Sessions : lock[s] # NoFile => lock[s].pid \in Procs
  BY DEF TypeInv, TypeOK, LockFile
<1> USE DEF TypeInv, TypeOK, CallHasSession, At, Goto, Return
<1>1. CASE WriteLock(p)
  <2>0. p \in alive /\ pc[p] \in {"openWrite", "loadWrite"} /\ sess[p] \in Sessions
    BY <1>1 DEF WriteLock
  <2>1. lock[sess[p]] = [pid |-> p, written |-> FALSE]
    BY <2>0 DEF LockInv, WriterOwnsLock
  <2>2. /\ \A s \in Sessions :
             lock'[s] = IF s = sess[p] THEN [pid |-> p, written |-> TRUE] ELSE lock[s]
        /\ \A q \in Procs :
             active'[q] = IF q = p THEN active[p] \cup {sess[p]} ELSE active[q]
        /\ \A q \in Procs \ {p} : pc'[q] = pc[q] /\ sess'[q] = sess[q]
        /\ pc'[p] \in {"openMeta", "idle"} /\ UNCHANGED alive
    BY <1>1, <2>0, <2>1 DEF WriteLock
  <2>3. HolderOwnsLock'
    <3> SUFFICES ASSUME NEW q \in Procs, NEW s \in active'[q]
                 PROVE  lock'[s] = [pid |-> q, written |-> TRUE]
      BY DEF HolderOwnsLock
    <3>1. CASE q = p /\ s = sess[p]
      BY <2>0, <2>2, <3>1
    <3>2. CASE ~(q = p /\ s = sess[p])
      <4>1. s \in active[q] /\ s \in Sessions /\ lock[s] = [pid |-> q, written |-> TRUE]
        BY <2>2, <3>2 DEF LockInv, HolderOwnsLock
      <4>2. s # sess[p]
        BY <2>1, <4>1
      <4> QED
        BY <2>2, <4>1, <4>2
    <3> QED
      BY <3>1, <3>2
  <2>4. WriterOwnsLock'
    <3> SUFFICES ASSUME NEW q \in Procs, pc'[q] \in {"openWrite", "loadWrite"}
                 PROVE  lock'[sess'[q]] = [pid |-> q, written |-> FALSE]
      BY DEF WriterOwnsLock
    <3>1. q # p /\ pc[q] = pc'[q] /\ sess'[q] = sess[q] /\ sess[q] \in Sessions
      BY <2>2
    <3>2. lock[sess[q]] = [pid |-> q, written |-> FALSE]
      BY <3>1 DEF LockInv, WriterOwnsLock
    <3>3. sess[q] # sess[p]
      BY <2>1, <3>1, <3>2
    <3> QED
      BY <2>2, <3>1, <3>2, <3>3
  <2>5. LockIsOwned'
    <3> SUFFICES ASSUME NEW s \in Sessions, lock'[s] # NoFile
                 PROVE  LET q == lock'[s].pid IN
                        /\ q \in alive
                        /\ s \in active'[q] \/ (pc'[q] \in {"openWrite", "loadWrite"} /\ sess'[q] = s)
      BY <2>2 DEF LockIsOwned
    <3>1. CASE s = sess[p]
      BY <2>0, <2>2, <3>1
    <3>2. CASE s # sess[p]
      <4>1. lock'[s] = lock[s] /\ lock[s].pid \in Procs
        BY <1>0, <2>2, <3>2
      <4>2. /\ lock[s].pid \in alive
            /\ \/ s \in active[lock[s].pid]
               \/ pc[lock[s].pid] \in {"openWrite", "loadWrite"} /\ sess[lock[s].pid] = s
        BY <4>1 DEF LockInv, LockIsOwned
      <4> QED
        BY <2>2, <3>2, <4>1, <4>2
    <3> QED
      BY <3>1, <3>2
  <2>6. NobodyRemoves'
    BY <2>2 DEF LockInv, NobodyRemoves
  <2> QED
    BY <2>3, <2>4, <2>5, <2>6 DEF LockInv
<1>2. CASE OpenMeta(p)
  BY <1>0, <1>2, LockUntouched DEF OpenMeta
<1>3. CASE OpenRow(p)
  BY <1>0, <1>3, LockUntouched DEF OpenRow
<1>4. CASE LoadCheck(p)
  BY <1>0, <1>4, LockUntouched DEF LoadCheck
<1>5. CASE LoadRead(p)
  <2>1. ~(lock[sess[p]] # NoFile /\ lock[sess[p]].written /\ lock[sess[p]].pid \notin alive)
    BY <1>5 DEF LoadRead, Dead, LockInv, LockIsOwned
  <2> QED
    BY <1>0, <1>5, <2>1, LockUntouched DEF LoadRead, Dead
<1>6. CASE LoadCreate(p)
  <2>1. CASE lock[sess[p]] = NoFile
    <3>1. /\ sess[p] \in Sessions /\ p \in alive /\ pc[p] = "loadCreate"
          /\ lock' = [lock EXCEPT ![sess[p]] = [pid |-> p, written |-> FALSE]]
          /\ pc' = [pc EXCEPT ![p] = "loadWrite"]
          /\ sess' = [sess EXCEPT ![p] = sess[p]]
          /\ UNCHANGED <<alive, active>>
      BY <1>6, <2>1 DEF LoadCreate, Free
    <3> QED
      BY <2>1, <3>1, LockCreated
  <2>2. CASE lock[sess[p]] # NoFile
    BY <1>0, <1>6, <2>2, LockUntouched DEF LoadCreate, Free
  <2> QED
    BY <2>1, <2>2
<1>7. CASE ListRow(p)
  BY <1>0, <1>7, LockUntouched DEF ListRow
<1>8. CASE Exit(p)
  <2>1. /\ pc[p] = "idle" /\ active[p] \in SUBSET active[p]
        /\ lock' = [s \in Sessions |-> IF s \in active[p] THEN NoFile ELSE lock[s]]
        /\ active' = [active EXCEPT ![p] = @ \ active[p]]
        /\ alive' = alive \ {p} /\ UNCHANGED <<pc, sess>>
    BY <1>8 DEF Exit
  <2> QED
    BY <2>1, LockReleased
<1>9. CASE LoadRemove(p) \/ PurgeRollout(p) \/ PurgeLock(p) \/ Crash(p)
  BY <1>9 DEF LoadRemove, PurgeRollout, PurgeLock, Crash, Strikes, LockInv, NobodyRemoves
<1> QED
  BY <1>1, <1>2, <1>3, <1>4, <1>5, <1>6, <1>7, <1>8, <1>9 DEF ProcStep

LEMMA CallStepLock ==
  ASSUME struck' = {}, TypeInv, LockInv, NEW p \in Procs, NEW s \in Sessions, CallStep(p, s)
  PROVE  LockInv'
<1>0. \A t \in Sessions : lock[t] # NoFile => lock[t].pid \in Procs
  BY DEF TypeInv, TypeOK, LockFile
<1> USE DEF TypeInv, TypeOK, At, Begin
<1>1. CASE OpenLock(p, s)
  BY <1>1, LockCreated DEF OpenLock
<1>2. CASE LoadFind(p, s)
  BY <1>0, <1>2, LockUntouched DEF LoadFind
<1>3. CASE ListRead(p, s)
  BY <1>0, <1>3, LockUntouched DEF ListRead
<1>4. CASE Release(p, s)
  <2>1. /\ pc[p] = "idle" /\ {s} \in SUBSET active[p]
        /\ lock' = [t \in Sessions |-> IF t \in {s} THEN NoFile ELSE lock[t]]
        /\ active' = [active EXCEPT ![p] = @ \ {s}]
        /\ UNCHANGED <<alive, pc, sess>>
    BY <1>4 DEF Release
  <2> QED
    BY <2>1, LockReleased
<1>5. ASSUME NEW item \in Items, AppendStart(p, s, item)
      PROVE  LockInv'
  BY <1>5 DEF AppendStart, LockInv, HolderOwnsLock, WriterOwnsLock, LockIsOwned, NobodyRemoves
<1>6. ASSUME NEW status \in {"completed", "crashed"}, MarkCompleted(p, s, status)
      PROVE  LockInv'
  BY <1>6 DEF MarkCompleted, LockInv, HolderOwnsLock, WriterOwnsLock, LockIsOwned, NobodyRemoves
<1>7. ASSUME NEW purge \in BOOLEAN, Delete(p, s, purge)
      PROVE  LockInv'
  BY <1>7 DEF Delete, Strikes
<1> QED
  BY <1>1, <1>2, <1>3, <1>4, <1>5, <1>6, <1>7 DEF CallStep

LEMMA LockStep == struck' = {} /\ TypeInv /\ LockInv /\ [Next]_vars => LockInv'
<1> SUFFICES ASSUME struck' = {}, TypeInv, LockInv, [Next]_vars PROVE LockInv'
  OBVIOUS
<1>1. CASE UNCHANGED vars
  BY <1>1 DEF vars, LockInv, HolderOwnsLock, WriterOwnsLock, LockIsOwned, NobodyRemoves
<1>2. ASSUME NEW call \in inflight, AppendStep(call)
      PROVE  LockInv'
  <2>1. UNCHANGED <<alive, lock, active, pc, sess>>
    BY <1>2 DEF AppendStep, AppendWrite, AppendRow, TornCrash, Strikes
  <2> QED
    BY <2>1 DEF LockInv, HolderOwnsLock, WriterOwnsLock, LockIsOwned, NobodyRemoves
<1>3. CASE Next
  BY <1>2, <1>3, ProcStepLock, CallStepLock DEF Next
<1> QED
  BY <1>1, <1>3

\* What has struck stays struck.
LEMMA StruckStays == [Next]_vars => struck \subseteq struck'
<1> SUFFICES ASSUME [Next]_vars PROVE struck \subseteq struck'
  OBVIOUS
<1>1. ASSUME NEW p \in Procs, ProcStep(p) PROVE struck \subseteq struck'
  BY <1>1 DEF ProcStep, WriteLock, OpenMeta, OpenRow, LoadCheck, LoadRead, LoadRemove, LoadCreate,
              ListRow, PurgeRollout, PurgeLock, Exit, Crash, Strikes
<1>2. ASSUME NEW p \in Procs, NEW s \in Sessions, CallStep(p, s) PROVE struck \subseteq struck'
  BY <1>2 DEF CallStep, OpenLock, LoadFind, ListRead, Release, AppendStart, MarkCompleted, Delete,
              Strikes
<1>3. ASSUME NEW call \in inflight, AppendStep(call) PROVE struck \subseteq struck'
  BY <1>3 DEF AppendStep, AppendWrite, AppendRow, TornCrash, Strikes
<1> QED BY <1>1, <1>2, <1>3 DEF Next, vars

\* Until a process dies or somebody deletes, the lock file of a held session
\* is its holder's, and so at most one process at a time can append to it
\* (acquireLock, release, close): for any processes and sessions.
THEOREM Exclusion == Spec => []HeldUntilStruck
<1> DEFINE Safe == struck = {} => LockInv
<1>1. Init => Safe
  BY LockInit
<1>2. TypeInv /\ Safe /\ [Next]_vars => Safe'
  BY LockStep, StruckStays
<1>3. LockInv => LockExclusion
  <2> SUFFICES ASSUME HolderOwnsLock, NEW p \in Procs, NEW q \in Procs, p # q,
                      NEW s \in active[p], s \in active[q]
               PROVE  FALSE
    BY DEF LockExclusion, LockInv
  <2>1. lock[s] = [pid |-> p, written |-> TRUE] /\ lock[s] = [pid |-> q, written |-> TRUE]
    BY DEF HolderOwnsLock
  <2> QED
    BY <2>1
<1>4. Safe => HeldUntilStruck
  BY <1>3 DEF HeldUntilStruck, LockInv
<1> HIDE DEF Safe
<1> QED
  BY <1>1, <1>2, <1>4, TypeInvariant, PTL DEF Spec

-----------------------------------------------------------------------------
(* What deaths cost, for every combination of faults.                      *)

Kept == {"item", "turn_context", "garbled"}
Opening == {"openWrite", "openMeta"}
Opens == Opening \cup {"openRow"}
Written_(s) == {c \in inflight : c.sess = s /\ c.wrote}

\* A session id is handed out once.
OpenedOnce ==
  /\ \A p \in Procs : pc[p] \in Opens => sess[p] \in opened
  /\ \A p, q \in Procs : (pc[p] \in Opens /\ pc[q] \in Opens /\ sess[p] = sess[q]) => p = q

\* Before its meta line is written nobody but its opener knows of a session.
Unused(s) ==
  /\ row[s] = NoRow /\ acked[s] = 0
  /\ \A c \in inflight : c.sess # s
  /\ \A p \in Procs : (pc[p] # "idle" /\ sess[p] = s) => pc[p] \in Opening
  /\ \A p \in Procs : s \in active[p] => (pc[p] = "openMeta" /\ sess[p] = s)
BlankIsUnused == \A s \in Sessions \ purged : rollout[s] = <<>> => Unused(s)
OpenersStart ==
  \A p \in Procs : pc[p] \in Opening => (sess[p] \notin purged /\ rollout[sess[p]] = <<>>)
NotYetOpened == \A s \in Sessions \ opened : rollout[s] = <<>> /\ s \notin purged
PurgersPurge == \A p \in Procs : pc[p] \in {"purgeRollout", "purgeLock"} => sess[p] \in purged

\* The meta line opens the file and there is one: what a torn write is glued to
\* is never it.
HasHead(file) == file[1] = Meta /\ \A i \in 2 .. Len(file) : file[i].kind # "meta"
MetaLeads == \A s \in Sessions \ purged : rollout[s] # <<>> => HasHead(rollout[s])
ItemsOnly == inflight \subseteq [proc : Procs, sess : Sessions, item : Items, wrote : BOOLEAN]

\* Every append that returned or has written left a line of its own.
AppendsKept ==
  \A s \in Sessions \ purged :
    acked[s] + Cardinality(Written_(s)) <= CountKind(rollout[s], Kept)

FileInv ==
  /\ OpenedOnce /\ BlankIsUnused /\ OpenersStart /\ NotYetOpened /\ PurgersPurge
  /\ MetaLeads /\ ItemsOnly /\ IsFiniteSet(inflight) /\ AppendsKept

LEMMA FileInit == Init => FileInv
<1> SUFFICES ASSUME Init PROVE FileInv
  OBVIOUS
<1>1. IsFiniteSet(inflight) /\ \A s \in Sessions : Cardinality(Written_(s)) = 0
  <2>1. inflight = {} /\ \A s \in Sessions : Written_(s) = {}
    BY DEF Init, Written_
  <2> QED
    BY <2>1, FS_EmptySet
<1>2. \A s \in Sessions : CountKind(rollout[s], Kept) \in Nat
  <2>1. rollout \in [Sessions -> Seq(Line)]
    BY DEF Init
  <2> QED
    BY <2>1, CountKindType
<1>3. AppendsKept
  BY <1>1, <1>2 DEF Init, AppendsKept
<1>4. OpenedOnce /\ OpenersStart /\ PurgersPurge /\ ItemsOnly
  BY DEF Init, OpenedOnce, OpenersStart, PurgersPurge, ItemsOnly, Opening, Opens
<1>5. BlankIsUnused /\ NotYetOpened /\ MetaLeads
  BY DEF Init, BlankIsUnused, Unused, NotYetOpened, MetaLeads, Opening
<1> QED
  BY <1>1, <1>3, <1>4, <1>5 DEF FileInv

-----------------------------------------------------------------------------
\* A line that counts adds one, whatever it is appended to (appendFile).
LEMMA AppendedCounts ==
  ASSUME NEW file \in Seq(Line), NEW l \in Line
  PROVE  /\ CountKind(Appended(file, l), Kept) \in Nat
         /\ CountKind(Appended(file, l), Kept) >= CountKind(file, Kept)
         /\ l.kind \in Kept => CountKind(Appended(file, l), Kept) = CountKind(file, Kept) + 1
<1> DEFINE new == Appended(file, l)
           S == {i \in 1 .. Len(file) : file[i].kind \in Kept}
           T == {i \in 1 .. Len(new) : new[i].kind \in Kept}
<1>0. new \in Seq(Line)
  BY AppendedType
<1>1. IsFiniteSet(S) /\ Cardinality(S) \in Nat
  <2>1. IsFiniteSet(1 .. Len(file))
    BY FS_Interval
  <2>2. IsFiniteSet(S)
    BY <2>1, FS_Subset
  <2> QED
    BY <2>2, FS_CardinalityType
<1>2. CountKind(file, Kept) = Cardinality(S) /\ CountKind(new, Kept) = Cardinality(T)
  BY DEF CountKind
<1>3. CASE file # <<>> /\ file[Len(file)].kind = "torn"
  <2> DEFINE end == IF l = Torn THEN Torn ELSE [kind |-> "garbled", turn |-> 0]
  <2>1. /\ Len(new) = Len(file) /\ Len(file) \in 1 .. Len(file)
        /\ \A i \in 1 .. Len(file) : new[i] = IF i = Len(file) THEN end ELSE file[i]
    BY <1>3 DEF Appended
  <2>2. CASE l # Torn
    <3>1. T = S \cup {Len(file)} /\ Len(file) \notin S
      BY <1>3, <2>1, <2>2 DEF Kept
    <3> HIDE DEF S, T
    <3>2. Cardinality(T) = Cardinality(S) + 1
      BY <1>1, <3>1, FS_AddElement
    <3> QED
      BY <1>1, <1>2, <3>2
  <2>3. CASE l = Torn
    <3>1. T = S
      BY <1>3, <2>1, <2>3 DEF Kept, Torn
    <3>2. l.kind \notin Kept
      BY <2>3 DEF Kept, Torn
    <3> HIDE DEF S, T
    <3> QED
      BY <1>1, <1>2, <3>1, <3>2
  <2> QED
    BY <2>2, <2>3
<1>4. CASE ~(file # <<>> /\ file[Len(file)].kind = "torn")
  <2>1. /\ Len(new) = Len(file) + 1
        /\ \A i \in 1 .. Len(file) : new[i] = file[i]
        /\ new[Len(file) + 1] = l
    BY <1>4 DEF Appended
  <2>2. CASE l.kind \in Kept
    <3>1. T = S \cup {Len(file) + 1} /\ Len(file) + 1 \notin S
      BY <2>1, <2>2
    <3> HIDE DEF S, T
    <3>2. Cardinality(T) = Cardinality(S) + 1
      BY <1>1, <3>1, FS_AddElement
    <3> QED
      BY <1>1, <1>2, <3>2
  <2>3. CASE l.kind \notin Kept
    <3>1. T = S
      BY <2>1, <2>3
    <3> HIDE DEF S, T
    <3> QED
      BY <1>1, <1>2, <2>3, <3>1
  <2> QED
    BY <2>2, <2>3
<1> QED
  BY <1>3, <1>4

\* The head of a file stays what it is.
LEMMA AppendedHead ==
  ASSUME NEW file \in Seq(Line), NEW l \in Line, file # <<>>, HasHead(file), l.kind # "meta"
  PROVE  Appended(file, l) # <<>> /\ HasHead(Appended(file, l))
<1>1. CASE file[Len(file)].kind = "torn"
  <2>1. Len(file) # 1
    BY <1>1 DEF HasHead, Meta
  <2> QED
    BY <1>1, <2>1 DEF Appended, HasHead
<1>2. CASE file[Len(file)].kind # "torn"
  BY <1>2 DEF Appended, HasHead
<1> QED
  BY <1>1, <1>2

\* What is in flight may only get less: a death drops the calls of a process.
LEMMA FewerInFlight ==
  ASSUME IsFiniteSet(inflight), inflight' \subseteq inflight, NEW s \in Sessions
  PROVE  /\ IsFiniteSet(inflight')
         /\ Cardinality(Written_(s)) \in Nat /\ Cardinality(Written_(s))' \in Nat
         /\ Cardinality(Written_(s))' <= Cardinality(Written_(s))
<1>1. IsFiniteSet(Written_(s)) /\ IsFiniteSet(inflight')
  BY FS_Subset DEF Written_
<1>2. Written_(s)' \subseteq Written_(s)
  BY DEF Written_
<1> QED
  BY <1>1, <1>2, FS_Subset, FS_CardinalityType

\* Steps that leave the transcripts alone, and who opens and deletes what.
LEMMA FileQuiet ==
  ASSUME TypeInv, FileInv,
         UNCHANGED <<rollout, acked, opened, purged>>, inflight' \subseteq inflight,
         BlankIsUnused', PurgersPurge',
         \A p \in Procs : pc'[p] \in Opens =>
           /\ pc[p] \in Opens /\ sess'[p] = sess[p]
           /\ pc'[p] \in Opening => pc[p] \in Opening
  PROVE  FileInv'
<1>1. OpenedOnce'
  BY DEF FileInv, OpenedOnce
<1>2. OpenersStart'
  BY DEF FileInv, OpenersStart, Opens
<1>3. NotYetOpened' /\ MetaLeads'
  BY DEF FileInv, NotYetOpened, MetaLeads
<1>4. ItemsOnly'
  BY DEF FileInv, ItemsOnly
<1>5. IsFiniteSet(inflight)' /\ AppendsKept'
  <2>0. IsFiniteSet(inflight) /\ IsFiniteSet(inflight')
    BY FS_Subset DEF FileInv
  <2> SUFFICES ASSUME NEW s \in Sessions \ purged
               PROVE  acked[s] + Cardinality(Written_(s))' <= CountKind(rollout[s], Kept)
    BY <2>0 DEF AppendsKept, CountKind
  <2>1. acked[s] \in Nat /\ CountKind(rollout[s], Kept) \in Nat
    BY CountKindType DEF TypeInv, TypeOK
  <2>2. acked[s] + Cardinality(Written_(s)) <= CountKind(rollout[s], Kept)
    BY DEF FileInv, AppendsKept
  <2>3. /\ Cardinality(Written_(s)) \in Nat /\ Cardinality(Written_(s))' \in Nat
        /\ Cardinality(Written_(s))' <= Cardinality(Written_(s))
    BY <2>0, FewerInFlight
  <2> QED
    BY <2>1, <2>2, <2>3
<1> QED
  BY <1>1, <1>2, <1>3, <1>4, <1>5 DEF FileInv

\* A call under way on a session it found or opened leaves the unused alone.
LEMMA StaysUnused ==
  ASSUME FileInv, NEW p \in Procs, UNCHANGED <<rollout, acked, purged>>,
         inflight' \subseteq inflight,
         \A s \in Sessions \ purged : (rollout[s] = <<>> /\ row'[s] # row[s]) => row'[s] = NoRow,
         \A q \in Procs \ {p} : /\ pc'[q] = pc[q] /\ sess'[q] = sess[q]
                                /\ active'[q] \subseteq active[q],
         active'[p] \subseteq active[p], 
         \/ pc'[p] = "idle" /\ pc[p] # "openMeta"
         \/ pc'[p] = "idle" /\ active'[p] = {}
         \/ pc'[p] = pc[p] /\ sess'[p] = sess[p]
         \/ pc[p] \notin Opening \cup {"idle"} /\ sess'[p] = sess[p]
         \/ pc[p] = "idle" /\ (rollout[sess'[p]] # <<>> \/ sess'[p] \in purged)
  PROVE  BlankIsUnused'
<1> SUFFICES ASSUME NEW s \in Sessions \ purged, rollout[s] = <<>>
             PROVE  Unused(s)'
  BY DEF BlankIsUnused
<1>1. Unused(s)
  BY DEF FileInv, BlankIsUnused
<1>2. (row[s] = NoRow)' /\ (acked[s] = 0)' /\ (\A c \in inflight : c.sess # s)'
  BY <1>1 DEF Unused
<1>3. \A q \in Procs : (pc'[q] # "idle" /\ sess'[q] = s) => pc'[q] \in Opening
  BY <1>1 DEF Unused
<1>4. \A q \in Procs : s \in active'[q] => (pc'[q] = "openMeta" /\ sess'[q] = s)
  BY <1>1 DEF Unused, Opening
<1> QED
  BY <1>2, <1>3, <1>4 DEF Unused

\* The steps of a call that change no transcript.
LEMMA QuietStepFile ==
  ASSUME TypeInv, FileInv, NEW p \in Procs,
         \/ WriteLock(p) \/ OpenRow(p) \/ LoadCheck(p) \/ LoadRead(p) \/ LoadRemove(p)
         \/ LoadCreate(p) \/ ListRow(p) \/ PurgeLock(p) \/ Exit(p) \/ Crash(p)
  PROVE  FileInv'
<1>0. /\ pc \in [Procs -> Stages] /\ active \in [Procs -> SUBSET Sessions]
      /\ sess \in [Procs -> Sessions \cup {NoSession}]
      /\ row \in [Sessions -> Row \cup {NoRow}]
      /\ pc[p] # "idle" => sess[p] \in Sessions
  BY DEF TypeInv, TypeOK, CallHasSession
<1> USE DEF At, Goto, Return
<1>1. CASE WriteLock(p)
  <2>1. /\ pc[p] \in {"openWrite", "loadWrite"} /\ sess[p] \in Sessions
        /\ UNCHANGED <<rollout, row, acked, opened, purged, inflight>>
        /\ \A q \in Procs : active'[q] = IF q = p THEN active[p] \cup {sess[p]} ELSE active[q]
        /\ \A q \in Procs \ {p} : pc'[q] = pc[q] /\ sess'[q] = sess[q]
        /\ pc[p] = "openWrite" => (pc'[p] = "openMeta" /\ sess'[p] = sess[p])
        /\ pc[p] = "loadWrite" => pc'[p] = "idle"
    BY <1>0, <1>1 DEF WriteLock
  <2>2. BlankIsUnused'
    <3> SUFFICES ASSUME NEW s \in Sessions \ purged, rollout[s] = <<>>
                 PROVE  Unused(s)'
      BY <2>1 DEF BlankIsUnused
    <3>1. Unused(s)
      BY DEF FileInv, BlankIsUnused
    <3>2. (row[s] = NoRow)' /\ (acked[s] = 0)' /\ (\A c \in inflight : c.sess # s)'
      BY <2>1, <3>1 DEF Unused
    <3>3. \A q \in Procs : (pc'[q] # "idle" /\ sess'[q] = s) => pc'[q] \in Opening
      BY <2>1, <3>1 DEF Unused, Opening
    <3>4. pc[p] = "loadWrite" => sess[p] # s
      BY <3>1 DEF Unused, Opening
    <3>5. \A q \in Procs : s \in active'[q] => (pc'[q] = "openMeta" /\ sess'[q] = s)
      BY <2>1, <3>1, <3>4 DEF Unused
    <3> QED
      BY <3>2, <3>3, <3>5 DEF Unused
  <2>3. PurgersPurge'
    BY <2>1 DEF FileInv, PurgersPurge
  <2>4. \A q \in Procs : pc'[q] \in Opens =>
           /\ pc[q] \in Opens /\ sess'[q] = sess[q]
           /\ pc'[q] \in Opening => pc[q] \in Opening
    BY <2>1 DEF Opens, Opening
  <2> QED
    BY <2>1, <2>2, <2>3, <2>4, FileQuiet
<1>2. CASE Exit(p) \/ Crash(p)
  <2>1. /\ UNCHANGED <<rollout, row, acked, opened, purged>> /\ inflight' \subseteq inflight
        /\ pc'[p] = "idle" /\ active'[p] = {}
        /\ \A q \in Procs \ {p} :
             pc'[q] = pc[q] /\ sess'[q] = sess[q] /\ active'[q] \subseteq active[q]
    BY <1>0, <1>2 DEF Exit, Crash, Dies
  <2>2. BlankIsUnused'
    BY <2>1, StaysUnused
  <2>3. PurgersPurge'
    BY <2>1 DEF FileInv, PurgersPurge
  <2>4. \A q \in Procs : pc'[q] \in Opens =>
           /\ pc[q] \in Opens /\ sess'[q] = sess[q]
           /\ pc'[q] \in Opening => pc[q] \in Opening
    BY <2>1 DEF Opens, Opening
  <2> QED
    BY <2>1, <2>2, <2>3, <2>4, FileQuiet
<1>3. CASE \/ OpenRow(p) \/ LoadCheck(p) \/ LoadRead(p) \/ LoadRemove(p)
           \/ LoadCreate(p) \/ ListRow(p) \/ PurgeLock(p)
  <2>1. /\ UNCHANGED <<rollout, acked, opened, purged, inflight, active>>
        /\ pc[p] \notin Opening \cup {"idle"} /\ sess[p] \in Sessions
        /\ \A q \in Procs \ {p} : pc'[q] = pc[q] /\ sess'[q] = sess[q]
        /\ \A s \in Sessions \ {sess[p]} : row'[s] = row[s]
        /\ \/ pc'[p] = "idle"
           \/ pc'[p] \in {"loadRead", "loadRemove", "loadCreate", "loadWrite"} /\ sess'[p] = sess[p]
    BY <1>0, <1>3 DEF OpenRow, LoadCheck, LoadRead, LoadRemove, LoadCreate, ListRow, PurgeLock,
                      Opening
  <2>2. \A s \in Sessions \ purged : rollout[s] = <<>> => row'[s] = row[s]
    <3>1. rollout[sess[p]] # <<>> \/ sess[p] \in purged
      BY <2>1 DEF FileInv, BlankIsUnused, Unused
    <3> QED
      BY <2>1, <3>1
  <2>3. BlankIsUnused'
    BY <2>1, <2>2, StaysUnused DEF Opening
  <2>4. PurgersPurge'
    BY <2>1 DEF FileInv, PurgersPurge
  <2>5. \A q \in Procs : pc'[q] \in Opens =>
           /\ pc[q] \in Opens /\ sess'[q] = sess[q]
           /\ pc'[q] \in Opening => pc[q] \in Opening
    BY <2>1 DEF Opens, Opening
  <2> QED
    BY <2>1, <2>3, <2>4, <2>5, FileQuiet
<1> QED
  BY <1>1, <1>2, <1>3

\* Calls that find a session, or give up a handle.
LEMMA QuietCallFile ==
  ASSUME TypeInv, FileInv, NEW p \in Procs, NEW s \in Sessions,
         \/ LoadFind(p, s) \/ ListRead(p, s) \/ Release(p, s)
         \/ \E status \in {"completed", "crashed"} : MarkCompleted(p, s, status)
  PROVE  FileInv'
<1>0. /\ pc \in [Procs -> Stages] /\ active \in [Procs -> SUBSET Sessions]
      /\ sess \in [Procs -> Sessions \cup {NoSession}]
      /\ row \in [Sessions -> Row \cup {NoRow}] /\ rollout \in [Sessions -> Seq(Line)]
  BY DEF TypeInv, TypeOK
<1>1. pc[p] = "idle"
  BY DEF LoadFind, ListRead, Release, MarkCompleted, At
<1>2. rollout[s] # <<>> \/ s \in purged
  <2>1. CASE LoadFind(p, s) \/ ListRead(p, s)
    <3>1. row[s] # NoRow \/ Readable(rollout[s])
      BY <2>1 DEF LoadFind, ListRead, Findable
    <3>2. Readable(rollout[s]) => rollout[s] # <<>>
      BY DEF Readable
    <3> QED
      BY <3>1, <3>2 DEF FileInv, BlankIsUnused, Unused
  <2>2. CASE Release(p, s) \/ \E status \in {"completed", "crashed"} : MarkCompleted(p, s, status)
    <3>1. s \in active[p]
      BY <2>2 DEF Release, MarkCompleted
    <3> QED
      BY <1>1, <3>1 DEF FileInv, BlankIsUnused, Unused
  <2> QED
    BY <2>1, <2>2
<1>3. /\ UNCHANGED <<rollout, acked, opened, purged, inflight>>
      /\ \A q \in Procs : active'[q] \subseteq active[q]
      /\ \A q \in Procs \ {p} : pc'[q] = pc[q] /\ sess'[q] = sess[q]
      /\ \A t \in Sessions \ {s} : row'[t] = row[t]
      /\ \/ pc'[p] = pc[p] /\ sess'[p] = sess[p]
         \/ pc'[p] \in {"loadCheck", "listRow"} /\ sess'[p] = s
  BY <1>0 DEF LoadFind, ListRead, Release, MarkCompleted, Begin
<1>4. \A t \in Sessions \ purged : rollout[t] = <<>> => row'[t] = row[t]
  BY <1>2, <1>3
<1>5. BlankIsUnused'
  BY <1>1, <1>2, <1>3, <1>4, StaysUnused
<1>6. PurgersPurge'
  BY <1>1, <1>3 DEF FileInv, PurgersPurge
<1>7. \A q \in Procs : pc'[q] \in Opens =>
         /\ pc[q] \in Opens /\ sess'[q] = sess[q]
         /\ pc'[q] \in Opening => pc[q] \in Opening
  BY <1>1, <1>3 DEF Opens, Opening
<1> QED
  BY <1>3, <1>5, <1>6, <1>7, FileQuiet

\* The meta line goes to the file its opener alone knows of.
LEMMA OpenMetaFile ==
  ASSUME TypeInv, FileInv, NEW p \in Procs, OpenMeta(p)
  PROVE  FileInv'
<1> DEFINE s == sess[p]
<1>0. /\ pc \in [Procs -> Stages] /\ rollout \in [Sessions -> Seq(Line)] /\ s \in Sessions
      /\ pc[p] = "openMeta" /\ s \notin purged /\ rollout[s] = <<>> /\ s \in opened
      /\ UNCHANGED <<alive, lock, row, active, sess, inflight, opened, acked, purged>>
      /\ \A t \in Sessions : rollout'[t] = IF t = s THEN <<Meta>> ELSE rollout[t]
      /\ \A q \in Procs : pc'[q] = IF q = p THEN "openRow" ELSE pc[q]
  BY DEF OpenMeta, At, Goto, TypeInv, TypeOK, CallHasSession, FileInv, OpenersStart, OpenedOnce,
         Opening, Opens
<1> HIDE DEF s
<1>1. Unused(s)
  BY <1>0 DEF FileInv, BlankIsUnused
<1>2. OpenedOnce'
  BY <1>0 DEF FileInv, OpenedOnce, Opens, Opening
<1>3. BlankIsUnused'
  <2> SUFFICES ASSUME NEW t \in Sessions \ purged, rollout'[t] = <<>>
               PROVE  Unused(t)'
    BY <1>0 DEF BlankIsUnused
  <2>0. t # s /\ rollout[t] = <<>>
    <3>1. <<Meta>> # <<>>
      OBVIOUS
    <3> QED
      BY <1>0, <3>1
  <2>1. Unused(t)
    BY <2>0 DEF FileInv, BlankIsUnused
  <2> QED
    BY <1>0, <2>0, <2>1 DEF Unused, Opening, s
<1>4. OpenersStart'
  <2> SUFFICES ASSUME NEW q \in Procs, pc'[q] \in Opening
               PROVE  sess[q] \notin purged /\ rollout'[sess[q]] = <<>>
    BY <1>0 DEF OpenersStart
  <2>1. q # p /\ pc[q] \in Opening
    BY <1>0 DEF Opening
  <2>2. sess[q] # s
    BY <1>0, <2>1 DEF FileInv, OpenedOnce, Opens, Opening, s
  <2>3. sess[q] \in Sessions
    BY <2>1 DEF TypeInv, CallHasSession, Opening
  <2> QED
    BY <1>0, <2>1, <2>2, <2>3 DEF FileInv, OpenersStart
<1>5. NotYetOpened' /\ PurgersPurge'
  BY <1>0 DEF FileInv, NotYetOpened, PurgersPurge
<1>6. MetaLeads'
  <2>1. HasHead(<<Meta>>)
    BY DEF HasHead
  <2> QED
    BY <1>0, <2>1 DEF FileInv, MetaLeads
<1>7. ItemsOnly' /\ IsFiniteSet(inflight)'
  BY <1>0 DEF FileInv, ItemsOnly
<1>8. AppendsKept'
  <2>1. \A t \in Sessions : Written_(t)' = Written_(t)
    BY <1>0 DEF Written_
  <2>2. Written_(s) = {} /\ acked[s] = 0
    BY <1>1 DEF Unused, Written_
  <2>3. Cardinality(Written_(s)) = 0
    BY <2>2, FS_EmptySet
  <2>4. <<Meta>> \in Seq(Line)
    BY DEF Meta, Line
  <2>5. CountKind(<<Meta>>, Kept) \in Nat
    BY <2>4, CountKindType
  <2> SUFFICES ASSUME NEW t \in Sessions \ purged
               PROVE  acked[t] + Cardinality(Written_(t)) <= CountKind(rollout'[t], Kept)
    BY <1>0, <2>1 DEF AppendsKept, CountKind
  <2>6. CASE t = s
    <3>1. acked[t] = 0 /\ Cardinality(Written_(t)) = 0
      BY <2>2, <2>3, <2>6
    <3>2. rollout'[t] = <<Meta>>
      BY <1>0, <2>6
    <3>3. 0 + 0 <= CountKind(<<Meta>>, Kept)
      BY <2>5
    <3> QED
      BY <3>1, <3>2, <3>3
  <2>7. CASE t # s
    BY <1>0, <2>7 DEF FileInv, AppendsKept
  <2> QED
    BY <2>6, <2>7
<1> QED
  BY <1>2, <1>3, <1>4, <1>5, <1>6, <1>7, <1>8 DEF FileInv

LEMMA PurgeRolloutFile ==
  ASSUME TypeInv, FileInv, NEW p \in Procs, PurgeRollout(p)
  PROVE  FileInv'
<1>0. /\ pc \in [Procs -> Stages] /\ rollout \in [Sessions -> Seq(Line)] /\ sess[p] \in purged
      /\ UNCHANGED <<row, active, sess, inflight, opened, acked, purged>>
      /\ pc[p] = "purgeRollout"
      /\ \A t \in Sessions : rollout'[t] = IF t = sess[p] THEN <<>> ELSE rollout[t]
      /\ \A q \in Procs : pc'[q] = IF q = p THEN "purgeLock" ELSE pc[q]
  BY DEF PurgeRollout, At, Goto, TypeInv, TypeOK, FileInv, PurgersPurge
<1>2. OpenedOnce'
  BY <1>0 DEF FileInv, OpenedOnce, Opens, Opening
<1>3. BlankIsUnused'
  <2> SUFFICES ASSUME NEW t \in Sessions \ purged, t # sess[p], rollout[t] = <<>>
               PROVE  Unused(t)'
    BY <1>0 DEF BlankIsUnused
  <2>1. Unused(t)
    BY DEF FileInv, BlankIsUnused
  <2> QED
    BY <1>0, <2>1 DEF Unused, Opening
<1>4. OpenersStart'
  <2> SUFFICES ASSUME NEW q \in Procs, pc'[q] \in Opening
               PROVE  sess[q] \notin purged /\ rollout'[sess[q]] = <<>>
    BY <1>0 DEF OpenersStart
  <2>1. pc[q] \in Opening
    BY <1>0 DEF Opening
  <2>2. sess[q] \in Sessions
    BY <2>1 DEF TypeInv, CallHasSession, Opening
  <2> QED
    BY <1>0, <2>1, <2>2 DEF FileInv, OpenersStart
<1>5. NotYetOpened' /\ PurgersPurge'
  BY <1>0 DEF FileInv, NotYetOpened, PurgersPurge
<1>6. MetaLeads'
  BY <1>0 DEF FileInv, MetaLeads
<1>7. ItemsOnly' /\ IsFiniteSet(inflight)'
  BY <1>0 DEF FileInv, ItemsOnly
<1>8. AppendsKept'
  <2>1. \A t \in Sessions : Written_(t)' = Written_(t)
    BY <1>0 DEF Written_
  <2> QED
    BY <1>0, <2>1 DEF FileInv, AppendsKept, CountKind
<1> QED
  BY <1>2, <1>3, <1>4, <1>5, <1>6, <1>7, <1>8 DEF FileInv

\* A new session: nothing is left of another one with its id.
LEMMA OpenLockFile ==
  ASSUME TypeInv, FileInv, NEW p \in Procs, NEW s \in Sessions, OpenLock(p, s)
  PROVE  FileInv'
<1>0. /\ pc \in [Procs -> Stages] /\ sess \in [Procs -> Sessions \cup {NoSession}]
      /\ UNCHANGED <<rollout, row, active, inflight, acked, purged>>
      /\ pc[p] = "idle" /\ s \notin opened /\ opened' = opened \cup {s}
      /\ \A q \in Procs : pc'[q] = IF q = p THEN "openWrite" ELSE pc[q]
      /\ \A q \in Procs : sess'[q] = IF q = p THEN s ELSE sess[q]
      /\ rollout[s] = <<>> /\ s \notin purged
  BY DEF OpenLock, At, Begin, TypeInv, TypeOK, FileInv, NotYetOpened
<1>2. OpenedOnce'
  BY <1>0 DEF FileInv, OpenedOnce, Opens, Opening
<1>3. BlankIsUnused'
  <2> SUFFICES ASSUME NEW t \in Sessions \ purged, rollout[t] = <<>>
               PROVE  Unused(t)'
    BY <1>0 DEF BlankIsUnused
  <2>1. Unused(t)
    BY DEF FileInv, BlankIsUnused
  <2> QED
    BY <1>0, <2>1 DEF Unused, Opening
<1>4. OpenersStart'
  BY <1>0 DEF FileInv, OpenersStart, Opening
<1>5. NotYetOpened' /\ PurgersPurge'
  BY <1>0 DEF FileInv, NotYetOpened, PurgersPurge
<1>6. MetaLeads' /\ ItemsOnly' /\ IsFiniteSet(inflight)'
  BY <1>0 DEF FileInv, MetaLeads, ItemsOnly
<1>8. AppendsKept'
  <2>1. \A t \in Sessions : Written_(t)' = Written_(t)
    BY <1>0 DEF Written_
  <2> QED
    BY <1>0, <2>1 DEF FileInv, AppendsKept, CountKind
<1> QED
  BY <1>2, <1>3, <1>4, <1>5, <1>6, <1>8 DEF FileInv

\* Only a session that has a row or a transcript is purged.
LEMMA DeleteFile ==
  ASSUME TypeInv, FileInv, NEW p \in Procs, NEW s \in Sessions, NEW purge \in BOOLEAN,
         Delete(p, s, purge)
  PROVE  FileInv'
<1>0. /\ pc \in [Procs -> Stages] /\ sess \in [Procs -> Sessions \cup {NoSession}]
      /\ active \in [Procs -> SUBSET Sessions] /\ row \in [Sessions -> Row \cup {NoRow}]
      /\ rollout \in [Sessions -> Seq(Line)]
      /\ UNCHANGED <<rollout, inflight, opened, acked>>
      /\ pc[p] = "idle" /\ s \in opened
      /\ \A t \in Sessions : row'[t] = IF t = s THEN NoRow ELSE row[t]
      /\ \A q \in Procs : active'[q] \subseteq active[q]
      /\ \A q \in Procs \ {p} : pc'[q] = pc[q] /\ sess'[q] = sess[q]
      /\ \/ purged' = purged /\ pc'[p] = "idle"
         \/ /\ purged' = purged \cup {s} /\ pc'[p] = "purgeRollout" /\ sess'[p] = s
            /\ Findable(s)
  BY DEF Delete, At, Begin, TypeInv, TypeOK
<1>1. Findable(s) => (rollout[s] # <<>> \/ s \in purged)
  <2>1. Readable(rollout[s]) => rollout[s] # <<>>
    BY DEF Readable
  <2> QED
    BY <2>1 DEF Findable, FileInv, BlankIsUnused, Unused
<1>2. OpenedOnce'
  <2>1. \A q \in Procs : pc'[q] \in Opens => (pc[q] \in Opens /\ sess'[q] = sess[q])
    BY <1>0 DEF Opens, Opening
  <2> QED
    BY <1>0, <2>1 DEF FileInv, OpenedOnce
<1>3. BlankIsUnused'
  <2> SUFFICES ASSUME NEW t \in Sessions \ purged', rollout[t] = <<>>
               PROVE  Unused(t)'
    BY <1>0 DEF BlankIsUnused
  <2>1. Unused(t) /\ t \notin purged
    BY <1>0 DEF FileInv, BlankIsUnused
  <2>2. pc'[p] # "idle" => sess'[p] # t
    BY <1>0
  <2>3. \A q \in Procs : (pc'[q] # "idle" /\ sess'[q] = t) => pc'[q] \in Opening
    BY <1>0, <2>1, <2>2 DEF Unused
  <2>4. \A q \in Procs : t \in active'[q] => (pc'[q] = "openMeta" /\ sess'[q] = t)
    BY <1>0, <2>1 DEF Unused
  <2> QED
    BY <1>0, <2>1, <2>3, <2>4 DEF Unused
<1>4. OpenersStart'
  <2> SUFFICES ASSUME NEW q \in Procs, pc'[q] \in Opening
               PROVE  sess'[q] \notin purged' /\ rollout[sess'[q]] = <<>>
    BY <1>0 DEF OpenersStart
  <2>1. q # p /\ pc[q] \in Opening /\ sess'[q] = sess[q]
    BY <1>0 DEF Opening
  <2>2. sess[q] \notin purged /\ rollout[sess[q]] = <<>>
    BY <2>1 DEF FileInv, OpenersStart
  <2> QED
    BY <1>0, <1>1, <2>1, <2>2
<1>5. NotYetOpened'
  BY <1>0 DEF FileInv, NotYetOpened
<1>6. PurgersPurge'
  BY <1>0 DEF FileInv, PurgersPurge
<1>7. MetaLeads' /\ ItemsOnly' /\ IsFiniteSet(inflight)'
  BY <1>0 DEF FileInv, MetaLeads, ItemsOnly
<1>8. AppendsKept'
  <2>1. \A t \in Sessions : Written_(t)' = Written_(t)
    BY <1>0 DEF Written_
  <2> QED
    BY <1>0, <2>1 DEF FileInv, AppendsKept, CountKind
<1> QED
  BY <1>2, <1>3, <1>4, <1>5, <1>6, <1>7, <1>8 DEF FileInv

\* Appends go to a session that has its meta line, or to a purged one.
LEMMA AppendStartFile ==
  ASSUME TypeInv, FileInv, NEW p \in Procs, NEW s \in Sessions, NEW item \in Items,
         AppendStart(p, s, item)
  PROVE  FileInv'
<1> DEFINE call == [proc |-> p, sess |-> s, item |-> item, wrote |-> FALSE]
<1>0. /\ UNCHANGED <<rollout, row, active, pc, sess, opened, acked, purged>>
      /\ s \in active[p] /\ ~(pc[p] \in {"openMeta", "openRow"} /\ sess[p] = s)
      /\ inflight' = inflight \cup {call}
  BY DEF AppendStart
<1>1. call.sess = s /\ ~call.wrote
  OBVIOUS
<1>2. call \in [proc : Procs, sess : Sessions, item : Items, wrote : BOOLEAN]
  OBVIOUS
<1> HIDE DEF call
<1>3. rollout[s] # <<>> \/ s \in purged
  BY <1>0 DEF FileInv, BlankIsUnused, Unused
<1>4. OpenedOnce' /\ OpenersStart' /\ NotYetOpened' /\ PurgersPurge'
  BY <1>0 DEF FileInv, OpenedOnce, OpenersStart, NotYetOpened, PurgersPurge
<1>5. BlankIsUnused'
  BY <1>0, <1>1, <1>3 DEF FileInv, BlankIsUnused, Unused
<1>6. MetaLeads'
  BY <1>0 DEF FileInv, MetaLeads
<1>7. ItemsOnly'
  BY <1>0, <1>2 DEF FileInv, ItemsOnly
<1>8. IsFiniteSet(inflight)'
  BY <1>0, FS_AddElement DEF FileInv
<1>9. AppendsKept'
  <2>1. \A t \in Sessions : Written_(t)' = Written_(t)
    BY <1>0, <1>1 DEF Written_
  <2> QED
    BY <1>0, <2>1 DEF FileInv, AppendsKept, CountKind
<1> QED
  BY <1>4, <1>5, <1>6, <1>7, <1>8, <1>9 DEF FileInv

\* What is known of the call that goes on.
LEMMA CallKnown ==
  ASSUME TypeInv, FileInv, NEW call \in inflight
  PROVE  /\ call \in [proc : Procs, sess : Sessions, item : Items, wrote : BOOLEAN]
         /\ call.sess \in Sessions /\ call.proc \in Procs /\ call.item \in Line
         /\ call.item.kind \in Kept /\ call.item.kind # "meta"
         /\ rollout[call.sess] # <<>> \/ call.sess \in purged
         /\ rollout[call.sess] \in Seq(Line)
<1>1. call \in [proc : Procs, sess : Sessions, item : Items, wrote : BOOLEAN]
  BY DEF FileInv, ItemsOnly
<1>2. call.item \in Items /\ call.sess \in Sessions /\ call.proc \in Procs
  BY <1>1
<1>3. call.item \in Line /\ call.item.kind \in Kept /\ call.item.kind # "meta"
  BY <1>2, BoundsAssumption DEF Items, Line, Kept
<1>4. rollout[call.sess] # <<>> \/ call.sess \in purged
  BY <1>2 DEF FileInv, BlankIsUnused, Unused
<1> QED
  BY <1>1, <1>2, <1>3, <1>4 DEF TypeInv, TypeOK

LEMMA AppendWriteFile ==
  ASSUME TypeInv, FileInv, NEW call \in inflight, AppendWrite(call)
  PROVE  FileInv'
<1> DEFINE s == call.sess
           done == [call EXCEPT !.wrote = TRUE]
<1>0. /\ UNCHANGED <<row, active, pc, sess, opened, acked, purged>>
      /\ inflight' = (inflight \ {call}) \cup {done} /\ ~call.wrote
      /\ rollout' = [rollout EXCEPT ![s] = Appended(@, call.item)]
  BY DEF AppendWrite
<1>1. /\ s \in Sessions /\ call.item \in Line /\ call.item.kind \in Kept
      /\ call.item.kind # "meta" /\ rollout[s] \in Seq(Line)
      /\ rollout[s] # <<>> \/ s \in purged
  BY CallKnown
<1>2. done \in [proc : Procs, sess : Sessions, item : Items, wrote : BOOLEAN] /\ done.sess = s
  BY CallKnown
<1>3. \A t \in Sessions :
        rollout'[t] = IF t = s THEN Appended(rollout[s], call.item) ELSE rollout[t]
  BY <1>0, <1>1 DEF TypeInv, TypeOK
<1>4. \A c \in inflight' : c.sess = s \/ c \in inflight
  BY <1>0, <1>2
<1>5. call.sess = s
  OBVIOUS
<1> HIDE DEF s, done
<1>6. OpenedOnce' /\ PurgersPurge'
  BY <1>0 DEF FileInv, OpenedOnce, PurgersPurge
<1>7. \A t \in Sessions \ purged : t = s => (rollout[t] # <<>> /\ HasHead(rollout[t]))
  BY <1>1 DEF FileInv, MetaLeads
<1>8. s \notin purged => (rollout'[s] # <<>> /\ HasHead(rollout'[s]))
  BY <1>1, <1>3, <1>7, AppendedHead
<1>9. BlankIsUnused'
  <2> SUFFICES ASSUME NEW t \in Sessions \ purged, rollout'[t] = <<>>
               PROVE  Unused(t)'
    BY <1>0 DEF BlankIsUnused
  <2>1. t # s /\ rollout[t] = <<>>
    BY <1>3, <1>8
  <2>2. Unused(t)
    BY <2>1 DEF FileInv, BlankIsUnused
  <2>3. \A c \in inflight' : c.sess # t
    BY <1>4, <2>1, <2>2 DEF Unused
  <2> QED
    BY <1>0, <2>2, <2>3 DEF Unused
<1>10. OpenersStart'
  <2> SUFFICES ASSUME NEW q \in Procs, pc[q] \in Opening
               PROVE  sess[q] \notin purged /\ rollout'[sess[q]] = <<>>
    BY <1>0 DEF OpenersStart
  <2>1. sess[q] \in Sessions \ purged /\ rollout[sess[q]] = <<>>
    BY DEF FileInv, OpenersStart, TypeInv, CallHasSession, Opening
  <2>2. sess[q] # s
    BY <1>1, <2>1
  <2> QED
    BY <1>3, <2>1, <2>2
<1>11. NotYetOpened'
  <2> SUFFICES ASSUME NEW t \in Sessions \ opened
               PROVE  rollout'[t] = <<>> /\ t \notin purged
    BY <1>0 DEF NotYetOpened
  <2>1. rollout[t] = <<>> /\ t \notin purged
    BY DEF FileInv, NotYetOpened
  <2> QED
    BY <1>1, <1>3, <2>1
<1>12. MetaLeads'
  BY <1>0, <1>3, <1>8 DEF FileInv, MetaLeads
<1>13. ItemsOnly'
  BY <1>0, <1>2 DEF FileInv, ItemsOnly
<1>14. IsFiniteSet(inflight) /\ IsFiniteSet(inflight')
  <2>1. IsFiniteSet(inflight \ {call})
    BY FS_Subset DEF FileInv
  <2> QED
    BY <1>0, <2>1, FS_AddElement DEF FileInv
<1>15. AppendsKept'
  <2> SUFFICES ASSUME NEW t \in Sessions \ purged
               PROVE  acked[t] + Cardinality(Written_(t))' <= CountKind(rollout'[t], Kept)
    BY <1>0 DEF AppendsKept, CountKind
  <2>1. acked[t] + Cardinality(Written_(t)) <= CountKind(rollout[t], Kept)
    BY DEF FileInv, AppendsKept
  <2>2. CASE t # s
    <3>1. Written_(t)' = Written_(t)
      BY <1>0, <1>2, <1>5, <2>2 DEF Written_
    <3> QED
      BY <1>3, <2>1, <2>2, <3>1
  <2>3. CASE t = s
    <3>1. IsFiniteSet(Written_(t)) /\ Cardinality(Written_(t)) \in Nat
      <4>1. IsFiniteSet(Written_(t))
        BY <1>14, FS_Subset DEF Written_
      <4> QED
        BY <4>1, FS_CardinalityType
    <3>2. Written_(t)' \subseteq Written_(t) \cup {done}
      BY <1>0 DEF Written_
    <3>3. /\ IsFiniteSet(Written_(t) \cup {done})
          /\ Cardinality(Written_(t) \cup {done}) <= Cardinality(Written_(t)) + 1
      <4>1. /\ IsFiniteSet(Written_(t) \cup {done})
            /\ Cardinality(Written_(t) \cup {done})
                 = IF done \in Written_(t) THEN Cardinality(Written_(t))
                   ELSE Cardinality(Written_(t)) + 1
        BY <3>1, FS_AddElement
      <4> QED
        BY <3>1, <4>1
    <3>4. /\ Cardinality(Written_(t))' \in Nat /\ Cardinality(Written_(t) \cup {done}) \in Nat
          /\ Cardinality(Written_(t))' <= Cardinality(Written_(t) \cup {done})
      <4>1. IsFiniteSet(Written_(t)') /\ Cardinality(Written_(t)')
                                          <= Cardinality(Written_(t) \cup {done})
        BY <3>2, <3>3, FS_Subset
      <4> QED
        BY <3>3, <4>1, FS_CardinalityType
    <3>5. CountKind(rollout'[t], Kept) = CountKind(rollout[t], Kept) + 1
      BY <1>1, <1>3, <2>3, AppendedCounts
    <3>6. CountKind(rollout[t], Kept) \in Nat /\ acked[t] \in Nat
      BY <1>1, <2>3, CountKindType DEF TypeInv, TypeOK
    <3> QED
      BY <2>1, <3>1, <3>3, <3>4, <3>5, <3>6
  <2> QED
    BY <2>2, <2>3
<1> QED
  BY <1>6, <1>9, <1>10, <1>11, <1>12, <1>13, <1>14, <1>15 DEF FileInv

\* The append returns: its line was counted when it was written.
LEMMA AppendRowFile ==
  ASSUME TypeInv, FileInv, NEW call \in inflight, AppendRow(call)
  PROVE  FileInv'
<1> DEFINE s == call.sess
<1>0. /\ UNCHANGED <<rollout, active, pc, sess, opened, purged>>
      /\ inflight' = inflight \ {call} /\ call.wrote
      /\ row' = [row EXCEPT ![s] = Upserted(s, "active", call.item.turn)]
      /\ acked' = [acked EXCEPT ![s] = @ + 1]
  BY DEF AppendRow, Written
<1>1. s \in Sessions /\ (rollout[s] # <<>> \/ s \in purged)
  BY CallKnown
<1>2. /\ \A t \in Sessions \ {s} : row'[t] = row[t] /\ acked'[t] = acked[t]
      /\ acked'[s] = acked[s] + 1
  BY <1>0, <1>1 DEF TypeInv, TypeOK
<1>3. call.sess = s
  OBVIOUS
<1> HIDE DEF s
<1>4. OpenedOnce' /\ PurgersPurge' /\ OpenersStart' /\ NotYetOpened' /\ MetaLeads'
  BY <1>0 DEF FileInv, OpenedOnce, PurgersPurge, OpenersStart, NotYetOpened, MetaLeads
<1>5. BlankIsUnused'
  <2> SUFFICES ASSUME NEW t \in Sessions \ purged, rollout[t] = <<>>
               PROVE  Unused(t)'
    BY <1>0 DEF BlankIsUnused
  <2>1. t # s /\ Unused(t)
    BY <1>1 DEF FileInv, BlankIsUnused
  <2> QED
    BY <1>0, <1>2, <2>1 DEF Unused
<1>6. ItemsOnly'
  BY <1>0 DEF FileInv, ItemsOnly
<1>7. IsFiniteSet(inflight) /\ IsFiniteSet(inflight')
  BY <1>0, FS_Subset DEF FileInv
<1>8. AppendsKept'
  <2> SUFFICES ASSUME NEW t \in Sessions \ purged
               PROVE  acked'[t] + Cardinality(Written_(t))' <= CountKind(rollout[t], Kept)
    BY <1>0 DEF AppendsKept, CountKind
  <2>1. acked[t] + Cardinality(Written_(t)) <= CountKind(rollout[t], Kept)
    BY DEF FileInv, AppendsKept
  <2>2. CASE t # s
    <3>1. Written_(t)' = Written_(t)
      BY <1>0, <1>3, <2>2 DEF Written_
    <3> QED
      BY <1>2, <2>1, <2>2, <3>1
  <2>3. CASE t = s
    <3>1. IsFiniteSet(Written_(t)) /\ Cardinality(Written_(t)) \in Nat
      <4>1. IsFiniteSet(Written_(t))
        BY <1>7, FS_Subset DEF Written_
      <4> QED
        BY <4>1, FS_CardinalityType
    <3>2. Written_(t)' = Written_(t) \ {call} /\ call \in Written_(t)
      BY <1>0, <1>3, <2>3 DEF Written_
    <3>3. Cardinality(Written_(t) \ {call}) = Cardinality(Written_(t)) - 1
      BY <3>1, <3>2, FS_RemoveElement
    <3>4. Cardinality(Written_(t))' = Cardinality(Written_(t)) - 1
      BY <3>2, <3>3
    <3>5. acked'[t] = acked[t] + 1 /\ acked[t] \in Nat /\ CountKind(rollout[t], Kept) \in Nat
      BY <1>2, <2>3, CountKindType DEF TypeInv, TypeOK
    <3> QED
      BY <2>1, <3>1, <3>4, <3>5
  <2> QED
    BY <2>2, <2>3
<1> QED
  BY <1>4, <1>5, <1>6, <1>7, <1>8 DEF FileInv

\* A torn write adds no line that counts, unless it is glued to another one.
LEMMA TornCrashFile ==
  ASSUME TypeInv, FileInv, NEW call \in inflight, TornCrash(call)
  PROVE  FileInv'
<1> DEFINE s == call.sess
           p == call.proc
<1>1. /\ s \in Sessions /\ p \in Procs /\ rollout[s] \in Seq(Line)
      /\ rollout[s] # <<>> \/ s \in purged
  BY CallKnown
<1>2. Torn \in Line /\ Torn.kind # "meta"
  BY DEF Torn, Line
<1>3. /\ UNCHANGED <<row, opened, acked, purged>> /\ inflight' \subseteq inflight
      /\ \A t \in Sessions : rollout'[t] = IF t = s THEN Appended(rollout[s], Torn) ELSE rollout[t]
      /\ \A q \in Procs : pc'[q] = IF q = p THEN "idle" ELSE pc[q]
      /\ \A q \in Procs \ {p} : sess'[q] = sess[q] /\ active'[q] = active[q]
      /\ active'[p] = {}
  BY <1>1 DEF TornCrash, Dies, TypeInv, TypeOK
<1> HIDE DEF s, p
<1>4. OpenedOnce' /\ PurgersPurge'
  <2>1. \A q \in Procs : pc'[q] # "idle" => (pc'[q] = pc[q] /\ sess'[q] = sess[q])
    BY <1>3
  <2> QED
    BY <1>3, <2>1 DEF FileInv, OpenedOnce, PurgersPurge, Opens, Opening
<1>5. s \notin purged => (rollout'[s] # <<>> /\ HasHead(rollout'[s]))
  BY <1>1, <1>2, <1>3, AppendedHead DEF FileInv, MetaLeads
<1>6. BlankIsUnused'
  <2> SUFFICES ASSUME NEW t \in Sessions \ purged, rollout'[t] = <<>>
               PROVE  Unused(t)'
    BY <1>3 DEF BlankIsUnused
  <2>1. t # s /\ rollout[t] = <<>>
    BY <1>3, <1>5
  <2>2. Unused(t)
    BY <2>1 DEF FileInv, BlankIsUnused
  <2> QED
    BY <1>3, <2>2 DEF Unused
<1>7. OpenersStart'
  <2> SUFFICES ASSUME NEW q \in Procs, pc'[q] \in Opening
               PROVE  sess'[q] \notin purged /\ rollout'[sess'[q]] = <<>>
    BY <1>3 DEF OpenersStart
  <2>1. pc[q] \in Opening /\ sess'[q] = sess[q]
    BY <1>3 DEF Opening
  <2>2. sess[q] \in Sessions \ purged /\ rollout[sess[q]] = <<>>
    BY <2>1 DEF FileInv, OpenersStart, TypeInv, CallHasSession, Opening
  <2>3. sess[q] # s
    BY <1>1, <2>2
  <2> QED
    BY <1>3, <2>1, <2>2, <2>3
<1>8. NotYetOpened'
  <2> SUFFICES ASSUME NEW t \in Sessions \ opened
               PROVE  rollout'[t] = <<>> /\ t \notin purged
    BY <1>3 DEF NotYetOpened
  <2>1. rollout[t] = <<>> /\ t \notin purged
    BY DEF FileInv, NotYetOpened
  <2> QED
    BY <1>1, <1>3, <2>1
<1>9. MetaLeads'
  BY <1>3, <1>5 DEF FileInv, MetaLeads
<1>10. ItemsOnly'
  BY <1>3 DEF FileInv, ItemsOnly
<1>11. IsFiniteSet(inflight) /\ IsFiniteSet(inflight')
  BY <1>3, FS_Subset DEF FileInv
<1>12. AppendsKept'
  <2> SUFFICES ASSUME NEW t \in Sessions \ purged
               PROVE  acked[t] + Cardinality(Written_(t))' <= CountKind(rollout'[t], Kept)
    BY <1>3 DEF AppendsKept, CountKind
  <2>1. acked[t] + Cardinality(Written_(t)) <= CountKind(rollout[t], Kept)
    BY DEF FileInv, AppendsKept
  <2>2. /\ Cardinality(Written_(t)) \in Nat /\ Cardinality(Written_(t))' \in Nat
        /\ Cardinality(Written_(t))' <= Cardinality(Written_(t))
    BY <1>3, <1>11, FewerInFlight
  <2>3. /\ CountKind(rollout[t], Kept) \in Nat /\ CountKind(rollout'[t], Kept) \in Nat
        /\ CountKind(rollout'[t], Kept) >= CountKind(rollout[t], Kept)
    <3>1. CountKind(rollout[t], Kept) \in Nat
      BY CountKindType DEF TypeInv, TypeOK
    <3>2. CASE t = s
      BY <1>1, <1>2, <1>3, <3>1, <3>2, AppendedCounts
    <3>3. CASE t # s
      BY <1>3, <3>1, <3>3
    <3> QED
      BY <3>2, <3>3
  <2>4. acked[t] \in Nat
    BY DEF TypeInv, TypeOK
  <2> QED
    BY <2>1, <2>2, <2>3, <2>4
<1> QED
  BY <1>4, <1>6, <1>7, <1>8, <1>9, <1>10, <1>11, <1>12 DEF FileInv

LEMMA FileStep == TypeInv /\ FileInv /\ [Next]_vars => FileInv'
<1> SUFFICES ASSUME TypeInv, FileInv, [Next]_vars PROVE FileInv'
  OBVIOUS
<1>1. CASE UNCHANGED vars
  <2>1. \A s \in Sessions : Written_(s)' = Written_(s)
    BY <1>1 DEF vars, Written_
  <2>2. AppendsKept'
    BY <1>1, <2>1 DEF vars, FileInv, AppendsKept, CountKind
  <2>3. OpenedOnce' /\ OpenersStart' /\ NotYetOpened' /\ PurgersPurge' /\ BlankIsUnused'
    BY <1>1 DEF vars, FileInv, OpenedOnce, OpenersStart, NotYetOpened, PurgersPurge,
                BlankIsUnused, Unused
  <2>4. MetaLeads' /\ ItemsOnly' /\ IsFiniteSet(inflight)'
    BY <1>1 DEF vars, FileInv, MetaLeads, ItemsOnly
  <2> QED
    BY <2>2, <2>3, <2>4 DEF FileInv
<1>2. ASSUME NEW p \in Procs, ProcStep(p) PROVE FileInv'
  BY <1>2, QuietStepFile, OpenMetaFile, PurgeRolloutFile DEF ProcStep
<1>3. ASSUME NEW p \in Procs, NEW s \in Sessions, CallStep(p, s) PROVE FileInv'
  BY <1>3, QuietCallFile, OpenLockFile, AppendStartFile, DeleteFile DEF CallStep
<1>4. ASSUME NEW call \in inflight, AppendStep(call) PROVE FileInv'
  BY <1>4, AppendWriteFile, AppendRowFile, TornCrashFile DEF AppendStep
<1> QED
  BY <1>1, <1>2, <1>3, <1>4 DEF Next

\* Where no torn line is left, one meta line and sound items make a transcript
\* that can be replayed (readSnapshot).
LEMMA KeptIsReadable ==
  ASSUME TypeInv, FileInv, NEW s \in Sessions \ purged, acked[s] > 0
  PROVE  /\ CountKind(rollout[s], {"meta"}) = 1
         /\ acked[s] <= CountKind(rollout[s], Kept)
         /\ CountKind(rollout[s], {"torn", "garbled"}) = 0 => Readable(rollout[s])
<1> DEFINE file == rollout[s]
           Bad == {i \in 1 .. Len(file) : file[i].kind \in {"torn", "garbled"}}
<1>0. file \in Seq(Line)
  BY DEF TypeInv, TypeOK
<1>1. file # <<>> /\ HasHead(file)
  BY DEF FileInv, BlankIsUnused, Unused, MetaLeads
<1>2. 1 \in 1 .. Len(file) /\ file[1].kind = "meta"
  BY <1>0, <1>1 DEF HasHead, Meta
<1>3. CountKind(file, {"meta"}) = 1
  <2>1. {i \in 1 .. Len(file) : file[i].kind \in {"meta"}} = {1}
    BY <1>0, <1>1, <1>2 DEF HasHead
  <2> QED
    BY <2>1, FS_Singleton DEF CountKind
<1>4. acked[s] <= CountKind(file, Kept)
  <2>1. acked[s] \in Nat /\ CountKind(file, Kept) \in Nat
    BY <1>0, CountKindType DEF TypeInv, TypeOK
  <2>2. Cardinality(Written_(s)) \in Nat
    <3>1. IsFiniteSet(Written_(s))
      BY FS_Subset DEF FileInv, Written_
    <3> QED
      BY <3>1, FS_CardinalityType
  <2>3. acked[s] + Cardinality(Written_(s)) <= CountKind(file, Kept)
    BY DEF FileInv, AppendsKept
  <2> QED
    BY <2>1, <2>2, <2>3
<1>5. ASSUME CountKind(file, {"torn", "garbled"}) = 0 PROVE Readable(file)
  <2>1. IsFiniteSet(1 .. Len(file))
    BY <1>0, FS_Interval
  <2>2. IsFiniteSet(Bad)
    BY <2>1, FS_Subset
  <2>3. Cardinality(Bad) = 0
    BY <1>5 DEF CountKind
  <2>4. Bad = {}
    <3> HIDE DEF Bad
    <3> QED
      BY <2>2, <2>3, FS_EmptySet
  <2> QED
    BY <1>2, <2>4 DEF Readable
<1> QED
  BY <1>3, <1>4, <1>5

\* Whatever dies in the middle of a call, tears its last write or deletes other
\* sessions: every append that returned is on file, as a sound line or as the
\* one a torn write was glued onto, the meta line leads the file, and without
\* torn writes the transcript can be replayed with all of it
\* (appendRolloutItem, readSnapshot, deleteSession).
THEOREM AppendsSurvive == Spec => []TornCostsOneAppend
<1>1. TypeInv /\ FileInv => TornCostsOneAppend
  BY KeptIsReadable DEF TornCostsOneAppend, Kept
<1> QED
  BY <1>1, FileInit, FileStep, TypeInit, TypeStep, PTL DEF Spec
=============================================================================
