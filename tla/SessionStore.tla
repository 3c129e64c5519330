---------------------------- MODULE SessionStore ----------------------------
(***************************************************************************)
(* JsonlSqliteSessionStore (packages/runtime/src/session-store.ts): the    *)
(* files one session leaves under $OPEN_APEX_HOME, shared by every CLI     *)
(* process of the user.                                                    *)
(*                                                                         *)
(*   rollout  the JSONL transcript, the canonical record of a session      *)
(*   row      the SQLite row that indexes it for the /resume picker        *)
(*   lock     the .<session>.lock file that should give one process at a   *)
(*            time the right to append                                     *)
(*                                                                         *)
(* A call is split at every file operation another process can observe:    *)
(* nothing orders the system calls of two processes.  One process opens,   *)
(* loads, lists and deletes one session at a time, but its appends run     *)
(* concurrently (the tool scheduler records events without waiting).       *)
(* appendRolloutItem on a session the process has no handle on first runs  *)
(* loadSession (requireHandle); here the process loads, then appends,      *)
(* which are the same steps.                                               *)
(***************************************************************************)
EXTENDS Integers, Sequences, FiniteSets

CONSTANTS
  Procs,       \* process ids: a CLI process that died never runs again
  Sessions,    \* session ids (s_<uuid>: opened once, by one process)
  NoFile,      \* the lock file does not exist
  NoRow,       \* the index has no row for the session
  NoSession,   \* the process is not in the middle of a call
  Faults,      \* what may happen: "crash", "torn" writes, "delete" calls
  MaxTurn,     \* bound: highest turn number a caller records
  MaxAppends   \* bound: appends to one session

ASSUME FaultsAssumption == Faults \subseteq {"crash", "torn", "delete"}
ASSUME NoFileAssumption == \A p \in Procs, w \in BOOLEAN : NoFile # [pid |-> p, written |-> w]
ASSUME BoundsAssumption == MaxTurn \in Nat /\ MaxAppends \in Nat

VARIABLES
  alive,     \* processes process.kill(pid, 0) answers for
  lock,      \* lock file of each session: NoFile, or its creator and whether
             \* the JSON was written after the file was created
  rollout,   \* lines of the transcript; <<>> when there is no file
  row,       \* index row
  active,    \* the "active" map of each process: sessions it has a handle on
  pc, sess,  \* where each process is in its store call, and on which session
  found,     \* row listSessions computed and is about to store
  inflight,  \* appends that did not return yet
  opened,    \* session ids already handed out by openSession
  acked,     \* how many appends returned, per session
  purged,    \* sessions a delete has begun to remove
  struck     \* which of the Faults have happened

vars == <<alive, lock, rollout, row, active, pc, sess, found, inflight, opened, acked, purged,
          struck>>

(***************************************************************************)
(* Values.                                                                 *)
(***************************************************************************)
Stages == {"idle", "openWrite", "openMeta", "openRow",
           "loadCheck", "loadRead", "loadRemove", "loadCreate", "loadWrite",
           "listRow", "purgeRollout", "purgeLock"}

\* A rollout line: what readSnapshot distinguishes.  "torn" is a line cut
\* short with no newline, "garbled" a torn line a whole append was glued to,
\* the newline of which ends it.
Line == [kind : {"meta", "item", "turn_context", "torn", "garbled"}, turn : Nat]
Meta == [kind |-> "meta", turn |-> 0]
Torn == [kind |-> "torn", turn |-> 0]
Items == [kind : {"item"}, turn : {0}] \cup [kind : {"turn_context"}, turn : 1 .. MaxTurn]

LockFile == [pid : Procs, written : BOOLEAN]
Row == [status : {"active", "completed", "crashed"}, lastTurn : Nat]
AppendCall == [proc : Procs, sess : Sessions, item : Line, wrote : BOOLEAN]

\* appendFile: the text goes after whatever the file ends with.  A torn line that
\* is torn again still has no newline.
Appended(file, l) ==
  IF file # <<>> /\ file[Len(file)].kind = "torn"
  THEN [file EXCEPT ![Len(file)] = IF l = Torn THEN Torn ELSE [kind |-> "garbled", turn |-> 0]]
  ELSE Append(file, l)

\* JSON.parse succeeds on every line and a session_meta was seen.
Readable(file) ==
  /\ \A i \in 1 .. Len(file) : file[i].kind \notin {"torn", "garbled"}
  /\ \E i \in 1 .. Len(file) : file[i].kind = "meta"

CountKind(file, kinds) == Cardinality({i \in 1 .. Len(file) : file[i].kind \in kinds})

\* lockIsActive: the lock can be parsed and names a live process.
LockIsActive(s) ==
  /\ lock[s] # NoFile
  /\ lock[s].written
  /\ lock[s].pid \in alive

RowFromRollout(s) ==
  [status   |-> IF LockIsActive(s) THEN "active" ELSE "completed",
   lastTurn |-> CountKind(rollout[s], {"turn_context"})]

\* upsertSession: a call that names no turn keeps the one in the row.
Upserted(s, status, turn) ==
  [status   |-> status,
   lastTurn |-> IF turn # 0 THEN turn ELSE IF row[s] = NoRow THEN 0 ELSE row[s].lastTurn]

\* What loadSession and deleteSession look for: an index row, or else a
\* rollout one can be recovered from.
Findable(s) == row[s] # NoRow \/ Readable(rollout[s])

(***************************************************************************)
(* Program counter moves.                                                  *)
(***************************************************************************)
At(p, stage) == p \in alive /\ pc[p] = stage
Goto(p, stage) == pc' = [pc EXCEPT ![p] = stage] /\ UNCHANGED sess
Begin(p, stage, s) ==
  /\ pc' = [pc EXCEPT ![p] = stage]
  /\ sess' = [sess EXCEPT ![p] = s]
Return(p) ==
  /\ pc' = [pc EXCEPT ![p] = "idle"]
  /\ sess' = [sess EXCEPT ![p] = NoSession]

Strikes(fault) == fault \in Faults /\ struck' = struck \cup {fault}

-----------------------------------------------------------------------------
Init ==
  /\ alive = Procs
  /\ lock = [s \in Sessions |-> NoFile]
  /\ rollout = [s \in Sessions |-> <<>>]
  /\ row = [s \in Sessions |-> NoRow]
  /\ active = [p \in Procs |-> {}]
  /\ pc = [p \in Procs |-> "idle"]
  /\ sess = [p \in Procs |-> NoSession]
  /\ found = [p \in Procs |-> NoRow]
  /\ inflight = {}
  /\ opened = {}
  /\ acked = [s \in Sessions |-> 0]
  /\ purged = {} /\ struck = {}

(***************************************************************************)
(* openSession: the lock, then the handle, then the meta line, then the    *)
(* row.  The id is fresh, so acquireLock finds no file.                    *)
(***************************************************************************)
OpenLock(p, s) ==
  /\ At(p, "idle") /\ s \notin opened
  /\ lock[s] = NoFile
  /\ lock' = [lock EXCEPT ![s] = [pid |-> p, written |-> FALSE]]
  /\ opened' = opened \cup {s}
  /\ Begin(p, "openWrite", s)
  /\ UNCHANGED <<alive, rollout, row, active, found, inflight, acked, purged, struck>>

\* The end of acquireLock: writeFileSync fills the file it created.  When
\* another process removed that file the text goes to an unlinked file.
WriteLock(p) ==
  /\ At(p, "openWrite") \/ At(p, "loadWrite")
  /\ LET s == sess[p] IN
     /\ lock' = IF lock[s] = [pid |-> p, written |-> FALSE]
                THEN [lock EXCEPT ![s] = [pid |-> p, written |-> TRUE]]
                ELSE lock
     /\ active' = [active EXCEPT ![p] = @ \cup {s}]
  /\ IF pc[p] = "openWrite" THEN Goto(p, "openMeta") ELSE Return(p)
  /\ UNCHANGED <<alive, rollout, row, found, inflight, opened, acked, purged, struck>>

OpenMeta(p) ==
  /\ At(p, "openMeta")
  /\ rollout' = [rollout EXCEPT ![sess[p]] = <<Meta>>]
  /\ Goto(p, "openRow")
  /\ UNCHANGED <<alive, lock, row, active, found, inflight, opened, acked, purged, struck>>

OpenRow(p) ==
  /\ At(p, "openRow")
  /\ row' = [row EXCEPT ![sess[p]] = [status |-> "active", lastTurn |-> 0]]
  /\ Return(p)
  /\ UNCHANGED <<alive, lock, rollout, active, found, inflight, opened, acked, purged, struck>>

(***************************************************************************)
(* loadSession: find the row or recover it, then acquireLock: look for the *)
(* lock, read it, remove it when its process is dead, create it.           *)
(***************************************************************************)
LoadFind(p, s) ==
  /\ At(p, "idle") /\ Findable(s)
  /\ row' = IF row[s] = NoRow THEN [row EXCEPT ![s] = RowFromRollout(s)] ELSE row
  /\ Begin(p, "loadCheck", s)
  /\ UNCHANGED <<alive, lock, rollout, active, found, inflight, opened, acked, purged, struck>>

LoadCheck(p) ==
  /\ At(p, "loadCheck")
  /\ Goto(p, IF lock[sess[p]] = NoFile THEN "loadCreate" ELSE "loadRead")
  /\ UNCHANGED <<alive, lock, rollout, row, active, found, inflight, opened, acked, purged, struck>>


\* readFileSync fails when the file went away, JSON.parse when it is still
\* empty, and a live pid is an error too: only a dead one lets the call on.
Dead(f) == f # NoFile /\ f.written /\ f.pid \notin alive

LoadRead(p) ==
  /\ At(p, "loadRead")
  /\ IF Dead(lock[sess[p]]) THEN Goto(p, "loadRemove") ELSE Return(p)
  /\ UNCHANGED <<alive, lock, rollout, row, active, found, inflight, opened, acked, purged, struck>>

\* rmSync by path: whatever file has that name now.
LoadRemove(p) ==
  /\ At(p, "loadRemove")
  /\ lock' = [lock EXCEPT ![sess[p]] = NoFile]
  /\ Goto(p, "loadCreate")
  /\ UNCHANGED <<alive, rollout, row, active, found, inflight, opened, acked, purged, struck>>

\* Mutated Free: flag "w" instead of "wx".
FreeOrNot(s) == TRUE

\* writeFileSync with flag "wx" fails with EEXIST when the file exists.
Free(s) == lock[s] = NoFile

LoadCreate(p) ==
  /\ At(p, "loadCreate")
  /\ IF Free(sess[p])
     THEN /\ lock' = [lock EXCEPT ![sess[p]] = [pid |-> p, written |-> FALSE]]
          /\ Goto(p, "loadWrite")
     ELSE UNCHANGED lock /\ Return(p)
  /\ UNCHANGED <<alive, rollout, row, active, found, inflight, opened, acked, purged, struck>>

(***************************************************************************)
(* appendRolloutItem on a session the process has a handle on.  The bounds *)
(* MaxAppends and MaxTurn are here, and one process does not write the     *)
(* same line twice at a time.                                              *)
(***************************************************************************)
AppendStart(p, s, item) ==
  /\ p \in alive /\ s \in active[p]
  /\ ~(pc[p] \in {"openMeta", "openRow"} /\ sess[p] = s)
  /\ acked[s] + Cardinality({c \in inflight : c.sess = s}) < MaxAppends
  /\ LET call == [proc |-> p, sess |-> s, item |-> item, wrote |-> FALSE] IN
     /\ {call, [call EXCEPT !.wrote = TRUE]} \cap inflight = {}
     /\ inflight' = inflight \cup {call}
  /\ UNCHANGED <<alive, lock, rollout, row, active, pc, sess, found, opened, acked, purged, struck>>

AppendWrite(call) ==
  /\ call \in inflight /\ ~call.wrote
  /\ rollout' = [rollout EXCEPT ![call.sess] = Appended(@, call.item)]
  /\ inflight' = (inflight \ {call}) \cup {[call EXCEPT !.wrote = TRUE]}
  /\ UNCHANGED <<alive, lock, row, active, pc, sess, found, opened, acked, purged, struck>>

\* Mutated Written: the file write is not awaited.
WrittenOrNot(call) == TRUE
Written(call) == call.wrote

AppendRow(call) ==
  /\ call \in inflight /\ Written(call)
  /\ row' = [row EXCEPT ![call.sess] = Upserted(call.sess, "active", call.item.turn)]
  /\ acked' = [acked EXCEPT ![call.sess] = @ + 1]
  /\ inflight' = inflight \ {call}
  /\ UNCHANGED <<alive, lock, rollout, active, pc, sess, found, opened, purged, struck>>

(***************************************************************************)
(* listSessions rebuilds the row of every rollout it can read, one rollout *)
(* at a time: it reads the files, then stores the row.                     *)
(***************************************************************************)
ListRead(p, s) ==
  /\ At(p, "idle") /\ Readable(rollout[s])
  /\ found' = [found EXCEPT ![p] = RowFromRollout(s)]
  /\ Begin(p, "listRow", s)
  /\ UNCHANGED <<alive, lock, rollout, row, active, inflight, opened, acked, purged, struck>>

ListRow(p) ==
  /\ At(p, "listRow")
  /\ row' = [row EXCEPT ![sess[p]] = found[p]]
  /\ found' = [found EXCEPT ![p] = NoRow]
  /\ Return(p)
  /\ UNCHANGED <<alive, lock, rollout, active, inflight, opened, acked, purged, struck>>

MarkCompleted(p, s, status) ==
  /\ At(p, "idle") /\ s \in active[p]
  /\ row' = [row EXCEPT ![s] = Upserted(s, status, 0)]
  /\ UNCHANGED <<alive, lock, rollout, active, pc, sess, found, inflight, opened, acked, purged, struck>>

\* release removes the lock file by path, whoever wrote it.
Release(p, s) ==
  /\ At(p, "idle") /\ s \in active[p]
  /\ lock' = [lock EXCEPT ![s] = NoFile]
  /\ active' = [active EXCEPT ![p] = @ \ {s}]
  /\ UNCHANGED <<alive, rollout, row, pc, sess, found, inflight, opened, acked, purged, struck>>

\* close, then the process ends: its appends have returned.
Exit(p) ==
  /\ At(p, "idle") /\ \A c \in inflight : c.proc # p
  /\ lock' = [s \in Sessions |-> IF s \in active[p] THEN NoFile ELSE lock[s]]
  /\ active' = [active EXCEPT ![p] = {}]
  /\ alive' = alive \ {p}
  /\ UNCHANGED <<rollout, row, pc, sess, found, inflight, opened, acked, purged, struck>>

(***************************************************************************)
(* deleteSession: release, drop the row, and with purgeArtifacts remove    *)
(* the rollout and then the lock file.                                     *)
(***************************************************************************)
Delete(p, s, purgeArtifacts) ==
  /\ Strikes("delete")
  /\ At(p, "idle") /\ s \in opened
  /\ lock' = IF s \in active[p] THEN [lock EXCEPT ![s] = NoFile] ELSE lock
  /\ active' = [active EXCEPT ![p] = @ \ {s}]
  /\ row' = [row EXCEPT ![s] = NoRow]
  /\ IF purgeArtifacts /\ Findable(s)
     THEN purged' = purged \cup {s} /\ Begin(p, "purgeRollout", s)
     ELSE UNCHANGED <<purged, pc, sess>>
  /\ UNCHANGED <<alive, rollout, found, inflight, opened, acked>>

PurgeRollout(p) ==
  /\ At(p, "purgeRollout")
  /\ rollout' = [rollout EXCEPT ![sess[p]] = <<>>]
  /\ Goto(p, "purgeLock")
  /\ UNCHANGED <<alive, lock, row, active, found, inflight, opened, acked, purged, struck>>

PurgeLock(p) ==
  /\ At(p, "purgeLock")
  /\ lock' = [lock EXCEPT ![sess[p]] = NoFile]
  /\ Return(p)
  /\ UNCHANGED <<alive, rollout, row, active, found, inflight, opened, acked, purged, struck>>

(***************************************************************************)
(* A process dies between any two file operations: its files stay as they  *)
(* are and its memory is gone.  A torn write leaves part of one line.      *)
(***************************************************************************)
Dies(p) ==
  /\ alive' = alive \ {p}
  /\ active' = [active EXCEPT ![p] = {}]
  /\ pc' = [pc EXCEPT ![p] = "idle"]
  /\ sess' = [sess EXCEPT ![p] = NoSession]
  /\ found' = [found EXCEPT ![p] = NoRow]
  /\ inflight' = {c \in inflight : c.proc # p}

Crash(p) ==
  /\ Strikes("crash") /\ p \in alive
  /\ Dies(p)
  /\ UNCHANGED <<lock, rollout, row, opened, acked, purged>>

TornCrash(call) ==
  /\ Strikes("torn")
  /\ call \in inflight /\ ~call.wrote
  /\ Dies(call.proc)
  /\ rollout' = [rollout EXCEPT ![call.sess] = Appended(@, Torn)]
  /\ UNCHANGED <<lock, row, opened, acked, purged>>

-----------------------------------------------------------------------------
ProcStep(p) ==
  \/ WriteLock(p) \/ OpenMeta(p) \/ OpenRow(p)
  \/ LoadCheck(p) \/ LoadRead(p) \/ LoadRemove(p) \/ LoadCreate(p)
  \/ ListRow(p) \/ PurgeRollout(p) \/ PurgeLock(p)
  \/ Exit(p) \/ Crash(p)

CallStep(p, s) ==
  \/ OpenLock(p, s) \/ LoadFind(p, s) \/ ListRead(p, s) \/ Release(p, s)
  \/ \E item \in Items : AppendStart(p, s, item)
  \/ \E status \in {"completed", "crashed"} : MarkCompleted(p, s, status)
  \/ \E purge \in BOOLEAN : Delete(p, s, purge)

AppendStep(call) == AppendWrite(call) \/ AppendRow(call) \/ TornCrash(call)

Next ==
  \/ \E p \in Procs : ProcStep(p)
  \/ \E p \in Procs, s \in Sessions : CallStep(p, s)
  \/ \E call \in inflight : AppendStep(call)

Spec == Init /\ [][Next]_vars

-----------------------------------------------------------------------------
TypeOK ==
  /\ alive \subseteq Procs
  /\ lock \in [Sessions -> LockFile \cup {NoFile}]
  /\ rollout \in [Sessions -> Seq(Line)]
  /\ row \in [Sessions -> Row \cup {NoRow}]
  /\ active \in [Procs -> SUBSET Sessions]
  /\ pc \in [Procs -> Stages]
  /\ sess \in [Procs -> Sessions \cup {NoSession}]
  /\ found \in [Procs -> Row \cup {NoRow}]
  /\ inflight \subseteq AppendCall
  /\ opened \subseteq Sessions
  /\ acked \in [Sessions -> Nat]
  /\ purged \subseteq Sessions
  /\ struck \subseteq Faults

\* At most one process holds a handle it may append through on a session
\* (acquireLock, release and the "active" map).
LockExclusion ==
  \A p, q \in Procs : p # q => active[p] \cap active[q] = {}

\* While a process has a handle on a session, the lock file is that
\* process's own and names it, so a third process is refused: the file is
\* not lost to the cleanup of somebody else (release, LoadRemove, purge).
HolderOwnsLock ==
  \A p \in Procs : \A s \in active[p] : lock[s] = [pid |-> p, written |-> TRUE]

\* Both hold as long as no process has died and nobody has deleted anything,
\* whatever the processes do at the same time (acquireLock, release, close).
HeldUntilStruck == struck = {} => LockExclusion /\ HolderOwnsLock

\* Every append that returned is still on file after any deaths: its line is
\* sound, or it is the one glued onto what torn writes left; the meta line and the
\* rest of the file stay.  So without torn writes the transcript can be replayed
\* with everything acknowledged (appendRolloutItem, readSnapshot).
TornCostsOneAppend ==
  \A s \in Sessions \ purged : acked[s] > 0 =>
    /\ CountKind(rollout[s], {"meta"}) = 1
    /\ acked[s] <= CountKind(rollout[s], {"item", "turn_context", "garbled"})
    /\ CountKind(rollout[s], {"torn", "garbled"}) = 0 => Readable(rollout[s])
=============================================================================
