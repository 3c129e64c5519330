----------------------------- MODULE Checkpoint -----------------------------
\* The shadow-git checkpoint store: a git repository beside the workspace whose
\* work tree the workspace is.  A save or restore is a sequence of git commands,
\* each with a time limit; the manifest is a list of the files as the program,
\* not git, sees them.  Several saves may run at once (checkpoint_save is a
\* parallel tool); a restore and the edits of the agent run alone.
EXTENDS Naturals, Sequences, FiniteSets

CONSTANTS Paths, Class, Contents, Absent, Dangling, None,
          Callers,     \* calls that can be under way at once
          BackgroundWrites, \* a job goes on editing while a call is under way
          MaxCommits, MaxFaults  \* bounds

Classes == {"plain", "large", "ignored", "lfs", "excluded", "nested"}

ASSUME ClassAssumption == Class \in [Paths -> Classes]
ASSUME ValueAssumption == Absent \notin Contents /\ Dangling \in Contents
ASSUME BoundAssumption == MaxCommits \in Nat /\ MaxFaults \in Nat

VARIABLES
  files,     \* the workspace
  stage,     \* what init has written of the repository
  locked,    \* a killed git command has left index.lock behind
  index,     \* the tree git has staged
  commits,   \* every commit made: its tree and its parent
  head,      \* the commit HEAD names, 0 for none
  manifests, \* the manifest of a commit, or None
  ready,     \* this process's store has seen init succeed
  op,        \* per caller: the call, its next step and what it knows
  answer,    \* what the last call returned
  faults     \* faults so far

disk == <<stage, locked, index, commits, head, manifests>>
vars == <<files, disk, ready, op, answer, faults>>

Tree == [Paths -> Contents \cup {Absent}]
ASSUME NoneAssumption == None \notin Tree
Ids == 1..MaxCommits
Idle == [call |-> "none", at |-> "idle", target |-> 0, id |-> 0, before |-> None]
Answers == {"none", "saved", "verified", "unverified", "failed", "disabled"}

\* What git leaves out: the workspace's .gitignore, nested work trees, and the
\* patterns init writes to info/exclude, once it has written them.
Skipped == {"ignored", "nested"} \cup IF stage < 3 THEN {} ELSE {"lfs", "excluded"}
\* The manifest walk has a list of directories to skip, and no .gitignore.
Walked == {p \in Paths : Class[p] \notin {"excluded", "nested"}}

\* git add -A: what is in the index already is followed, ignored or not.
Staged ==
  [p \in Paths |-> IF Class[p] \in Skipped /\ index[p] = Absent THEN Absent ELSE files[p]]

\* git clean -fdx -e <nested>: what the index does not know goes.
Cleaned ==
  [p \in Paths |-> IF index[p] = Absent /\ Class[p] # "nested" THEN Absent ELSE files[p]]

\* git reset --hard: the files of the target appear, those only the index had go.
ResetTo(tree) ==
  [p \in Paths |-> IF tree[p] = Absent /\ index[p] = Absent THEN files[p] ELSE tree[p]]

\* existsSync follows a symbolic link: one that dangles is a missing file.
Missing(manifest) == {p \in Walked : manifest[p] # Absent /\ files[p] \in {Absent, Dangling}}
Mismatched(manifest) ==
  {p \in Walked : /\ manifest[p] # Absent /\ files[p] \notin {Absent, Dangling}
                  /\ Class[p] # "large" /\ files[p] # manifest[p]}
Extra(manifest) == {p \in Walked : manifest[p] = Absent /\ files[p] # Absent}
Matches(manifest) ==
  Missing(manifest) \cup Mismatched(manifest) \cup Extra(manifest) = {}


Init ==
  /\ files \in Tree /\ stage = 0 /\ locked = FALSE
  /\ index = [p \in Paths |-> Absent] /\ commits = <<>> /\ head = 0
  /\ manifests = [i \in Ids |-> None] /\ ready = FALSE
  /\ op = [c \in Callers |-> Idle] /\ answer = "none" /\ faults = 0

Busy == {c \in Callers : op[c].call # "none"}
Restoring == {c \in Callers : op[c].call = "restore"}

Goto(c, step) == op' = [op EXCEPT ![c].at = step]
Return(c, result) == op' = [op EXCEPT ![c] = Idle] /\ answer' = result

\* The agent works, or a command it runs.
Edit ==
  /\ Busy = {} \/ BackgroundWrites
  /\ \E p \in Paths, v \in Contents \cup {Absent} : files' = [files EXCEPT ![p] = v]
  /\ UNCHANGED <<disk, ready, op, answer, faults>>

\* A mutant: a restore does not save first.
FirstStepUnsaved(call) ==
  CASE ~ready -> "init" [] ready /\ call = "save" -> "add" [] OTHER -> "exists"

\* save, restore: init first unless it has succeeded before; then both save.
FirstStep(call) == IF ready THEN "add" ELSE "init"

Call(c, call, target) ==
  /\ op[c].call = "none" /\ Len(commits) + Cardinality(Busy) < MaxCommits
  /\ op' = [op EXCEPT ![c] = [call |-> call, at |-> FirstStep(call),
                              target |-> target, id |-> 0, before |-> files]]
  /\ UNCHANGED <<files, disk, ready, answer, faults>>

Save(c) == Restoring = {} /\ Call(c, "save", 0)

\* By commit or by name; 0 is a commit that does not exist.
Restore(c) == Busy = {} /\ \E target \in 0..Len(commits) : Call(c, "restore", target)

\* A protected path, a bare repository, or too little disk.
InitDisabled(c) ==
  /\ op[c].at = "init" /\ faults < MaxFaults /\ faults' = faults + 1
  /\ Return(c, "disabled")
  /\ UNCHANGED <<files, disk, ready>>

\* A git directory that exists is taken as it is.
InitCheck(c) ==
  /\ op[c].at = "init"
  /\ IF stage = 0 THEN Goto(c, "gitinit") /\ UNCHANGED ready
                  ELSE Goto(c, "add") /\ ready' = TRUE
  /\ UNCHANGED <<files, disk, answer, faults>>

GitInit(c) ==
  /\ op[c].at = "gitinit" /\ Goto(c, "config")
  /\ stage' = IF stage = 0 THEN 1 ELSE stage
  /\ UNCHANGED <<files, locked, index, commits, head, manifests, ready, answer, faults>>

WriteConfig(c) ==
  /\ op[c].at = "config" /\ Goto(c, "exclude")
  /\ stage' = IF stage = 1 THEN 2 ELSE stage
  /\ UNCHANGED <<files, locked, index, commits, head, manifests, ready, answer, faults>>

WriteExclude(c) ==
  /\ op[c].at = "exclude" /\ Goto(c, "add")
  /\ stage' = 3 /\ ready' = TRUE
  /\ UNCHANGED <<files, locked, index, commits, head, manifests, answer, faults>>

Add(c) ==
  /\ op[c].at = "add" /\ ~locked /\ Goto(c, "commit")
  /\ index' = Staged
  /\ UNCHANGED <<files, stage, locked, commits, head, manifests, ready, answer, faults>>

Committed ==
  /\ commits' = Append(commits, [tree |-> index, parent |-> head])
  /\ head' = Len(commits) + 1

Commit(c) ==
  /\ op[c].at = "commit" /\ ~locked /\ Goto(c, "head")
  /\ Committed
  /\ UNCHANGED <<files, stage, locked, index, manifests, ready, answer, faults>>

\* git rev-parse HEAD: with two saves at once, perhaps the other's commit.
ReadHead(c) ==
  /\ op[c].at = "head"
  /\ op' = [op EXCEPT ![c].at = "manifest", ![c].id = head]
  /\ UNCHANGED <<files, disk, ready, answer, faults>>

\* The manifest is of the files now; a restore goes on from its own save.
WriteManifest(c) ==
  /\ op[c].at = "manifest"
  /\ manifests' = [manifests EXCEPT ![op[c].id] = [p \in Walked |-> files[p]]]
  /\ IF op[c].call = "save" THEN Return(c, "saved") ELSE Goto(c, "exists") /\ UNCHANGED answer
  /\ UNCHANGED <<files, stage, locked, index, commits, head, ready, faults>>

TargetMissing(c) ==
  /\ op[c].at = "exists" /\ op[c].target = 0
  /\ Return(c, "unverified")
  /\ UNCHANGED <<files, disk, ready, faults>>

TargetFound(c) ==
  /\ op[c].at = "exists" /\ op[c].target # 0 /\ Goto(c, "clean")
  /\ UNCHANGED <<files, disk, ready, answer, faults>>

Clean(c) ==
  /\ op[c].at = "clean" /\ Goto(c, "reset")
  /\ files' = Cleaned
  /\ UNCHANGED <<disk, ready, answer, faults>>

HardReset(i) ==
  /\ files' = ResetTo(commits[i].tree) /\ index' = commits[i].tree /\ head' = i

Reset(c) ==
  /\ op[c].at = "reset" /\ ~locked /\ Goto(c, "verify")
  /\ HardReset(op[c].target)
  /\ UNCHANGED <<stage, locked, commits, manifests, ready, answer, faults>>

\* A commit without a manifest passes.
VerifyRestored(c) ==
  /\ op[c].at = "verify"
  /\ LET manifest == manifests[op[c].target] IN
     IF manifest = None \/ Matches(manifest)
     THEN Return(c, "verified")
     ELSE Goto(c, "rollback") /\ UNCHANGED answer
  /\ UNCHANGED <<files, disk, ready, faults>>

RollBack(c) ==
  /\ op[c].at = "rollback" /\ ~locked
  /\ HardReset(op[c].id) /\ Return(c, "unverified")
  /\ UNCHANGED <<stage, locked, commits, manifests, ready, faults>>

GitSteps == {"gitinit", "add", "commit", "head", "exists", "clean", "reset", "rollback"}
Locks == {"add", "commit", "reset", "rollback"}

\* How a call ends when one of its steps fails: the rollback is best effort,
\* and a commit that cannot be asked for does not exist.
Failed(c) == Return(c, IF op[c].at \in {"exists", "rollback"} THEN "unverified" ELSE "failed")

\* index.lock is there, or commit has no user.name to use.
Refused(c) ==
  /\ \/ op[c].at \in Locks /\ locked
     \/ op[c].at = "commit" /\ stage < 2
  /\ Failed(c) /\ UNCHANGED <<files, disk, ready, faults>>

\* A command exits with an error, a write fails, or the child that saves dies.
StepFails(c) ==
  /\ op[c].at \in GitSteps \cup {"config", "exclude", "manifest"}
  /\ faults < MaxFaults /\ faults' = faults + 1
  /\ Failed(c) /\ UNCHANGED <<files, disk, ready>>

\* A command is killed at its time limit with part of its work done.
Killed(c) ==
  /\ op[c].at \in GitSteps \ {"head", "exists"}
  /\ op[c].at \in Locks => ~locked
  /\ faults < MaxFaults /\ faults' = faults + 1
  /\ locked' = (locked \/ op[c].at \in Locks)
  /\ stage' = IF op[c].at = "gitinit" /\ stage = 0 THEN 1 ELSE stage
  /\ IF op[c].at = "commit" THEN Committed ELSE UNCHANGED <<commits, head>>
  /\ LET aim == CASE op[c].at = "clean" -> Cleaned
                  [] op[c].at = "reset" -> ResetTo(commits[op[c].target].tree)
                  [] op[c].at = "rollback" -> ResetTo(commits[op[c].id].tree)
                  [] OTHER -> files
     IN \E done \in SUBSET Paths :
          files' = [p \in Paths |-> IF p \in done THEN aim[p] ELSE files[p]]
  /\ Failed(c) /\ UNCHANGED <<index, manifests, ready>>

\* The command line ends in the middle of anything; another one starts.
Crash ==
  /\ faults < MaxFaults /\ faults' = faults + 1
  /\ op' = [c \in Callers |-> Idle] /\ ready' = FALSE /\ answer' = "none"
  /\ UNCHANGED <<files, disk>>

Step(c) ==
  \/ InitDisabled(c) \/ InitCheck(c) \/ GitInit(c) \/ WriteConfig(c) \/ WriteExclude(c)
  \/ Add(c) \/ Commit(c) \/ ReadHead(c) \/ WriteManifest(c)
  \/ TargetMissing(c) \/ TargetFound(c) \/ Clean(c) \/ Reset(c)
  \/ VerifyRestored(c) \/ RollBack(c)
  \/ Refused(c) \/ StepFails(c) \/ Killed(c)

Next ==
  \/ Edit \/ Crash
  \/ \E c \in Callers : Save(c) \/ Restore(c) \/ Step(c)

\* Every git command has a time limit, so a call goes on.
Fairness == \A c \in Callers : WF_vars(Step(c))

Spec == Init /\ [][Next]_vars /\ Fairness

-----------------------------------------------------------------------------
TypeOK ==
  /\ files \in Tree /\ stage \in 0..3 /\ locked \in BOOLEAN /\ index \in Tree
  /\ commits \in Seq([tree : Tree, parent : Nat]) /\ Len(commits) <= MaxCommits
  /\ head \in 0..Len(commits)
  /\ manifests \in [Ids -> [Walked -> Contents \cup {Absent}] \cup {None}]
  /\ ready \in BOOLEAN /\ answer \in Answers /\ faults \in 0..MaxFaults
  /\ op \in [Callers -> [call : {"none", "save", "restore"},
                         at : GitSteps \cup {"idle", "init", "config", "exclude", "manifest", "verify"},
                         target : 0..Len(commits), id : 0..Len(commits),
                         before : Tree \cup {None}]]

\* The files git keeps, in every set-up of the store.
Plain == {p \in Paths : Class[p] \in {"plain", "large"}}
Visible(tree) == [p \in Plain |-> tree[p]]
Kept == {Visible(commits[i].tree) : i \in DOMAIN commits}
Asked(o) ==
  [before |-> Visible(o.before),
   goal |-> IF o.target = 0 THEN None ELSE Visible(commits[o.target].tree)]

Trees == [Plain -> Contents \cup {Absent}]
ASSUME AskedAssumption == None \notin Trees \cup [before : Trees, goal : Trees \cup {None}]
Run == IF Restoring = {} THEN None ELSE Asked(op[CHOOSE c \in Restoring : TRUE])

Promise == INSTANCE Snapshots WITH
  Trees <- Trees, Nowhere <- None, files <- Visible(files), kept <- Kept, run <- Run

\* Saves keep what they are asked to keep and a restore changes files only when
\* they are in a commit, and never says "verified" of anything but the target:
\* with commands that fail or are killed half way and any number of crashes.
KeepsPromise == Promise!Spec

\* What a restore has taken from the workspace, of any file, is in a commit.
\* shadow-git.ts: "self-checkpoint first so the restore is itself undoable".  It
\* does not hold: the first commit of a restore may fail or be killed, unnoticed.
RestoreUndoable ==
  \A c \in Restoring, p \in Paths :
    op[c].before[p] # Absent /\ files[p] # op[c].before[p] =>
      \E i \in DOMAIN commits : commits[i].tree[p] = op[c].before[p]

\* A call of the store ends, whatever git does.
CallEnds == \A c \in Callers : (op[c].call # "none") ~> (op[c].call = "none")
=============================================================================
