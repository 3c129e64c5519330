------------------------------ MODULE Snapshots ------------------------------
\* What a checkpoint store promises of the files it looks after: a save that is
\* answered has kept them as they are, nothing kept is ever given up, a restore
\* changes files only after it has kept them, and one that answers "verified"
\* leaves exactly what it was asked for.
CONSTANTS Trees,    \* what the files may be
          Nowhere,  \* asked for, or nothing asked
          Answers   \* "saved" and "verified" among them

VARIABLES files,  \* the files
          kept,   \* what can be brought back
          run,    \* the restore under way: what it found and what it is to bring
          answer  \* the last answer

vars == <<files, kept, run, answer>>

Init == files \in Trees /\ kept = {} /\ run = Nowhere /\ answer = "none"

\* Whoever works in the directory.
Edit == run = Nowhere /\ files' \in Trees /\ UNCHANGED <<kept, run, answer>>

MayKeep == kept' \in {kept, kept \cup {files}}
Keep == MayKeep /\ UNCHANGED <<files, run, answer>>

\* A save answers; one that fails may have kept the files all the same.
Answer ==
  /\ run = Nowhere /\ answer' \in Answers \ {"verified"}
  /\ answer' = "saved" => files \in kept
  /\ MayKeep /\ UNCHANGED <<files, run>>

Begin ==
  /\ run = Nowhere
  /\ \E goal \in kept \cup {Nowhere} : run' = [before |-> files, goal |-> goal]
  /\ UNCHANGED <<files, kept, answer>>

Change ==
  /\ run # Nowhere /\ run.before \in kept
  /\ files' \in Trees /\ UNCHANGED <<kept, run, answer>>

\* A restore answers, with a last change of the files.
End ==
  /\ run # Nowhere /\ run' = Nowhere /\ MayKeep
  /\ files' \in Trees /\ (files' = files \/ run.before \in kept)
  /\ answer' \in Answers \ {"saved"}
  /\ answer' = "verified" => files' = run.goal

Next == Edit \/ Keep \/ Answer \/ Begin \/ Change \/ End

Spec == Init /\ [][Next]_vars
=============================================================================
