--------------------------- MODULE MCSessionStore ---------------------------
(***************************************************************************)
(* SessionStore on small instances.                                        *)
(***************************************************************************)
EXTENDS SessionStore, TLC

\* Processes are interchangeable: no definition orders or names them.
ProcSymmetry == Permutations(Procs)

Crashes == {"crash"}
AllFaults == {"crash", "torn", "delete"}
=============================================================================
