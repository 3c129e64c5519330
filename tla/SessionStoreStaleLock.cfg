SPECIFICATION Spec
CONSTANTS
  Procs = {p1, p2, p3}
  Sessions = {s1}
  NoFile = NoFile
  NoRow = NoRow
  NoSession = NoSession
  Faults <- Crashes
  MaxTurn = 1
  MaxAppends = 1
SYMMETRY ProcSymmetry
CHECK_DEADLOCK FALSE
INVARIANT LockExclusion
