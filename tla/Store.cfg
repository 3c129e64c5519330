SPECIFICATION Spec
CONSTANTS
  Procs = {p1, p2, p3}
  Sessions = {s1}
  NoFile = NoFile
  NoRow = NoRow
  NoSession = NoSession
  Faults <- AllFaults
  MaxTurn = 0
  MaxAppends = 2
SYMMETRY ProcSymmetry
CHECK_DEADLOCK FALSE
INVARIANT HeldUntilStruck
INVARIANT TornCostsOneAppend
