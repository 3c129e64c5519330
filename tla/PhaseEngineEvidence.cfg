SPECIFICATION Spec
CHECK_DEADLOCK FALSE
CONSTANTS
  Lanes = {scout, planner}
  MaxTurns = 2
  FixTurns = 1
  Validations <- LowEvidence
  Options <- OneCall
  MaxEdits = 1
  None = None
INVARIANT LowEvidenceIsUnknown
