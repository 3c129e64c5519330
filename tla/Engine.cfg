SPECIFICATION PartsSpec
CHECK_DEADLOCK FALSE
CONSTANTS
  Lanes = {"scout"}
  MaxTurns = 2
  FixTurns = 1
  Validations <- Findings
  Options <- Calls
  MaxEdits = 2
  None = None
  MaxProbes = 2
  MaxCalls = 2
  GatherTurns = 2
  Tasks <- Texts
  Workspaces <- Sites
  MaxCandidates = 3
  MaxRuns = 2
INVARIANT NoOrphanLane
INVARIANT RestoreUndoesRecovery
INVARIANT NothingMissed
INVARIANT BestLead
INVARIANT NoChildLeft
INVARIANT Accounted
PROPERTY ReportsWhatItLeaves
PROPERTY DecidesOnCurrent
PROPERTY QuietOnceGivenUp
PROPERTY PartEnds
