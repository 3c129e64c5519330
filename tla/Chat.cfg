SPECIFICATION PartsSpec
CHECK_DEADLOCK FALSE
CONSTANTS
  patch = patch
  c1 = c1
  c2 = c2
  c3 = c3
  Tools <- OneTool
  Serial <- OneTool
  PatchTool = patch
  Providers = {"openai", "anthropic"}
  Convs <- TwoConvs
  Benchmark = FALSE
  MaxTurns = 2
  MaxStrikes = 1
  SuppressAfter = 2
  OnlyEmpty = FALSE
  WebSearch = patch
  SearchLimit = 9
  Faults = {"error", "cut", "crash", "unavailable"}
  Feedbacks = {"none"}
  Returns = {"ok", "patch"}
  MaxRounds = 1
  MaxCalls = 1
  Commands = {"new", "switch", "clear", "compact", "resume", "exit"}
  MaxMessages = 2
  MaxCommands = 2
  None = None
  MaxRequests = 3
  MaxBlocks = 3
  MaxBreaks = 1
  LateBreaks = FALSE
SYMMETRY SharedSymmetry
INVARIANT SteadyReaches
INVARIANT ResumedReaches
INVARIANT NothingLeaks
INVARIANT WellFormed
INVARIANT CallsTrue
INVARIANT ReplayTrue
