SPECIFICATION ChatSpec
CHECK_DEADLOCK FALSE
CONSTANTS
  patch = patch
  c1 = c1
  c2 = c2
  c3 = c3
  Tools <- OneTool
  Serial <- OneTool
  PatchTool = patch
  Providers = {"openai"}
  Convs <- TwoConvs
  Benchmark = FALSE
  MaxTurns = 2
  MaxStrikes = 1
  SuppressAfter = 2
  OnlyEmpty = FALSE
  WebSearch = patch
  SearchLimit = 9
  Faults = {}
  Feedbacks = {"none"}
  Returns = {"ok", "patch"}
  MaxRounds = 2
  MaxCalls = 1
  Commands = {}
  MaxMessages = 2
  MaxCommands = 2
  None = None
SYMMETRY ConvSymmetry
INVARIANT NothingLost
