SPECIFICATION PartsSpec
CHECK_DEADLOCK FALSE
CONSTANTS
  Read = Read
  Asset = Asset
  Shell = Shell
  Write = Write
  Patch = Patch
  CanAsk = TRUE
  MaxAssets = 2
  MaxBytes = 3
  AssetSizes = {1, 2}
  Batches <- AnswerBatches
  MaxAnswers = 3
  InBenchmark = TRUE
  Unset = Unset
  Queries = {"q"}
  WebCalls = {"k", "l"}
  MaxItems = 1
  Tools = {search, Patch}
  Serial = {Patch}
  PatchTool = Patch
  Providers = {"openai", "anthropic"}
  Convs = {c1}
  None = None
  Benchmark = TRUE
  MaxTurns = 3
  MaxStrikes = 2
  SuppressAfter = 2
  OnlyEmpty = FALSE
  WebSearch = search
  SearchLimit = 1
  Faults <- RunFaults
  Feedbacks <- AllFeedbacks
  Returns <- RunReturns
  MaxRounds = 3
  MaxCalls = 1
INVARIANT SerialAlone
INVARIANT AllAnswered
INVARIANT AssetsBounded
INVARIANT HistoryTold
INVARIANT Earned
INVARIANT OverwriteEarned
INVARIANT OnePartialWriter
INVARIANT ToldTruly
INVARIANT NothingDenied
PROPERTY PartEnds
