SPECIFICATION SchemaSpec
CHECK_DEADLOCK FALSE
CONSTANTS
  MaxStrictTools = 2
  MaxStrictOptional = 3
  OptionalCounts <- Counts
INVARIANT ArgumentsMatch
