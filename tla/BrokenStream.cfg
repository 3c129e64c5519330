SPECIFICATION WireSpec
CHECK_DEADLOCK FALSE
CONSTANTS
  MaxRequests = 2
  MaxBlocks = 2
  MaxBreaks = 1
  LateBreaks = TRUE
INVARIANT WellFormed
