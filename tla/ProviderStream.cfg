SPECIFICATION PartsSpec
CHECK_DEADLOCK FALSE
CONSTANTS
  Requests = {r1, r2}
  Providers = {"openai", "anthropic"}
  MaxRetries = 2
  Threshold = 2
  Window = 1
  OpenFor = 2
  Faults = {"busy", "strict", "error", "abort"}
  MaxTime = 2
  Calls = {"k", "l", "m"}
  Delay = 2
  Limits = {0, 20}
  Remainders = {1, 2}
  NotSeen = NotSeen
PROPERTY ThrottledSpaced
INVARIANT TransientRetried
INVARIANT NoCallWhileOpen
INVARIANT OpenEarned
PROPERTY WaitsEnd
