SPECIFICATION GateSpec
CHECK_DEADLOCK FALSE
CONSTANTS
  Probed <- MCProbes
  MaxRetries = 1
INVARIANT CertifiesAll
