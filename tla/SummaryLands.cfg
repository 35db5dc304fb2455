CONSTANTS
  Opening <- Opened
  TailKeep = 1
  MaxRetries = 1
  MaxTurns = 2
  MaxCalls = 1
  MaxErrors = 0
  MaxManual = 1
  MaxLost = 3
CHECK_DEADLOCK FALSE
SPECIFICATION Spec
INVARIANTS RequestsMatch
