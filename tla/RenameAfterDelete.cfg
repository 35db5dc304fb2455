CONSTANTS
  Sessions = {s1}
  BatchSize = 2
  RetryLimit = 2
  MaxEvents = 2
  MaxLoads = 0
  MaxCrashes = 0
  MaxGone = 1
  MaxDeleting = 0
  Poisons = {FALSE}
CHECK_DEADLOCK FALSE
SPECIFICATION Spec
INVARIANTS NoHole
