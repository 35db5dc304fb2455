CONSTANTS
  Sessions = {s1, s2}
  BatchSize = 2
  RetryLimit = 2
  MaxEvents = 2
  MaxLoads = 0
  MaxCrashes = 0
  MaxGone = 1
  MaxDeleting = 0
  Poisons = {FALSE, TRUE}
CHECK_DEADLOCK FALSE
SPECIFICATION Spec
SYMMETRY Interchangeable
INVARIANTS TypeOK NoSilentLoss OrderKept NoLostWakeup
PROPERTIES OnlyCulpritsCut
CONSTRAINT OneTrouble
