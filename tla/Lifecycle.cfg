CONSTANTS
  Sessions = {s1}
  BatchSize = 2
  RetryLimit = 2
  MaxEvents = 2
  MaxLoads = 2
  MaxCrashes = 1
  MaxGone = 1
  MaxDeleting = 1
  Poisons = {FALSE, TRUE}
CHECK_DEADLOCK FALSE
SPECIFICATION FairSpec
INVARIANTS DurablePrefix DeletedStaysDeleted
PROPERTIES KeepsPromises EventsSettle CallsReturn
