CONSTANTS
  Sessions = {s1, s2}
  Messages = {m1, m2, m3}
  Capacity = 1
  QueueCap = 2
  MaxWakes = 2
  Ways = {"plain", "held"}
  MayThrow = TRUE
  Eager = FALSE
CHECK_DEADLOCK FALSE
SPECIFICATION FairSpec
INVARIANT AbortHasTarget
PROPERTIES LineMoves HeldRuns
