CONSTANTS
  Sessions = {s1, s2}
  Messages = {m1, m2, m3, m4}
  Capacity = 2
  QueueCap = 2
  MaxWakes = 1
  Ways = {"plain", "wake", "control"}
  MayThrow = TRUE
  Eager = TRUE
CHECK_DEADLOCK FALSE
SPECIFICATION Spec
SYMMETRY Interchangeable
INVARIANTS TypeOK Conserved LaneAccounts
PROPERTIES QuietAfterDismantle OnlyLateJoinsStrand
