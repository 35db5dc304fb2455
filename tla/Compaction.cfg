CONSTANTS
  Opening <- Opened
  TailKeep = 1
  MaxRetries = 1
  MaxTurns = 2
  MaxCalls = 2
  MaxErrors = 2
  MaxManual = 1
  MaxLost = 3
CHECK_DEADLOCK FALSE
SPECIFICATION Spec
INVARIANTS TypeOK TimelineMatches PairsComplete NothingForgotten SeatIsHeld
PROPERTIES PlansStayLegal OverflowShrinks
