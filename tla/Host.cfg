CONSTANTS
  Processes = {p1, p2, p3}
  Former = former
  Nobody = nobody
  RetryDepthMax = 1
  Tight = TRUE
  Closers = 2
  Quitters = {p1}
CHECK_DEADLOCK FALSE
SPECIFICATION FairSpec
INVARIANTS TypeOK OneHolder NoMarkerLeft ExitIsHonest
PROPERTIES ExitEnds
