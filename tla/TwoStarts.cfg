CONSTANTS
  Processes = {p1, p2}
  Former = former
  Nobody = nobody
  RetryDepthMax = 3
  Tight = FALSE
  Closers = 0
  Quitters = {}
CHECK_DEADLOCK FALSE
SPECIFICATION Spec
SYMMETRY Interchangeable
INVARIANTS OneHolder
