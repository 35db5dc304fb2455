CONSTANTS
  r = r
  v = v
  w = w
  b = b
  other = other
  NoQuestion = NoQuestion
  Calls = {r, v, w, b}
  Kind <- KindOf
  Questions <- Asked
  Approvals <- Approving
  Backends = {tui, web}
  Cap = 2
  Batches <- Answers
  MaxRetries = 1
  MaxInputs = 1
  MaxBatches = 2
SPECIFICATION Spec
CHECK_DEADLOCK FALSE
INVARIANTS TypeOK QueueMoves WritesAlone RunsAreClosed NoAskOutlivesRun
PROPERTIES ExecutedOnce AbortEndsRun
