CONSTANTS
  r1 = r1
  r2 = r2
  r3 = r3
  Requests = {r1, r2}
  UploadMaxParallel = 2
  TriesConfigured = {3}
  BwLimitBytes = 0
  Inputs = {"valid", "invalid"}
  PartCounts = {1, 2, 3}
SYMMETRY Symmetry
SPECIFICATION Spec
INVARIANTS TypeOK SuccessMeansStored AnswerIsTrue SlotsCoverTransfers AttemptsAccounted CancelledIsAborted
PROPERTIES UsesSemaphore ImplementsService
