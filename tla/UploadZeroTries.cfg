CONSTANTS
  r1 = r1
  r2 = r2
  r3 = r3
  Requests = {r1}
  UploadMaxParallel = 1
  TriesConfigured = {0}
  BwLimitBytes = 0
  Inputs = {"valid"}
  PartCounts = {1}
SPECIFICATION Spec
INVARIANT SuccessMeansStored
