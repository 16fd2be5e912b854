CONSTANTS
  r1 = r1
  r2 = r2
  r3 = r3
  Requests = {r1, r2}
  UploadMaxParallel = 1
  TriesConfigured = {0, 1}
  BwLimitBytes = 3
  Inputs = {"valid", "keyless"}
  PartCounts = {1, 2}
SPECIFICATION FairSpec
INVARIANT SlotsCoverTransfers
PROPERTY EveryRequestAnswered
