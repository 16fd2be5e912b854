CONSTANTS
  u1 = u1
  u2 = u2
  u3 = u3
  k1 = k1
  Updaters = {u1, u2, u3}
  MaxSlots = 3
  PartCounts = {1}
  BwLimitBytes = 6
  Conns = {}
  PaceWidth = 100
  MaxSent = 0
  SetsockoptMayFail = FALSE
  TcpInfoMayFail = FALSE
SPECIFICATION RSpec
INVARIANT AggregateWithinLimit
