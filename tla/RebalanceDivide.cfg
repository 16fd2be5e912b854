CONSTANTS
  u1 = u1
  u2 = u2
  u3 = u3
  k1 = k1
  Updaters = {u1, u2}
  MaxSlots = 2
  PartCounts = {1}
  BwLimitBytes = 5
  Conns = {}
  PaceWidth = 100
  MaxSent = 0
  SetsockoptMayFail = FALSE
  TcpInfoMayFail = FALSE
SPECIFICATION RSpec
INVARIANT NoDivisionByZero
