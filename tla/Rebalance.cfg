CONSTANTS
  u1 = u1
  u2 = u2
  u3 = u3
  k1 = k1
  Updaters = {u1, u2, u3}
  MaxSlots = 3
  PartCounts = {1, 2}
  BwLimitBytes = 5
  Conns = {k1}
  PaceWidth = 100
  MaxSent = 0
  SetsockoptMayFail = FALSE
  TcpInfoMayFail = FALSE
SYMMETRY Symmetry
SPECIFICATION RSpec
INVARIANTS RTypeOK HolderNeverPanics PacedFromTheStart LoneUpdateExact
