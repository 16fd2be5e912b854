CONSTANTS
  k1 = k1
  k2 = k2
  t1 = t1
  t2 = t2
  Conns = {k1, k2}
  Setters = {t1, t2}
  Paces = {2}
  PaceWidth = 100
  MaxSent = 2
  SetsockoptMayFail = TRUE
  TcpInfoMayFail = TRUE
SYMMETRY Symmetry
SPECIFICATION CSpec
INVARIANTS CTypeOK ConnectionsExact ActiveAreOpen NoneUnpaced NeverAsksClosed
PROPERTIES ScrapeTrue ScrapeMonotone
