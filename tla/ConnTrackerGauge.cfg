CONSTANTS
  k1 = k1
  k2 = k2
  t1 = t1
  t2 = t2
  Conns = {k1}
  Setters = {t1, t2}
  Paces = {2, 3}
  PaceWidth = 100
  MaxSent = 0
  SetsockoptMayFail = FALSE
  TcpInfoMayFail = FALSE
SPECIFICATION Spec
INVARIANT GaugeTellsSockets
