CONSTANTS
  e1 = e1
  e2 = e2
  c1 = c1
  c2 = c2
  m1 = m1
  k1 = k1
  Emus = {e1, e2}
  Conns = {c1, c2}
  Macs = {m1}
  Cams = {k1}
  None = None
SPECIFICATION FairSpec
INVARIANTS TypeOK OneController OnlineAgrees NothingOutlives
PROPERTY ShutdownEnds
CHECK_DEADLOCK FALSE
