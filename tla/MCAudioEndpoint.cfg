CONSTANTS
  g1 = g1
  g2 = g2
  Gens = {g1, g2}
  s1 = s1
  s2 = s2
  Sessions = {s1, s2}
  MaxServe = 2
  MaxQueue = 2
  None = None
SPECIFICATION AudioSpec
SYMMETRY Symmetry
INVARIANT EndpointAgrees
