\* Orderly clients, three streams, two interfaces.
CONSTANTS
  s1 = s1
  s2 = s2
  s3 = s3
  b1 = b1
  b2 = b2
  b3 = b3
  Streams = {s1, s2, s3}
  Blocks = {b1, b2, b3}
  NULL = NULL
  MaxPpa = 2
  Saps = {1}
  Modes = {}
  Orderly = TRUE
  AllocFails = FALSE
SPECIFICATION Spec
SYMMETRY Symmetry
INVARIANTS TypeOK ListsExact PpasSound NotBroken
PROPERTIES LeastMinor RefinesPorts
