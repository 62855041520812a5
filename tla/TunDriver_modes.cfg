\* Clients that also set and clear the modes of a stream; memory may run out.
CONSTANTS
  s1 = s1
  s2 = s2
  b1 = b1
  Streams = {s1, s2}
  Blocks = {b1}
  NULL = NULL
  MaxPpa = 1
  Saps = {1}
  Modes = {"RAW", "ALL_SAP"}
  Orderly = TRUE
  AllocFails = TRUE
SPECIFICATION FairSpec
PROPERTIES LeftBehindOnce RequestsAnswered
