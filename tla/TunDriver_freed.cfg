\* TUNSETPPA and then DL_ATTACH_REQ on one stream.
CONSTANTS
  s1 = s1
  s2 = s2
  b1 = b1
  Streams = {s1, s2}
  Blocks = {b1}
  NULL = NULL
  MaxPpa = 1
  Saps = {1}
  Modes = {}
  Orderly = FALSE
  AllocFails = FALSE
SPECIFICATION Spec
INVARIANTS NoFreedMember
CHECK_DEADLOCK FALSE
