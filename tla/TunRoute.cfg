\* Two interfaces, one after the other in the same memory, under a stream that is
\* assigned by ioctl in one life and attaches in another; no control stream need
\* be read.
CONSTANTS
  c1 = c1
  c2 = c2
  p1 = p1
  b1 = b1
  f1 = f1
  f2 = f2
  Streams = {c1, c2, p1}
  Controls = {c1, c2}
  Blocks = {b1}
  NULL = NULL
  MaxPpa = 1
  Saps = {1}
  Modes = {}
  Orderly = TRUE
  AllocFails = FALSE
  Frames = {f1, f2}
  HiWater = 1
SPECIFICATION RouteFairSpec
PROPERTIES StaysOnInterface ServiceEnds RequestsReturn
