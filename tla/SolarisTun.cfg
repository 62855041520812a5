CONSTANTS
  t1 = t1
  t2 = t2
  Threads = {t1, t2}
  NoThread = NoThread
  Header <- MCHeader
  Size <- MCSize
  Streams <- MCStreams
SPECIFICATION FairSpec
INVARIANTS TypeOK
PROPERTIES KeepsTheRest RefinesHandle AllServed
