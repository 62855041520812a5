\* Every interleaving of three goroutines that read, write and close.
CONSTANTS
  t1 = t1
  t2 = t2
  t3 = t3
  Threads = {t1, t2, t3}
  NoThread = NoThread
  MaxPackets = 1
SPECIFICATION FairSpec
INVARIANTS TypeOK FdOwned OneAtATime
PROPERTIES RefinesHandle CloseDrains WriterReturns
