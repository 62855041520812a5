CONSTANTS
  t1 = t1
  t2 = t2
  Threads = {t1, t2}
  NoThread = NoThread
  Libraries <- MCLibraries
SPECIFICATION FairSpec
INVARIANTS LoadedOnce AdapterSound PanicNeedsMissingProc
PROPERTIES CallsReturn
