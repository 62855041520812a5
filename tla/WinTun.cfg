\* Two readers, of which one can be left asleep by Close, and one slot, which
\* has to pass from one to the other.
CONSTANTS
  r1 = r1
  r2 = r2
  t1 = t1
  s1 = s1
  Threads = {r1, r2, t1}
  Readers = {r1, r2}
  Writers = {t1}
  Slots = {s1}
  NoSlot = NoSlot
  Incoming = {"good", "bad"}
SPECIFICATION FairSpec
INVARIANTS TypeOK SessionAlive
PROPERTIES CopyIsStable RefinesHandle CloseReturns SoleReaderIsWoken
