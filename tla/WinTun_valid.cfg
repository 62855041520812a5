CONSTANTS
  r1 = r1
  r2 = r2
  t1 = t1
  s1 = s1
  s2 = s2
  Threads = {r1, r2, t1}
  Readers = {r1, r2}
  Writers = {t1}
  Slots = {s1, s2}
  NoSlot = NoSlot
  Incoming = {"good", "bad"}
SPECIFICATION Spec
SYMMETRY Symmetry
INVARIANT OkReadIsValid
