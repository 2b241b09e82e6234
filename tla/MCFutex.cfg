SPECIFICATION Spec
CONSTANTS
  t1 = t1  t2 = t2  t3 = t3  p = p  q = q  a = a  b = b
  Task = {t1, t2, t3}
  Proc = {p, q}
  ProcOf <- TwoAndOne
  Addr = {a, b}
  Value = {0, 1}
  MaxWaiters = 2
  Timeouts <- NeverTimed
  Counts = {0, 1}
  HalfTicks = 1
  MaxLag = 1
INVARIANTS NoLostWake SlotsOwned
PROPERTIES StepsOfWaitQueue
SYMMETRY Alike
