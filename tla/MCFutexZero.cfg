SPECIFICATION Spec
CONSTANTS
  t1 = t1  t2 = t2  t3 = t3  p = p  q = q  a = a  b = b
  Task = {t1, t2}
  Proc = {p}
  ProcOf <- TwoThreads
  Addr = {a}
  Value = {0, 1}
  MaxWaiters = 1
  Timeouts <- OnlyZero
  Counts = {0, 1}
  HalfTicks = 4
  MaxLag = 1
INVARIANT NotLate
