SPECIFICATION Spec
CONSTANTS
  t1 = t1  t2 = t2  t3 = t3  parent = parent  child = child
  Task = {t1, t2, t3}
  Proc = {parent, child}
  ProcOf <- Family
  First = parent
  Byte = {1}
  Stale = Stale
  Payload <- Alternating
  Capacity = 1
  Reads = {1}
  Writes = {1}
  InWindow = TRUE
PROPERTY DataArrives
CHECK_DEADLOCK FALSE
