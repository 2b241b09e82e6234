SPECIFICATION Spec
CONSTANTS
  t1 = t1  t2 = t2  t3 = t3  parent = parent  child = child
  Task = {t1, t2, t3}
  Proc = {parent, child}
  ProcOf <- Family
  First = parent
  Byte = {0, 1}
  Stale = Stale
  Payload <- Alternating
  Capacity = 2
  Reads = {2}
  Writes = {3}
  InWindow = TRUE
INVARIANTS TypeOK EndsCounted NoLostWake
PROPERTIES EndOfFile ImplementsChannel
CHECK_DEADLOCK FALSE
