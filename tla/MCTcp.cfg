SPECIFICATION Spec
CONSTANTS
  t1 = t1  t2 = t2
  Task = {t1, t2}
  Reaper = reaper
  Modulus = 16
  Iss = 14
  Irs = 13
  Written = 2
  Budget = 2
  RxCap = 1
  Chunk = 1
  Counts = {1, 2}
INVARIANTS StreamIntact
PROPERTIES EndIsHeard 
CHECK_DEADLOCK FALSE
