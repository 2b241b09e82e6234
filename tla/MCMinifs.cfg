SPECIFICATION Spec
CONSTANTS
  na = na  nb = nb
  Name = {na, nb}
  Path <- Shallow
  Inodes = 5
  Blocks = 5
  Direct = 1
  PerTable = 2
  PerBlock = 1
  Positions = {3}
  Counts = {2}
  IntoItself = FALSE
INVARIANTS BlocksExact EntriesExact 
PROPERTIES ImplementsFileTree
