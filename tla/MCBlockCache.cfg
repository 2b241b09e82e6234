SPECIFICATION Spec
CONSTANTS
  Sectors = 3
  Data = {0, 1}
  Blocks = 2
  Batch = 2
INVARIANTS Coherent
PROPERTIES ImplementsDisk
