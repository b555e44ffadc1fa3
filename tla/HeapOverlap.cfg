SPECIFICATION HeapSpec
CONSTANTS
  HEAP_SIZE = 120
  Sizes = {4, 20}
  Aligns = {}
INVARIANT LiveDisjoint
