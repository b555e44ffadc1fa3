SPECIFICATION KSpec
CONSTANTS
  NULL = NULL
  BITS = 3
  WORDS = 3
  ALIGN = 2
  MaxBlock = 5
  Owners = {o1, o2}
  HEAP_SIZE = 88
  Sizes = {4, 12}
  Aligns = {16}
  SLOTS = 13
  TABLE = 4
  PAGE_SIZE = 2
  IO_SIZE = 3
  PAYLOAD_SIZES = {1, 5}
  TEMP_SIZES = {1, 2, 3}
  Callers = {1, 2}
  MAX_TEMPS = 2
  TLB_ENTRIES = 1
  PAGE = 2
  WORD = 2
  SECURE_MEMORY_SIZE = 16
  CS0_START = 112
  CS0_BORDER = 128
  CS0_END = 144
  CS1_START = 176
  CS1_BORDER = 192
  CS1_END = 208
  PAYLOAD = 113
  BOARDS <- Boards
  TAG_LISTS <- TagLists
  MAX_IRQ = 4
  IRQ_BITS = 2
  MayFree = TRUE
INVARIANTS
  Conserved
  LoopsComputeFirstFit
  HeapSound
  RegionsShown
  MemoryDivided
  SecureLocked
PROPERTIES
  NoDoubleAllocation
  RaisedIsHandled
  SourcesApart
CHECK_DEADLOCK FALSE
