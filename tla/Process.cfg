SPECIFICATION PSpec
CONSTANTS
  NULL = NULL
  BITS = 32
  Procs = {ta1, ta2}
  PAGES = 4
  FRAMES = 4
  PAGE_SIZE = 2
  Sizes = {1, 3}
  MaxParams = 2
  Nodes = {1, 2, 3, 4}
  Blocks = {b1, b2, b3}
  Fds = {100, 101, 102, 103}
INVARIANTS
  LentIsBacked
  SpaceBacked
  PanicOnlyWhenFull
  ImageLoaded
  FdMeansFile
CHECK_DEADLOCK FALSE
