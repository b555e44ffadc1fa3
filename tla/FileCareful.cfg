SPECIFICATION FSpec
CONSTANTS
  NULL = NULL
  Files = {"a", "b"}
  Inodes = {1, 2}
  UserFds = {100, 101}
  CFS_BLK_SIZE = 2
  Versions = {1, 2}
  Lengths = {0, 1, 3}
  Counts = {0, 1, 5}
  Offsets = {0, 1, 2}
  MAX_POS = 4
  Careful = TRUE
  ReadErrors = TRUE
INVARIANT DescriptorsPaired
PROPERTY ImplementsStoredFile
