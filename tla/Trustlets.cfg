SPECIFICATION TSpec
CONSTANTS
  NULL = NULL
  Files = {"key"}
  Inodes = {1}
  UserFds = {100}
  CFS_BLK_SIZE = 4
  Versions = {1, 2}
  Lengths = {1}
  Counts = {1}
  Offsets = {0}
  MAX_POS = 9
  Careful = FALSE
  ReadErrors = TRUE
  Sessions = {s1, s2}
  Keys = {1, 2}
  PARTS = 3
  CHECKED = 2
  LineLength <- TwoLengths
  AnyClient = FALSE
  KeyIds = {1, 2}
  Pins = {7, 8}
  Messages = {1, 2, 3}
  Padded = {1, 2}
  IVs = {1, 2}
  MAX_KEYS = 3
  TRIES = 3
INVARIANTS
  Authentic CreatedKeyLoads ObjectKeyMatches
PROPERTY KeysUnderPin
