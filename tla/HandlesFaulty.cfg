SPECIFICATION Spec
CONSTANTS
  NULL = NULL
  Processes = {101}
  MAX_IDS = 8
  Shortage = TRUE
  Wild = Wild
  Faults = TRUE
  Contexts = {c1, c2}
  Sessions = {s1, s2}
  Memories = {m1}
  Exits = TRUE
CHECK_DEADLOCK FALSE
INVARIANT ServedByOwn
