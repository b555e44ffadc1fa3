SPECIFICATION Spec
CONSTANTS
  NULL = NULL
  Processes = {101, 102}
  MAX_IDS = 9
  Shortage = FALSE
  Wild = NULL
  Faults = FALSE
  Contexts = {c1}
  Sessions = {s1}
  Memories = {m1}
  Exits = FALSE
CHECK_DEADLOCK FALSE
INVARIANTS SessionsWork 
