SPECIFICATION MCSpec
SYMMETRY Symmetry
CONSTANTS
  NULL = NULL
  Threads = {a, b}
  Refused = {"init", "fin", "reg", "rel", "open", "close", "invoke"}
  Ioctls = FALSE
  Devices = FALSE
  Returns = {"TEEC_SUCCESS", "garbage"}
  LIBRARY_CALLS = 2
  Copies = FALSE
  Crashes = TRUE
  MAX_REQUESTS = 6
  Callers = {one, two}
  Pages = {p1, p2, p3, p4, p5, p6}
  FewPages = {p1, p2, p3, p4}
  Others = FALSE
  DRIVER_CALLS = 1
  MAX_SERVICES = 2
INVARIANTS
  AnswerDelivered
  HandleOwn
  ExecutedOnce
  HeldPagesOwn
  AnswerReachesCaller
CHECK_DEADLOCK FALSE
