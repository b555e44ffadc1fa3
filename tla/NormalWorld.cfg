SPECIFICATION NSpec
CONSTANTS
  NULL = NULL
  Threads = {a, b}
  Refused = {"init", "fin", "reg", "rel", "open", "close", "invoke"}
  Ioctls = FALSE
  Devices = FALSE
  Returns = {"TEEC_SUCCESS", "garbage"}
  LIBRARY_CALLS = 2
  Copies = FALSE
  Crashes = TRUE
  MAX_REQUESTS = 6
  Callers = {one}
  Pages = {1, 2, 3, 4}
  Others = TRUE
  DRIVER_CALLS = 1
  MAX_SERVICES = 2
PROPERTIES
  CallsReturn
  WaiterServed
CHECK_DEADLOCK FALSE
