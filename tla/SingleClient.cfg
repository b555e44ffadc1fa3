CONSTANTS
  ta1 = ta1
  ta2 = ta2
  Trustlets = {ta1, ta2}
  NULL = NULL
  Clients = {c1}
  Slots = 5
  BootOrder <- TwoTrustlets
  MaxRequests = 2
SPECIFICATION FairSpec
INVARIANTS
  OneRunning
  WindowsFollowWorld
  StopsOnlyOutOfSlots
  PointersFresh
  AnswerIntegrity
  ServiceInOrder
PROPERTIES
  BootOnce
  RequestsServed
  ImplementsRemoteCall
