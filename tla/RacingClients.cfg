CONSTANTS
  ta1 = ta1
  ta2 = ta2
  Trustlets = {ta1}
  NULL = NULL
  Clients = {c1, c2}
  Slots = 4
  BootOrder <- OneTrustlet
  MaxRequests = 1
SPECIFICATION Spec
INVARIANT IInv
