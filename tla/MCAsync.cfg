SPECIFICATION FairSpec
CONSTANTS
  N = 3
  NULL = NULL
  MaxInFlight = 2
INVARIANTS
  TypeOK
  ServedInOrder
  NoTaskLost
  OwnChainAssertsHold
  SerialClientSafe
PROPERTIES
  SerialClientServed
