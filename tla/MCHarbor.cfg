SPECIFICATION FairSpec
CONSTANTS
  Links = {l1, l2}
  Clients = {k1, k2}
  None = None
INVARIANTS
  NoDanglingSession
  RegistryAgrees
  KeepsTrying
PROPERTIES
  HandshakeCompletes
CHECK_DEADLOCK FALSE
