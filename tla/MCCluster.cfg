SPECIFICATION ClusterSpec
CHECK_DEADLOCK FALSE
CONSTANTS
  Nodes = {1, 2}
  MaxSessions = 3
  Handshake = Handshake
  NoSession = NoSession
INVARIANTS
  MeshPlanned
PROPERTIES
  MeshForms
