SPECIFICATION FairSpec
CONSTANTS
  Conns = {c1, c2}
  Fds = {f1, f2}
  None = None
  QueueSize = 2
INVARIANTS
  NoDeletedDriver
  UnbindsOnlyItsOwn
  TerminatedOnce
PROPERTIES
  ClosingIsDestroyed
