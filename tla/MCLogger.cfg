SPECIFICATION FairSpec
CONSTANT MaxLogs = 3
INVARIANTS
  LogsInOrder
  FreedOnceWritten
PROPERTY EverythingWritten
