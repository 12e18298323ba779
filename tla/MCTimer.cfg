SPECIFICATION Spec
CONSTANTS
  Bases = {b1, b2}
  None = None
  RootSize = 4
  NodeSize = 2
  Levels = 2
  Span <- MCSpan
  FOREVER <- MCForever
  Delays <- MCDelays
  Intervals <- MCIntervals
  Counts <- MCCounts
  MaxJiffies = 19
INVARIANTS
  NoDanglingTimer
  FiresWhenDue
PROPERTIES
  SilentAfterTerminate
  ImplementsTimerService
CHECK_DEADLOCK FALSE
