SPECIFICATION Spec
CONSTANTS
  Events = {e1, e2}
  Garbage = Garbage
  AskedSize = 3
  Bits = 3
INVARIANTS
  CountersTell
  QueuedEventsIntact
  NoSlotRace
