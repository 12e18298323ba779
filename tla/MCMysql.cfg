SPECIFICATION Spec
CHECK_DEADLOCK FALSE
CONSTANTS
  Handlers = {h1, h2}
  Tasks = {k}
  Ids = {0, 2}
  threadcount = 3
  connectionnum = 2
  NULL = NULL
INVARIANTS
  ResultIsOwn
PROPERTIES
  SameIdInOrder
  EveryoneIsTold
