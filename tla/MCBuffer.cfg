SPECIFICATION Spec
CONSTANTS
  Request = 8
  Wrap = 16
  Beyond = Beyond
INVARIANTS
  UnreadIntact
  ReadsInOrder
