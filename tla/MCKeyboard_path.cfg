SPECIFICATION Spec
CONSTANTS
  A = A
  Printable <- Letters
  Keys <- EditingKeys
  RingSize = 3
  LineSize = 2
  MaxKeys = 3
  MaxPending = 2
INVARIANTS
  TakenInOrder
PROPERTIES
  EveryKeyHandled
CHECK_DEADLOCK FALSE
