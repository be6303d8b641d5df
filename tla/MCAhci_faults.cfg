SPECIFICATION SafeSpec
CONSTANTS
  s1 = s1
  s2 = s2
  b1 = b1
  b2 = b2
  v1 = v1
  v2 = v2
  Sectors <- OneSector
  Buffers <- OneBuffer
  Values <- MCValues
  NcqSlots = 4
  MayFail = TRUE
  MaxNotices = 2
INVARIANTS
  SlotAccounting
  NothingDangles
  CompletionIsReal
CHECK_DEADLOCK FALSE
