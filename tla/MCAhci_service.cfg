SPECIFICATION Spec
CONSTANTS
  s1 = s1
  s2 = s2
  b1 = b1
  b2 = b2
  v1 = v1
  v2 = v2
  Sectors <- MCSectors
  Buffers <- MCBuffers
  Values <- MCValues
  NcqSlots = 4
  MayFail = FALSE
  MaxNotices = 1
PROPERTIES
  ImplementsService
  CallReturns
