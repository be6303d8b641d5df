SPECIFICATION Spec
CONSTANTS
  data = data
  junk = junk
  short = short
  long = long
  Data = data
  Junk = junk
  Names <- AllNames
  TooLong <- LongNames
  NumInodes = 2
  InodesPerSector = 2
  InodeSectors = 1
  SectorSize = 1
  BlockSectors = 2
  Direct = 1
  ByteBits = 4
  BitmapBytes = 1
  NumBufs = 2
  MaxLen = 1
INVARIANTS
  MarkedAreClear
  ReportedSurvives
  NameIsKept
PROPERTIES
  CreateIsFresh
  NeighboursKept
