SPECIFICATION Spec
CONSTANTS
  data = data
  junk = junk
  short = short
  long = long
  Data = data
  Junk = junk
  Names <- ShortName
  TooLong = {}
  NumInodes = 2
  InodesPerSector = 2
  InodeSectors = 1
  SectorSize = 2
  BlockSectors = 2
  Direct = 1
  ByteBits = 4
  BitmapBytes = 2
  NumBufs = 2
  MaxLen = 3
INVARIANTS
  BlocksDisjoint
