SPECIFICATION Spec
CONSTANTS
  s1 = s1
  s2 = s2
  s3 = s3
  v1 = v1
  v2 = v2
  none = none
  Sectors <- MCSectors
  Values <- MCValues
  Zeros = v1
  NumBufs = 2
  NoSector = none
  MaxRefs = 2
  Offsets <- MCSectors
  Contents <- MCValues
  FirstOffset = s1
  NUM_ENTRIES = 2
  k = k
  w = w
  sp = sp
  Base = 3
  MaxDigits = 3
  WordSize = 10
  Delimiter = sp
  Chars <- MCChars
  LineSize = 5
  SeekName <- MCSeek
  WriteName <- MCWrite
  MkfileName <- MCMkfile
INVARIANTS
  FreeMaskExact
  Coherent
  TakenIsLent
  NothingLost
  LentIsLatest
  FirstWordRuns
  WriteGetsRest
  SeekGetsNumber
  MkfileGetsWord
PROPERTIES
  ImplementsStore
CHECK_DEADLOCK FALSE
