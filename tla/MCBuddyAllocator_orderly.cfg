SPECIFICATION Spec
CONSTANTS
  NumBlocks = 16
  NumLists = 7
  SmallestBits = 2
  WordBits = 9
  Requests <- Sizes
  Disciplines <- Orderly
INVARIANTS
  NoOverlap
  NoLeak
  LegalFreePasses
  FullyCoalesced
