SPECIFICATION Spec
CONSTANTS
  NumBlocks = 8
  NumLists = 6
  SmallestBits = 2
  WordBits = 9
  Requests <- Sizes
  Disciplines <- AnyOrder
INVARIANTS
  NoOverlap
