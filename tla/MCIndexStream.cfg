\* Five blocks, with two failing writes and any number of failing open() calls.
SPECIFICATION FairSpec
CONSTANTS
  MaxBlocks = 5
  MaxLost = 2
INVARIANTS
  TypeOK
  InOrder
PROPERTIES
  Implements
  CutTaken
