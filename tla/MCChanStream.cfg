\* Either channel, two whole blocks and a tail, one failing write.
SPECIFICATION Spec
CONSTANTS
  Channels <- BothChannels
  Block = 3
  MaxUnits = 8
  MaxLost = 1
INVARIANTS
  TypeOK
  InOrder
PROPERTIES
  Implements
