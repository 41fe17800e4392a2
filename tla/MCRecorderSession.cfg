\* One recording, from START on, with cuts on both channels.
SPECIFICATION FairSpec
CONSTANTS
  CycMark = 2
  MaxFileCount = 2
  Commands <- StartOnly
  CutChans <- BothChannels
  Patient = TRUE
  MaxOrders = 1
  MaxFails = 0
INVARIANTS
  CutsAligned
  RingKeepsNames
PROPERTIES
  FlowAnswered
\* The system may stop: nobody has to send a command, ask for flow or cut.
CHECK_DEADLOCK FALSE
