\* Every command in any order and at any moment, two of them, with one failing
\* open(); the slice limit allows one re-arming of each channel.
SPECIFICATION Spec
CONSTANTS
  CycMark = 2
  MaxFileCount = 2
  Commands <- AllCommands
  CutChans <- Chan0Only
  Patient = FALSE
  MaxOrders = 2
  MaxFails = 1
INVARIANTS
  TypeOK
  ParkedHoldsNothing
  NoDescriptorLost
  OneFlowConsumer
  OneNameEachSlice
PROPERTIES
  ImplementsCycle
\* The system may stop: nobody has to send a command, ask for flow or cut.
CHECK_DEADLOCK FALSE
