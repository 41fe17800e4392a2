\* Start, stop, start again, by an operator who waits for the workers, with
\* the program ending twice, at any moment.
SPECIFICATION FairBootSpec
CONSTANTS
  CycMark = 2
  MaxFileCount = 3
  Commands <- StartStop
  CutChans <- NoChannel
  Patient = TRUE
  MaxOrders = 3
  MaxFails = 0
  MaxRestarts = 2
INVARIANTS
  NoOldStop
  SilentStart
PROPERTIES
  CycleAcrossRestarts
  FlowAnsweredAfterBoot
  StopLetsGo
\* The system may stop: nobody has to send a command, ask for flow or cut.
CHECK_DEADLOCK FALSE
