\* One STOP before the program ends: are the stop words cleared at the start?
SPECIFICATION BootSpec
CONSTANTS
  CycMark = 2
  MaxFileCount = 2
  Commands <- StartStop
  CutChans <- BothChannels
  Patient = TRUE
  MaxOrders = 2
  MaxFails = 0
  MaxRestarts = 1
INVARIANTS
  StopsClearedAtStart
\* The system may stop: nobody has to send a command, ask for flow or cut.
CHECK_DEADLOCK FALSE
