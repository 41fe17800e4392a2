\* Start, stop, start again, by an operator who does not wait.
SPECIFICATION Spec
CONSTANTS
  CycMark = 2
  MaxFileCount = 2
  Commands <- StartStop
  CutChans <- Chan0Only
  Patient = FALSE
  MaxOrders = 3
  MaxFails = 0
PROPERTIES
  EnableOnlyWhenReady
\* The system may stop: nobody has to send a command, ask for flow or cut.
CHECK_DEADLOCK FALSE
