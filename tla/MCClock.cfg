\* Two commands that set the clocks, to any of 140 times.
SPECIFICATION Spec
CONSTANTS
  Times <- SomeTimes
  MaxSets = 2
INVARIANTS
  TypeOK
  SystemIsUtc
  ClocksAgree
  RoundTrip
