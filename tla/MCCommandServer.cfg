\* One client after the other, steering the recording.
SPECIFICATION Spec
CONSTANTS
  Conns = {c1, c2}
  Kinds <- Steering
  Quota = 1
  OneAtATime = TRUE
  MaxSent = 2
  MaxErrors = 1
SYMMETRY Symmetry
INVARIANTS
  TypeOK
  AnsweredOnce
  WarnHonest
  StateMatchesSource
  FullEndsRecording
  WarningShown
  StatusConsistent
