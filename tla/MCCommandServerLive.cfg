\* Two clients at once: everyone gets an answer.
SPECIFICATION FairSpec
CONSTANTS
  Conns = {c1, c2}
  Kinds <- Replies
  Quota = 1
  OneAtATime = FALSE
  MaxSent = 1
  MaxErrors = 0
PROPERTIES
  EveryCommandAnswered
