CONSTANTS
  t1 = t1
  t2 = t2
  t3 = t3
  i1 = i1
  i2 = i2
  None = None
  Turns <- TwoTurns
  Handoffs <- NoCalls
  Interrupts <- NoCalls
  MaxRestarts = 1
  MaxPosts = 2
  LogTranscript = TRUE
  CanShutdown = FALSE
  DeadlinePasses = FALSE
  MaxProcs = 1
  MaxCrashes = 0
  MaxLosses = 1
SPECIFICATION Spec
INVARIANTS
  OwnAnswer
CHECK_DEADLOCK FALSE
