CONSTANTS
  t1 = t1
  t2 = t2
  t3 = t3
  i1 = i1
  i2 = i2
  None = None
  Turns <- OneTurn
  Handoffs <- NoCalls
  Interrupts <- NoCalls
  MaxRestarts = 1
  MaxPosts = 2
  LogTranscript = TRUE
  CanShutdown = FALSE
  DeadlinePasses = FALSE
  MaxProcs = 3
  MaxCrashes = 1
  MaxLosses = 0
SPECIFICATION FairSpec
PROPERTIES
  ImplementsFairLifecycle
CHECK_DEADLOCK FALSE
