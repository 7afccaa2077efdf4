CONSTANTS
  t1 = t1
  t2 = t2
  t3 = t3
  i1 = i1
  i2 = i2
  None = None
  Turns <- ThreeTurns
  Handoffs <- TwoHandoffs
  Interrupts <- OneInterrupt
  MaxRestarts = 1
  MaxPosts = 2
  LogTranscript = TRUE
  CanShutdown = FALSE
  DeadlinePasses = TRUE
  MaxProcs = 1
  MaxCrashes = 0
  MaxLosses = 0
SPECIFICATION FairSpec
INVARIANTS
  PromptIntact
  OwnAnswer
  HandoffAllowance
PROPERTIES
  SubmitReturns
  InterruptFreesSlot
CHECK_DEADLOCK FALSE
