CONSTANTS
  t1 = t1
  t2 = t2
  t3 = t3
  i1 = i1
  i2 = i2
  None = None
  Turns <- TwoTurns
  Handoffs <- NoCalls
  Interrupts <- OneInterrupt
  MaxRestarts = 1
  MaxPosts = 2
  LogTranscript = TRUE
  CanShutdown = TRUE
  DeadlinePasses = FALSE
  MaxProcs = 2
  MaxCrashes = 1
  MaxLosses = 1
SPECIFICATION Spec
INVARIANTS
  TypeOK
  SlotMatchesStore
  BusyHasTurn
  NotifiedOnce
  CountersMatchStore
  NoOrphanClaude
  Supervised
PROPERTIES
  EndedForGood
  ImplementsLifecycle
CHECK_DEADLOCK FALSE
