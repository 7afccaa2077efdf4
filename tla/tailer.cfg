CONSTANTS
  Script <- Reporting
  MaxLines = 2
  MaxTurns = 2
  MaxFiles = 2
  MaxFollows = 2
  MaxFaults = 1
SPECIFICATION FairSpec
INVARIANTS
  TypeOK
  OwnReports
  FinishedTasksGone
PROPERTIES
  CaughtUpDelivers
  EveryLineSeen
CHECK_DEADLOCK FALSE
