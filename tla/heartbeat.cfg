CONSTANTS
  MaxTurns = 2
  MaxProbes = 2
  TurnTimeout = 1
  Text <- DefaultProbeText
  MaxLines = 1
  MaxUnread = 1
  MaxCrashes = 1
  CanStop = TRUE
SPECIFICATION FairSpec
INVARIANTS
  TypeOK
  StampEarned
  OneOutcome
PROPERTIES
  ProbesDoNotRevive
  SilentReported
CHECK_DEADLOCK FALSE
