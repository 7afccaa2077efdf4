CONSTANTS
  MaxTurns = 2
  NumRepos = 1
  MaxReprompts = 1
  Retries = 1
  SafetyNet = FALSE
  AgentCommits = FALSE
  AgentReports = TRUE
  Artifacts = FALSE
  CanShutdown = TRUE
  OperatorWaits = FALSE
SPECIFICATION FairSpec
INVARIANTS
  ReportsConserved
  NoCallbackRefused
  NothingLeftBehind
PROPERTIES
  ShutdownEnds
CHECK_DEADLOCK FALSE
