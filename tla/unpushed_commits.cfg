CONSTANTS
  MaxTurns = 1
  NumRepos = 1
  MaxReprompts = 0
  Retries = 0
  SafetyNet = TRUE
  AgentCommits = TRUE
  AgentReports = FALSE
  Artifacts = FALSE
  CanShutdown = FALSE
  OperatorWaits = TRUE
SPECIFICATION Spec
PROPERTIES
  CommitsOnOriginFirst
CHECK_DEADLOCK FALSE
