CONSTANTS
  MaxTurns = 3
  NumRepos = 1
  MaxReprompts = 2
  Retries = 1
  SafetyNet = TRUE
  AgentCommits = TRUE
  AgentReports = TRUE
  Artifacts = TRUE
  CanShutdown = FALSE
  OperatorWaits = TRUE
SPECIFICATION Spec
INVARIANTS
  TypeOK
  ReportsConserved
  ListsDisjoint
  BudgetExact
CHECK_DEADLOCK FALSE
