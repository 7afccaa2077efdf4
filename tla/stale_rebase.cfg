CONSTANTS
  Work <- OneChange
  Others <- OneOther
  BaseWork <- NoChange
  Absent = Absent
  maxRescueBranchAttempts = 1
  FullClone = FALSE
  AgentDetaches = FALSE
  MaxFaults = 1
  MaxKills = 2
  MaxMishaps = 3
SPECIFICATION Spec
PROPERTIES
  CommitsNeverDiscarded
CHECK_DEADLOCK FALSE
