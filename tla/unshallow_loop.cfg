CONSTANTS
  Work <- OneChange
  Others <- OneOther
  BaseWork <- OneBase
  Absent = Absent
  maxRescueBranchAttempts = 1
  FullClone = FALSE
  AgentDetaches = FALSE
  MaxFaults = 1
  MaxKills = 0
  MaxMishaps = 1
SPECIFICATION FairSpec
PROPERTIES
  NoCrashLoop
CHECK_DEADLOCK FALSE
