CONSTANTS
  Work <- OneChange
  Others <- OneOther
  BaseWork <- OneBase
  Absent = Absent
  maxRescueBranchAttempts = 1
  FullClone = FALSE
  AgentDetaches = TRUE
  MaxFaults = 2
  MaxKills = 2
  MaxMishaps = 3
SPECIFICATION FairSpec
INVARIANTS
  TypeOK
  ReconciledOrTold
  OwnWorkspace
PROPERTIES
  CommitsKept
  MarkersContained
  UncommittedKept
  BootRecovers
CHECK_DEADLOCK FALSE
