SPECIFICATION FairSpec
CONSTANTS
  Cve = {1, 2}
  PageSize = 1
  Overlap = 1
  MaxWindow = 2
  Slack = 0
  Back = 2
  Retention = 2
  Lag = 1
  MaxEmpty = 1
  Importing = TRUE
  MaxNow = 4
  MaxMods = 1
  MaxFaults = 2
INVARIANTS TypeOK NothingMissed
PROPERTIES CatchesUp
