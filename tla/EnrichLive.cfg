SPECIFICATION FairSpec
CONSTANTS
  Cve = {c1}
  Job = {j1, j2, j3, j4}
  Producer = {p1}
  Sweeps = {"hot24h", "backlog"}
  Faults = {"workerCrash", "producerAbort", "transient", "fatal", "stub", "keyDeleteFails", "releaseFails"}
  TextEngine = "llm"
  NoKey = NoKey
  HoursPerDay = 1
  MaxPrefetch = 2
  MaxRetries = 1
  MaxHour = 2
  MaxFaults = 2
  MaxReplays = 0
  MaxExtra = 0
PROPERTIES EventuallyMature
CHECK_DEADLOCK FALSE
