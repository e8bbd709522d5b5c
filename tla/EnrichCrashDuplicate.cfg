SPECIFICATION Spec
CONSTANTS
  Cve = {c1}
  Job = {j1, j2}
  Producer = {p1}
  Sweeps = {"hot24h"}
  Faults = {"workerCrash"}
  TextEngine = "llm"
  NoKey = NoKey
  HoursPerDay = 1
  MaxPrefetch = 2
  MaxRetries = 1
  MaxHour = 1
  MaxFaults = 1
  MaxReplays = 1
  MaxExtra = 1
INVARIANTS DuplicateIsCovered
SYMMETRY Symmetric
CHECK_DEADLOCK FALSE
