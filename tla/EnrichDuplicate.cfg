SPECIFICATION Spec
CONSTANTS
  Cve = {c1}
  Job = {j1, j2}
  Producer = {p1, p2}
  Sweeps = {"hot24h", "digest"}
  Faults = {"producerAbort", "transient", "fatal", "stub", "releaseFails"}
  TextEngine = "llm"
  NoKey = NoKey
  HoursPerDay = 1
  MaxPrefetch = 2
  MaxRetries = 1
  MaxHour = 1
  MaxFaults = 2
  MaxReplays = 1
  MaxExtra = 1
INVARIANTS TypeOK DuplicateIsCovered
SYMMETRY Symmetric
CHECK_DEADLOCK FALSE
