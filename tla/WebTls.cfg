SPECIFICATION FairSpec
CONSTANTS
  m1 = m1
  None = None
  Admin = {a1, a2}
  Timer = timer
  Mat = {m1, m2, m3, m4, m5}
  Life = 14
  Threshold = 12
  Pause = 2
  Patience = 3
  Workload <- Workloads
INVARIANTS TypeOK DiskWhole ServedIsDisk NeverExpires
PROPERTIES ChoiceStays TornHeals
