SPECIFICATION FairSpec
CONSTANTS
  Fingerprint = {k1}
  NoPrint = NoPrint
  Top = 5
  Forward = 2
  PerBurst = 3
  MinWindows = 5
  MaxSaves = 2
  MaxFaults = 1
INVARIANTS TypeOK  
PROPERTIES EventuallyComplete IncrementalRuns
