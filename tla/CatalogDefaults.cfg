SPECIFICATION FairSpec
CONSTANTS
  Fingerprint = {k1}
  NoPrint = NoPrint
  Top = 10
  Forward = 4
  PerBurst = 7
  MinWindows = 6
  MaxSaves = 0
  MaxFaults = 0
PROPERTIES EventuallyComplete
