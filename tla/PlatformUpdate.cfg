SPECIFICATION FairSpec
CONSTANTS
  Admin = {a1, a2}
  Slot = {box, s1, s2}
  Container = box
  Modes = {"compose-helper", "host-script"}
  MaxRemote = 2
  MaxOverlaps = 1
  MaxAges = 1
  MaxFaults = 1
INVARIANTS TypeOK  OneUpdater
PROPERTIES Installs DeploysCheckout UpdateLands
