SPECIFICATION Spec
CONSTANTS
  Admin = {a1}
  Slot = {box, s1, s2}
  Container = box
  Modes = {"compose-helper", "host-script"}
  MaxRemote = 1
  MaxOverlaps = 0
  MaxAges = 1
  MaxFaults = 0
INVARIANTS DoneMeansDeployed
SYMMETRY Symmetric
