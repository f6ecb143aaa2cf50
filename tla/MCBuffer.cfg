\* Any client: growing, overrunning, re-initialising, with failing allocations.
SPECIFICATION BSpec
CONSTANTS
  Regions = {g1, g2}
  Bytes = {"x"}
  Ranges <- Across
  Lengths = {0, 2}
  Wrap = 2
  AllocFails = TRUE
SYMMETRY Places
INVARIANTS
  BTypeOK
  OwnRegion
  ViewHolds
  CarefulIsSafe
PROPERTIES
  KeepsBytes
CHECK_DEADLOCK FALSE
