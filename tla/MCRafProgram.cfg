\* A file of any length, --unlink, and any failure but of a write.
SPECIFICATION PFairSpec
CONSTANTS
  Req = {r1, r2, r3, r4, r5}
  Types = {"OPEN", "READ", "WRITE", "UNLINK"}
  Throws = {}
  ReInit = FALSE
  Wrap = 16
  Ranges <- PairRanges
  Modes = {"READ_WRITE"}
  Sizes = {0, 1, 3, 4}
  Times = {FALSE}
  Faults = {"ASYNC", "OPEN", "READ", "STAT", "UNLINK"}
  Pieces <- Pair
  Regions = {g1, g2}
  Unlinks = {FALSE, TRUE}
INVARIANTS
  MainRuns
  PrintsText
  NothingMisplaced
PROPERTIES
  ProgramEnds
CHECK_DEADLOCK FALSE
