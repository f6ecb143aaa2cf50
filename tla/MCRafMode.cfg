\* A file opened for reading only.
SPECIFICATION RSpec
CONSTANTS
  Req = {r1}
  Types = {"OPEN"}
  Throws = {}
  ReInit = FALSE
  Wrap = 16
  Ranges <- Overlapping
  Modes = {"READ_ONLY"}
  Sizes = {0, 2}
  Times = {TRUE}
  Faults = {}
SYMMETRY Slots
INVARIANTS
  ReadOnlyIsNotWritable
CHECK_DEADLOCK FALSE
