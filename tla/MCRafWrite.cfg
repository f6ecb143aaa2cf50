\* A write that fails.
SPECIFICATION RSpec
CONSTANTS
  Req = {r1}
  Types = {"OPEN", "WRITE"}
  Throws = {}
  ReInit = FALSE
  Wrap = 16
  Ranges <- OneRange
  Modes = {"READ_WRITE"}
  Sizes = {0, 2}
  Times = {TRUE}
  Faults = {"WRITE"}
SYMMETRY Slots
INVARIANTS
  WriteFailuresPanic
CHECK_DEADLOCK FALSE
