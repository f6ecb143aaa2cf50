\* Requests end, also when buffers have no memory and reads fail or are cut off.
SPECIFICATION RFairSpec
CONSTANTS
  Req = {r1, r2}
  Types = {"OPEN", "END", "READ", "WRITE", "CLOSE"}
  Throws = {}
  ReInit = FALSE
  Wrap = 16
  Ranges <- OneRange
  Modes = {"READ_WRITE"}
  Sizes = {2}
  Times = {FALSE}
  Faults = {"ALLOC", "READ"}
INVARIANTS
  AnsweredWhole
PROPERTIES
  RafRequestsEnd
CHECK_DEADLOCK FALSE
