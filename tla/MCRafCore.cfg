\* Two requests at a time of any client; what moves no bytes may fail.
SPECIFICATION RSpec
CONSTANTS
  Req = {r1, r2}
  Types = {"OPEN", "CLOSE", "END", "READ", "WRITE", "UNLINK"}
  Throws = {}
  ReInit = FALSE
  Wrap = 16
  Ranges <- Overlapping
  Modes = {"READ_WRITE", "NONE"}
  Sizes = {0, 2}
  Times = {FALSE, TRUE}
  Faults = {"OPEN", "CLOSE", "UNLINK", "STAT", "ASYNC"}
SYMMETRY Slots
INVARIANTS
  RTypeOK
  IoIsOwned
  TransferExact
  AnsweredWhole
  ReadsInFile
  OwnWriteVisible
  OrderlyRunsClean
PROPERTIES
  UsesAra
CHECK_DEADLOCK FALSE
