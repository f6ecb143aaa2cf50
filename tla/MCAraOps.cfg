\* All six operations: the bits of some types add up to another one.
SPECIFICATION Spec
CONSTANTS
  Req = {r1, r2, r3}
  Types = {"UNKNOWN", "OPEN", "CLOSE", "END", "READ", "WRITE", "UNLINK"}
  Throws = {}
  ReInit = FALSE
SYMMETRY Slots
INVARIANTS
  FrameStatus
PROPERTIES
  OnlyUnregisteredStrand
