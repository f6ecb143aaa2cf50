\* A client that calls ara_init() at any time and throws errors of its own.
SPECIFICATION Spec
CONSTANTS
  Req = {r1, r2, r3}
  Types = {"OPEN", "CLOSE", "UNLINK"}
  Throws = {"UNKNOWN", "BADDATA"}
  ReInit = TRUE
SYMMETRY Slots
INVARIANTS
  TypeOK
  OneOwner
  NoDanglingRequest
