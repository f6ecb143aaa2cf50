\* A client that registers OPEN and CLOSE and calls END.
SPECIFICATION Spec
CONSTANTS
  Req = {r1, r2}
  Types = {"OPEN", "CLOSE", "END"}
  Throws = {}
  ReInit = FALSE
INVARIANTS
  EndIsRegistered
