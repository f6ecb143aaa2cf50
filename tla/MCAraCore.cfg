\* Open, read and close a session, three requests at a time; what must happen.
SPECIFICATION FairSpec
CONSTANTS
  Req = {r1, r2, r3}
  Types = {"OPEN", "CLOSE", "READ"}
  Throws = {}
  ReInit = FALSE
INVARIANTS
  FrameStatus
  OneStarter
  NoStranded
PROPERTIES
  SessionOrder
  DropsAreReported
  KeepsContract
  RequestsEnd
  SessionSettles
