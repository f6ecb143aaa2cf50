\* example/simple/main.c, with a memory of 4 bytes.
SPECIFICATION SFairSpec
CONSTANTS
  Req = {r1, r2, r3, r4}
  Types = {"OPEN", "CLOSE", "READ", "WRITE"}
  Throws = {}
  ReInit = FALSE
  Bufsiz = 4
  Ranges <- AllRanges
  Regions = {g1, g2}
INVARIANTS
  EchoesText
PROPERTIES
  SimpleEnds
CHECK_DEADLOCK FALSE
