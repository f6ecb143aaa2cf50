\* The contract by itself.
SPECIFICATION CSpec
CONSTANTS
  Req = {r1, r2, r3}
  ReInit = FALSE
SYMMETRY Slots
INVARIANTS
  AnswersAgree
