SPECIFICATION CallSpec
CONSTANTS
  Caller = {g1, g2}
  Id = {s1, s2}
  NoId = NoId
  Faulty = TRUE
  MaxCalls = 3
CHECK_DEADLOCK FALSE
INVARIANTS GoneIsGone CreatedIsReported NamesAgree
PROPERTY CallsReturn
