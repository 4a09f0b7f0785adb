SPECIFICATION Spec
CONSTANTS
  Caller = {g1, g2}
  MaxKeys = 3
SYMMETRY Symmetry
CHECK_DEADLOCK FALSE
INVARIANTS DeliveredIsPrefix ResultTellsTruth
