SPECIFICATION Spec
CONSTANTS
  Pane = {p1}
  Tap = {t1, t2}
  NoTap = NoTap
  EventBuffer = 1
  OutputBuffer = 1
  MaxLines = 4
SYMMETRY Symmetry
CHECK_DEADLOCK FALSE
INVARIANT EveryLossReported
