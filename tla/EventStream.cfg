SPECIFICATION ReaderSpec
CONSTANTS
  Pane = {p1, p2}
  Tap = {t1, t2}
  NoTap = NoTap
  EventBuffer = 1
  OutputBuffer = 1
  MaxLines = 3
CHECK_DEADLOCK FALSE
INVARIANTS NoPanic ExitedIsLast LossesAdd EndClosesTaps
PROPERTIES ReaderNeverWaits ExitedIsHeard
