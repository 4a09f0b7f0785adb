SPECIFICATION ClientSpec
CONSTANTS
  Closer = {k1, k2}
  Opener = Opener
  ZeroValue = {TRUE, FALSE}
CHECK_DEADLOCK FALSE
INVARIANTS WaitAgreesWithExited CloseTellsTheEnd ReturnMeansOver FailedConnectLeaksNothing
PROPERTIES TerminalErrSettles NoZombie CloseReturns
