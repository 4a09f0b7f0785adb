SPECIFICATION ClientSpec
CONSTANTS
  Closer = {k1}
  Opener = Opener
  ZeroValue = {FALSE}
CHECK_DEADLOCK FALSE
PROPERTY CloseIsBounded
