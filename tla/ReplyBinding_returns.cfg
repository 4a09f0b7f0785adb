SPECIFICATION ClientSpec
CONSTANTS
  Cmd = {c1, c2}
  Tmux = Tmux
  Nobody = Nobody
  Lookalikes = {}
  StartupModes = {TRUE}
  FlagModes = {TRUE}
  GraceMayFire = TRUE
  RuinHeader = TRUE
  RuinFooter = FALSE
  CutShort = FALSE
  MaxBody = 0
  MaxUnsolicited = 0
  MaxNotes = 0
  WireCap = 1
  PipeCap = 1
\* a call left waiting for ever is what the properties are about
CHECK_DEADLOCK FALSE
PROPERTIES EndFreesCalls EveryCallReturns ImplementsService
