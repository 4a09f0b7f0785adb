SPECIFICATION Spec
CONSTANTS
  Cmd = {c1, c2}
  Tmux = Tmux
  Nobody = Nobody
  Lookalikes = {}
  StartupModes = {TRUE, FALSE}
  FlagModes = {TRUE}
  GraceMayFire = TRUE
  RuinHeader = TRUE
  RuinFooter = TRUE
  CutShort = TRUE
  MaxBody = 0
  MaxUnsolicited = 0
  MaxNotes = 1
  WireCap = 2
  PipeCap = 1
SYMMETRY Symmetry
INVARIANTS IInv QueueAligned ProtocolErrorIsOwn
PROPERTIES NothingAfterDetach
