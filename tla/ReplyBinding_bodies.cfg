SPECIFICATION Spec
CONSTANTS
  Cmd = {c1, c2}
  Tmux = Tmux
  Nobody = Nobody
  Lookalikes = {"begin", "end", "exit"}
  StartupModes = {TRUE}
  FlagModes = {TRUE, FALSE}
  GraceMayFire = FALSE
  RuinHeader = TRUE
  RuinFooter = FALSE
  CutShort = FALSE
  MaxBody = 1
  MaxUnsolicited = 1
  MaxNotes = 0
  WireCap = 2
  PipeCap = 1
SYMMETRY Symmetry
INVARIANTS TypeOK OwnReply ExitIsTmuxs
