SPECIFICATION Spec
CONSTANTS
  Base = {"alert-bell", "pane-exited"}
  TableOf <- Kept
  Command = {c1, c2}
  Empty = Empty
  MaxIndex = 1
  MaxChanges = 3
CHECK_DEADLOCK FALSE
INVARIANTS HeldIsReported ReportedWasThere
