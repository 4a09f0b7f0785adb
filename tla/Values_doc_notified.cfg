SPECIFICATION Spec
CONSTANTS
  MaxArgs = 1
  MaxArgBytes = 0
  Bytes = {1, 9, 32, 34, 35, 36, 39, 48, 49, 92, 116, 126, 200}
  MaxBytes = 3
  Second = 4
  MaxInt32 = 3
CHECK_DEADLOCK FALSE
INVARIANT NotificationAgrees
