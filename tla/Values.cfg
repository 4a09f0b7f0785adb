SPECIFICATION Spec
CONSTANTS
  MaxArgs = 2
  MaxArgBytes = 4
  Bytes = {1, 9, 32, 34, 35, 36, 39, 48, 49, 58, 92, 116, 126, 200}
  MaxBytes = 4
  Second = 4
  MaxInt32 = 3
CHECK_DEADLOCK FALSE
INVARIANTS AcceptedIsOneCommand ArgumentsArrive NameReadsBack OptionReadsBack RowsReadBack EventsArrive VersionsInOrder AskedAsCalled ConfiguredAsAsked
