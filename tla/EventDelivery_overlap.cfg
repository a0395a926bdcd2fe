SPECIFICATION Spec
CONSTANTS
  Cmd = {c1, c2, c3}
  c1 = c1
  Locked = {c2, c3}
  Thread = {main}
  Closer = main
  Deliverer = deliver
  BlockSize = 2
  Capacity = 1
  BatchSize = 1
  MaxFiles = 1
  MaxBatches = 1
  MaxEmit <- EachReports
  Unreadable = {}
  Spoolless = {}
  Garbled = {}
CHECK_DEADLOCK FALSE
INVARIANT NumbersRise
