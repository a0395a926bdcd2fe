SPECIFICATION FairSpec
CONSTANTS
  Cmd = {c1, c2}
  Locked = {c1}
  Thread = {main}
  Closer = main
  Deliverer = deliver
  BlockSize = 2
  Capacity = 1
  BatchSize = 1
  MaxFiles = 1
  MaxBatches = 1
  MaxEmit <- OneReports
  c1 = c1
  Unreadable = {c1}
  Spoolless = {c1}
  Garbled <- SecondGarbled
CHECK_DEADLOCK FALSE
INVARIANT TypeOK
INVARIANT ClaimIsExclusive
INVARIANT NumbersRiseUnlessOverlapped
PROPERTY ImplementsOutbox
PROPERTY BacklogDrains
