SPECIFICATION FairSpec
CONSTANTS
  Emitter = {e1, e2}
  MaxSinks = 1
  QueueSize = 1
  Resumes = {2}
  MaxSeq = 3
CHECK_DEADLOCK FALSE
INVARIANT TypeOK
INVARIANT NothingLostSilently
INVARIANT NoDeliveryAfterClose
INVARIANT EmitterOrder
INVARIANT OnlyRacingEmitsPanic
INVARIANT SettleIsBarrier
PROPERTY CloseCompletes
PROPERTY SettleCompletes
