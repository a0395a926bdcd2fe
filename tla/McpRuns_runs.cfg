SPECIFICATION FairSpec
CONSTANTS
  Run = {r1, r2}
  Key = {k1}
  NoKey = NoKey
  Input = {i1, i2}
  Pid = {p1, p2}
  NoRun = NoRun
  k1 = k1
  Request <- OneKey
  Natives = {"fail", "warn", "flaky"}
CHECK_DEADLOCK FALSE
INVARIANT TypeOK
INVARIANT VerdictIsEarned
INVARIANT AnswerFitsRequest
INVARIANT WorkIsInFlight
INVARIANT CancelIsNotFailure
PROPERTY ImplementsLedger
PROPERTY RunsSettle
PROPERTY ServersExit
