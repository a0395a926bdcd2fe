SPECIFICATION Spec
CONSTANTS
  p1 = p1
  h1 = h1
  h2 = h2
  NoOwner = NoOwner
  Proc = {p1, p2, p3, p4}
  Hosts = {h1, h2}
  HostOf <- TwoHosts
  CanLink = TRUE
  ReadsFail = TRUE
  MaxRounds = 1
  MaxLooks = 1
CHECK_DEADLOCK FALSE
INVARIANT TypeOK
INVARIANT ExclusionUnlessReclaimsOverlap
PROPERTY LiveLockTakenOnlyByItsOwner
