SPECIFICATION Spec
CONSTANTS
  e1 = e1
  here = here
  Env = {e1}
  Root = {here}
  TTLs = {1}
  MaxTTLs = {2}
  Asks = {}
  MaxTime = 3
  MaxLives = 1
INVARIANT SweepSparesTests
