SPECIFICATION FairSpec
CONSTANTS
  e1 = e1
  here = here
  Env = {e1}
  Root = {here}
  TTLs = {0, 1}
  MaxTTLs = {1, 2}
  Asks = {2}
  MaxTime = 3
  MaxLives = 2
INVARIANT TypeOK
INVARIANT SweepSparesCommands
INVARIANT ExtensionsAreBounded
PROPERTY SweepHonoursStatedLifetime
PROPERTY OverdueGoes
