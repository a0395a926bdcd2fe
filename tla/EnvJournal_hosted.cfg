SPECIFICATION FairSpec
CONSTANTS
  DbProviders = {neon}
  Docker = docker
  RefOnly = {neon}
  Stores = {events}
  Networks = {}
  Containers = {web}
  Deletable = TRUE
  Interrupts = TRUE
  Meddling = TRUE
  Corrupts = TRUE
  MaxUps = 2
PROPERTY CompensatedRefIsGone
PROPERTY EventuallyClean
