SPECIFICATION Spec
CONSTANTS
  DbProviders = {dblab, pgurl}
  Docker = docker
  RefOnly = {}
  Stores = {}
  Networks = {net}
  Containers = {web}
  Deletable = TRUE
  Interrupts = FALSE
  Meddling = TRUE
  Corrupts = TRUE
  MaxUps = 2
INVARIANT TypeOK
INVARIANT NoForgottenResource
INVARIANT OneLiveRecord
INVARIANT CleanExitMeansGone
