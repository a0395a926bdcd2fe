SPECIFICATION Spec
CONSTANTS
  DbProviders = {neon}
  Docker = docker
  RefOnly = {neon}
  Stores = {}
  Networks = {}
  Containers = {}
  Deletable = TRUE
  Interrupts = FALSE
  Meddling = FALSE
  Corrupts = FALSE
  MaxUps = 1
INVARIANT NoForgottenResource
