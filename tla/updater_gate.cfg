SPECIFICATION Spec
CONSTANTS
  Tags = {1, 2, 3}
  Timeout = 2
  GitSource = TRUE
  Disturbances <- RemoteFailures
  MaxFaults = 2
  MaxForeign = 1
  MaxGeneration = 1
INVARIANTS
  WatchIsDeployed
PROPERTIES
  GateHeld
  RollbackUndoesLastDeploy
  RolledBackStaysOut
  OneTrialAtATime
