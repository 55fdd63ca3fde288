SPECIFICATION Spec
CONSTANTS
  MaxUID = 2
  NumRecoveries = 1
  Starts = {"rebuilt"}
  Disturbances = {"fault", "restart", "edit", "serviceAccount", "issuer", "drift", "azure"}
  MaxDisturbances = 1
  Policies = {"Retain", "Delete"}
  Deletable = {"identity"}
INVARIANT FencedTargetIsLocked
INVARIANT CompletedIsPlanned
CHECK_DEADLOCK FALSE
