SPECIFICATION Spec
CONSTANTS
  MaxUID = 3
  NumRecoveries = 1
  Starts = {"retained"}
  Disturbances = {"fault", "restart"}
  MaxDisturbances = 1
  Policies = {"Retain", "Delete"}
  Deletable = {"identity", "recovery"}
INVARIANT TypeOK
INVARIANT FenceHasDriver
INVARIANT ReadyOwns
PROPERTY NoNormalWriteWhileFenced
PROPERTY TransfersOwnership
CHECK_DEADLOCK FALSE
