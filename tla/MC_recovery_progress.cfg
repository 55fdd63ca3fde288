SPECIFICATION FairSpec
CONSTANTS
  MaxUID = 2
  NumRecoveries = 1
  Starts = {"rebuilt"}
  Disturbances = {"fault", "restart", "serviceAccount"}
  MaxDisturbances = 1
  Policies = {"Retain"}
  Deletable = {}
PROPERTY FenceIsCleared
PROPERTY RecoverySettles
PROPERTY CompletedTargetBecomesReady
CHECK_DEADLOCK FALSE
