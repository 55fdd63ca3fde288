SPECIFICATION FairSpec
CONSTANTS
  MaxUID = 2
  NumRecoveries = 1
  Starts = {"retained"}
  Disturbances = {}
  MaxDisturbances = 0
  Policies = {"Retain"}
  Deletable = {"recovery"}
PROPERTY DeletionFinishes
CHECK_DEADLOCK FALSE
