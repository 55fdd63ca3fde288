SPECIFICATION FairSpec
CONSTANTS
  MaxUID = 2
  NumRecoveries = 1
  Starts = {"retained"}
  Disturbances = {"fault"}
  MaxDisturbances = 1
  Policies = {"Retain"}
  Deletable = {}
PROPERTY StartedRecoveryEnds
