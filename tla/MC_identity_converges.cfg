SPECIFICATION FairSpec
CONSTANTS
  MaxUID = 1
  NumRecoveries = 0
  Starts = {"empty"}
  Disturbances = {"fault", "restart", "edit", "serviceAccount", "issuer", "drift"}
  MaxDisturbances = 2
  Policies = {"Retain", "Delete"}
  Deletable = {}
PROPERTY ConvergesToReady
