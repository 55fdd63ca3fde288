SPECIFICATION Spec
CONSTANTS
  MaxUID = 2
  NumRecoveries = 0
  Starts = {"empty", "foreign"}
  Disturbances = {"fault", "restart", "edit", "serviceAccount", "issuer", "drift", "azure"}
  MaxDisturbances = 2
  Policies = {"Retain", "Delete"}
  Deletable = {"identity"}
PROPERTY OnlyDeletingOwnerDeletes
CHECK_DEADLOCK FALSE
