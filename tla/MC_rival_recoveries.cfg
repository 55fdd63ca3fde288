SPECIFICATION FairSpec
CONSTANTS
  MaxUID = 2
  NumRecoveries = 2
  Starts = {"retained"}
  Disturbances = {"admission", "restart"}
  MaxDisturbances = 2
  Policies = {"Retain"}
  Deletable = {}
INVARIANT AtMostOneStarted
INVARIANT StartInvariant
PROPERTY LockIsReleased
CHECK_DEADLOCK FALSE
