SPECIFICATION Spec
CONSTANTS
  s1 = s1
  s2 = s2
  SecretRefs = {s1}
  Keys = {k1}
  RSAKeys = {k1}
  NoRef = NoRef
  NoKey = NoKey
  MaxIssuers = 1
  TokenGuard = FALSE
  Specs <- HandoffSpecs
  StartSpecs <- ManagedSpecs
  StartStorage <- EmptyAzure
  Deletable = TRUE
  Disturbances = {"edit", "fault", "restart", "identity", "authentication"}
  MaxDisturbances = 2
PROPERTY HandoffIsFinal
PROPERTY CapturedOnce
CHECK_DEADLOCK FALSE
