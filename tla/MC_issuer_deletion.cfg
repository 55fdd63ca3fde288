SPECIFICATION FairSpec
CONSTANTS
  s1 = s1
  s2 = s2
  SecretRefs = {s1}
  Keys = {k1}
  RSAKeys = {k1}
  NoRef = NoRef
  NoKey = NoKey
  MaxIssuers = 2
  TokenGuard = TRUE
  Specs <- HandoffSpecs
  StartSpecs <- ManagedSpecs
  StartStorage <- AnyAzure
  Deletable = TRUE
  Disturbances = {"edit", "identity"}
  MaxDisturbances = 1
PROPERTY DeletesOnlyItsOwnAccount
PROPERTY DeletionCompletes
CHECK_DEADLOCK FALSE
