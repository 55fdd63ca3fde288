SPECIFICATION FairSpec
CONSTANTS
  s1 = s1
  s2 = s2
  SecretRefs = {s1}
  Keys = {k1}
  RSAKeys = {k1}
  NoRef = NoRef
  NoKey = NoKey
  MaxIssuers = 1
  TokenGuard = TRUE
  Specs <- ManagedDeleteSpecs
  StartSpecs <- ManagedDeleteSpecs
  StartStorage <- EmptyAzure
  Deletable = TRUE
  Disturbances = {}
  MaxDisturbances = 0
PROPERTY EndpointOutlivesUse
CHECK_DEADLOCK FALSE
