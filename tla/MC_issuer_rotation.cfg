SPECIFICATION FairSpec
CONSTANTS
  s1 = s1
  s2 = s2
  SecretRefs = {s1, s2}
  Keys = {k1, k2, k3}
  RSAKeys = {k1}
  NoRef = NoRef
  NoKey = NoKey
  MaxIssuers = 1
  TokenGuard = TRUE
  Specs <- RotationSpecs
  StartSpecs <- PlainSpecs
  StartStorage <- EmptyAzure
  Deletable = FALSE
  Disturbances = {"edit", "secret", "fault", "restart", "storage"}
  MaxDisturbances = 2
INVARIANT TypeOK
INVARIANT KeysStayServed
PROPERTY IssuerConverges
