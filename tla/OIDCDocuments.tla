---------------------------- MODULE OIDCDocuments ----------------------------
(***************************************************************************)
(* Signing keys and the two documents published from them                  *)
(* (internal/signingkey/key.go, internal/azure/oidc_publisher.go,          *)
(* internal/oidc/documents.go).  A key is its key ID; a Secret reference   *)
(* stands for namespace, name and data key together.  A Secret that is     *)
(* missing, lacks the data key, or holds something that is not a supported *)
(* key is one value, NoKey: each of them fails the publication.            *)
(***************************************************************************)
EXTENDS Integers, FiniteSets

CONSTANTS
  SecretRefs,  \* what spec.signingKey may refer to
  Keys,        \* key IDs
  RSAKeys,     \* those of RSA keys; the others are P-256 keys
  NoRef,       \* retiringSecretRef is not set
  NoKey

ASSUME RefsAssumption == SecretRefs # {} /\ NoRef \notin SecretRefs
ASSUME KeysAssumption == RSAKeys \subseteq Keys /\ NoKey \notin Keys

SigningKeyStatus == [kid : Keys, state : {"Active", "Retiring"}]
Secrets == [SecretRefs -> Keys \cup {NoKey}]

PublicKeyMetadataFromPEM(k) == IF k \in RSAKeys THEN "RS256" ELSE "ES256"

\* Mutant: only the active key is published.
publishedSigningKeys_ActiveOnly(active, retiring) ==
  {[kid |-> active, state |-> "Active"]}

\* Mutant: a retiring key is taken for granted.
publishedSigningKeys_AlwaysRetiring(active, retiring) ==
  {[kid |-> active, state |-> "Active"]}
    \cup {[kid |-> k, state |-> "Retiring"] : k \in {retiring} \ {active}}

\* A key ID occurs once; the active reference comes first and keeps its state.
publishedSigningKeys(active, retiring) ==
  {[kid |-> active, state |-> "Active"]}
    \cup {[kid |-> k, state |-> "Retiring"] : k \in {retiring} \ {active, NoKey}}

JWKSFromPEMs(signingKeys) == {s.kid : s \in signingKeys}
DiscoveryDocument(signingKeys) == {PublicKeyMetadataFromPEM(s.kid) : s \in signingKeys}

\* The keys a specification asks to be published.
referencedKeys(spec, secrets) ==
  {secrets[r] : r \in {spec.secretRef, spec.retiringSecretRef} \ {NoRef}}
=============================================================================
