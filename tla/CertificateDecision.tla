------------------------ MODULE CertificateDecision ------------------------
(***************************************************************************)
(* The part of internal/domain that decides what one certificate needs:    *)
(* which Key Vault object it goes to, whether it is fit to import, and      *)
(* whether the vault already holds it.  All of it is pure, so the module    *)
(* has constants and operators only; CertSync supplies the state.           *)
(*                                                                         *)
(* A certificate is abstracted to what the decision can tell apart: the     *)
(* leaf (whose SHA-1 thumbprint identifies it) and the issuing chain (whose *)
(* SHA-256 digest, taken over leaf and chain, is stamped as a vault tag).   *)
(* Both digests are taken to be injective.                                  *)
(***************************************************************************)
EXTENDS Integers

CONSTANTS
  Leaves,     \* leaf certificates a Secret can carry
  Chains,     \* issuing chains a Secret can carry beside a leaf
  Names,      \* Key Vault object names
  None,       \* the empty string, nil pointer or missing tag of the code
  NotBefore,  \* [Leaves -> Nat], start of each leaf's validity
  NotAfter,   \* [Leaves -> Nat], its last valid instant
  Anonymous,  \* leaves without a DNS subject alternative name
  DerivedName \* [Leaves -> Names \cup {None}], the name its SANs derive

ASSUME NoneAssumption == None \notin Names \cup Leaves \cup Chains
ASSUME ValidityAssumption ==
  /\ NotBefore \in [Leaves -> Nat]
  /\ NotAfter \in [Leaves -> Nat]
ASSUME DerivedNameAssumption ==
  /\ DerivedName \in [Leaves -> Names \cup {None}]
  /\ Anonymous \subseteq Leaves /\ \A l \in Anonymous : DerivedName[l] = None

\* domain.Bundle: the leaf, its chain, and the private key nothing depends on.
Bundle == [leaf : Leaves, chain : Chains]
ASSUME NoBundleAssumption == None \notin Bundle

\* What a kubernetes.io/tls Secret holds, as ParseBundle classifies it:
\* "defective" fails with one of the domain's sentinel errors, "unreadable"
\* (wrong type, a missing key, DER that does not parse) with a plain error.
Secret == [state : {"absent", "defective", "unreadable", "bundle"},
           bundle : Bundle \cup {None}]
AbsentSecret == [state |-> "absent", bundle |-> None]

\* A Key Vault certificate: the leaf, the chain-digest tag (a digest is
\* represented by the bundle it was taken over) and its current version.
VaultObject == [exists : BOOLEAN, leaf : Leaves \cup {None},
                digest : Bundle \cup {None}, enabled : BOOLEAN, version : Nat]
EmptyVaultObject ==
  [exists |-> FALSE, leaf |-> None, digest |-> None, enabled |-> FALSE, version |-> 0]

\* The name a bundle is imported under: the one the spec gives, or the one
\* derived from the certificate's subject alternative names.
TargetName(specName, bundle) ==
  IF specName # None THEN specName ELSE DerivedName[bundle.leaf]

\* Bundle.Validate: the condition reason of its error, or "Valid".
Validate(bundle, now) ==
  IF now > NotAfter[bundle.leaf] \/ now < NotBefore[bundle.leaf]
    THEN "CertificateExpired"
  ELSE IF bundle.leaf \in Anonymous
    THEN "SourceInvalid"
  ELSE "Valid"

\* The vault holds this very certificate: leaf thumbprint and chain digest.
Mirrors(object, bundle) ==
  /\ object.exists
  /\ object.leaf = bundle.leaf
  /\ object.digest = bundle

\* A fault: a disabled certificate is repaired by importing it again.
DecideAction_Repairs(bundle, snap) ==
  IF ~Mirrors(snap, bundle) \/ ~snap.enabled THEN "Import" ELSE "None"

\* Decide, once the bundle is valid: "Import" or "None".
DecideAction(bundle, snap) ==
  IF ~snap.exists \/ snap.leaf # bundle.leaf \/ snap.digest # bundle
    THEN "Import" ELSE "None"

\* Decide's WarningReason: the disabled warning overrides the expiry one.
DecideWarning(bundle, snap) ==
  IF snap.exists /\ ~snap.enabled
    THEN "DisabledInVault"
  ELSE IF snap.exists /\ NotAfter[bundle.leaf] < NotAfter[snap.leaf]
    THEN "ExpiryRegression"
  ELSE "NoWarning"

\* A fault: the import forgets the chain-digest tag.
ImportedObject_Untagged(object, bundle) ==
  [exists |-> TRUE, leaf |-> bundle.leaf, digest |-> None,
   enabled |-> TRUE, version |-> object.version + 1]

\* The object an import leaves behind: a new, enabled version with our tag.
ImportedObject(object, bundle) ==
  [exists |-> TRUE, leaf |-> bundle.leaf, digest |-> bundle,
   enabled |-> TRUE, version |-> object.version + 1]

\* A fault: every error is left to the resync.
Retryable_Never(reason) == FALSE

\* classify: the reasons whose error is returned to the queue for a backoff.
Retryable(reason) == reason = "VaultError"

============================================================================
