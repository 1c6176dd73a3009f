------------------------- MODULE VaultTargetProofs -------------------------
(***************************************************************************)
(* Theorems about VaultTarget, for every set of labels, every spec users    *)
(* write and every value of the flags.                                      *)
(***************************************************************************)
EXTENDS VaultTarget, TLAPS

-----------------------------------------------------------------------------
(***************************************************************************)
(* The resolver                                                            *)
(***************************************************************************)
\* One slash less is still a URL of the same vault.
LEMMA TrimmedUrl ==
  ASSUME NEW url \in Url
  PROVE  /\ TrimSlash(url) \in Url
         /\ TrimSlash(url).https = url.https /\ TrimSlash(url).label = url.label
         /\ TrimSlash(url).suffix = url.suffix /\ TrimSlash(url).port = url.port
         /\ TrimSlash(url).capitals = url.capitals
         /\ TrimSlash(url).slashes = IF url.slashes = 0 THEN 0 ELSE url.slashes - 1
BY DEF TrimSlash, Url

\* Every cloud has a suffix, and it is one a vault's host may end in.
LEMMA SuffixKnown ==
  ASSUME NEW c \in KnownClouds
  PROVE  VaultSuffix[c] \in VaultHostSuffixes
BY DEF KnownClouds, VaultSuffix, VaultHostSuffixes, CloudPublic

\* What VaultURL resolves is an https URL of a Key Vault host.
LEMMA ResolvedUrl ==
  ASSUME NEW entry \in Entry, NEW c \in KnownClouds, VaultURL(entry, c) # None
  PROVE  /\ VaultURL(entry, c) \in Url
         /\ VaultURL(entry, c).https /\ IsVaultHost(VaultURL(entry, c))
<1>1. CASE entry.url # None
  <2>1. entry.url \in Url
    BY <1>1 DEF Entry
  <2>2. VaultURL(entry, c) = TrimSlash(entry.url) /\ entry.url.https /\ IsVaultHost(entry.url)
    BY <1>1 DEF VaultURL
  <2> QED
    BY <2>1, <2>2, TrimmedUrl DEF IsVaultHost
<1>2. CASE entry.url = None
  <2>1. entry.name \notin Malformed
    BY <1>2 DEF VaultURL
  <2>2. entry.name \in Labels
    BY <1>2, NoneAssumption DEF Entry
  <2>3. VaultURL(entry, c) =
          [https |-> TRUE, label |-> entry.name, suffix |-> VaultSuffix[c],
           capitals |-> FALSE, port |-> FALSE, slashes |-> 0]
    BY <1>2, <2>1 DEF VaultURL
  <2> QED
    BY <2>1, <2>2, <2>3, LabelsAssumption, SuffixKnown DEF Url, IsVaultHost
<1> QED
  BY <1>1, <1>2

\* The cloud a running operator resolves a resource against is a known one.
LEMMA CloudOfSpec ==
  ASSUME NEW spec \in Specs, NEW c \in KnownClouds
  PROVE  VaultCloud(spec, c) \in KnownClouds /\ spec.entry \in Entry
<1>1. spec \in KeyVaultSpec
  BY SpecsAssumption
<1> QED
  BY <1>1 DEF KeyVaultSpec, VaultCloud

\* A verdict of Valid is about a URL, and one the list permits.
LEMMA ValidTarget ==
  ASSUME NEW spec \in Specs, cloud \in KnownClouds, Verdict(spec) = "Valid"
  PROVE  /\ Target(spec) \in Url /\ Target(spec) # None
         /\ Target(spec).https /\ IsVaultHost(Target(spec))
         /\ Permits(allowed, Target(spec))
<1>1. Target(spec) # None /\ Permits(allowed, Target(spec))
  BY DEF Verdict, Target
<1> QED
  BY <1>1, CloudOfSpec, ResolvedUrl DEF Target

LEMMA VerdictType ==
  ASSUME NEW spec PROVE Verdict(spec) \in Reason
BY DEF Verdict, Reason

\* URLs that compare equal have their label and suffix in common.
LEMMA NormalisedKeeps ==
  ASSUME NEW url \in Url
  PROVE  Normalised(url).label = url.label /\ Normalised(url).suffix = url.suffix
<1>1. TrimSlash(url) \in Url
  BY TrimmedUrl
<1>2. /\ Normalised(url).label = TrimSlash(url).label
      /\ Normalised(url).suffix = TrimSlash(url).suffix
  BY <1>1 DEF Normalised, Url
<1> QED
  BY <1>2, TrimmedUrl

-----------------------------------------------------------------------------
(***************************************************************************)
(* The types, and the allowlist that is the flag's                          *)
(***************************************************************************)
\* The allowlist of a running operator is what its flags say, and a resource
\* that is due exists.
FlagsInv ==
  /\ running => allowed = ParseAllowedVaults(flag, cloud)
  /\ \A e \in flag : e \in Entry
  /\ "sync" \in due => generated # None

LEMMA TypeInit == Init => TypeOK /\ FlagsInv
<1> SUFFICES ASSUME Init PROVE TypeOK /\ FlagsInv
  OBVIOUS
<1>1. CloudPublic \in KnownClouds /\ CloudPublic # None
  BY NoneAssumption DEF KnownClouds, VaultSuffix, CloudPublic
<1>2. TypeOK
  BY <1>1 DEF Init, TypeOK, Reason
<1>3. ParseAllowedVaults({}, CloudPublic) = {}
  BY DEF ParseAllowedVaults
<1> QED
  BY <1>2, <1>3 DEF Init, FlagsInv

LEMMA TypeRestart ==
  ASSUME TypeOK, NEW c \in CloudFlags, NEW vaults \in VaultFlags, Restart(c, vaults)
  PROVE  TypeOK' /\ FlagsInv'
<1>1. \A e \in vaults : e \in Entry
  BY FlagsAssumption
<1>2. cloud' \in KnownClouds \cup {None}
  BY DEF Restart, Configured, ParseCloud, KnownClouds, VaultSuffix
<1>3. \A url \in allowed' : url \in Url \cup {None}
  <2>1. CASE cloud' = None
    BY <2>1 DEF Restart, Configured
  <2>2. CASE cloud' # None
    BY <1>1, <1>2, <2>2, ResolvedUrl DEF Restart, Configured, ParseAllowedVaults
  <2> QED
    BY <2>1, <2>2
<1>4. TypeOK'
  BY <1>2, <1>3 DEF TypeOK, Restart, Configured
<1> QED
  BY <1>1, <1>4 DEF FlagsInv, Restart, Configured

LEMMA TypePass ==
  ASSUME TypeOK, FlagsInv, PlanPolicy \/ Sync
  PROVE  TypeOK' /\ FlagsInv'
<1>1. cloud \in KnownClouds /\ cloud # None
  BY DEF TypeOK, PlanPolicy, Sync
<1>2. \A spec : Verdict(spec) \in Reason
  BY VerdictType
<1>3. \A spec \in Specs : Verdict(spec) = "Valid"
        => Target(spec) \in Url /\ SecretIdentifier(Target(spec)) \in Url
  BY <1>1, ValidTarget, TrimmedUrl DEF SecretIdentifier
<1>4. CASE PlanPolicy
  <2>1. policy \in Specs /\ policy # None
    BY SpecsAssumption DEF TypeOK
  <2>2. generated' \in Specs \cup {None} /\ ("sync" \in due' => generated' # None)
    BY <1>4, <2>1 DEF PlanPolicy, Generated, TypeOK, FlagsInv
  <2>3. identifier' \in [policy : Url \cup {None}, sync : Url \cup {None}]
    BY <1>3, <1>4, <2>1 DEF PlanPolicy, TypeOK
  <2>4. ready' \in [policy : Reason, sync : Reason] /\ due' \subseteq {"policy", "sync"}
    BY <1>2, <1>4 DEF PlanPolicy, TypeOK
  <2>5. UNCHANGED <<running, cloud, flag, allowed, clients, policy>>
    BY <1>4 DEF PlanPolicy
  <2> QED
    BY <2>2, <2>3, <2>4, <2>5 DEF TypeOK, FlagsInv
<1>5. CASE Sync
  <2>1. generated \in Specs
    BY <1>5 DEF Sync, TypeOK, FlagsInv
  <2>2. identifier' \in [policy : Url \cup {None}, sync : Url \cup {None}]
    BY <1>3, <1>5, <2>1 DEF Sync, TypeOK
  <2>3. ready' \in [policy : Reason, sync : Reason] /\ due' \subseteq due
    BY <1>2, <1>5 DEF Sync, TypeOK
  <2>4. \A url \in clients' : url \in Url
    BY <1>3, <1>5, <2>1 DEF Sync, TypeOK
  <2>5. UNCHANGED <<running, cloud, flag, allowed, policy, generated>>
    BY <1>5 DEF Sync
  <2> QED
    BY <2>2, <2>3, <2>4, <2>5 DEF TypeOK, FlagsInv
<1> QED
  BY <1>4, <1>5

LEMMA TypeNext == TypeOK /\ FlagsInv /\ [Next]_vars => TypeOK' /\ FlagsInv'
<1> SUFFICES ASSUME TypeOK, FlagsInv, [Next]_vars PROVE TypeOK' /\ FlagsInv'
  OBVIOUS
<1>1. CASE \E c \in CloudFlags, vaults \in VaultFlags : Restart(c, vaults)
  BY <1>1, TypeRestart
<1>2. CASE PlanPolicy \/ Sync
  BY <1>2, TypePass
<1>3. CASE \E spec \in Specs : EditPolicy(spec) \/ EditSync(spec)
  <2>1. PICK spec \in Specs : EditPolicy(spec) \/ EditSync(spec)
    BY <1>3
  <2>2. UNCHANGED <<running, cloud, flag, allowed, clients, ready, identifier>>
    BY <2>1 DEF EditPolicy, EditSync
  <2>3. /\ policy' \in Specs /\ generated' \in Specs \cup {None}
        /\ due' \subseteq {"policy", "sync"} /\ ("sync" \in due' => generated' # None)
    <3>1. CASE EditPolicy(spec)
      BY <3>1 DEF EditPolicy, TypeOK, FlagsInv
    <3>2. CASE EditSync(spec)
      BY <3>2, SpecsAssumption DEF EditSync, TypeOK
    <3> QED
      BY <2>1, <3>1, <3>2
  <2> QED
    BY <2>2, <2>3 DEF TypeOK, FlagsInv
<1>4. CASE UNCHANGED vars
  BY <1>4 DEF vars, TypeOK, FlagsInv
<1> QED
  BY <1>1, <1>2, <1>3, <1>4 DEF Next

\* TypeOK: in particular an operator that runs has resolved every entry.
THEOREM TypeCorrect == Spec => []TypeOK
<1>1. TypeOK /\ FlagsInv /\ [Next]_vars => (TypeOK /\ FlagsInv)'
  BY TypeNext
<1> QED
  BY TypeInit, <1>1, PTL DEF Spec

-----------------------------------------------------------------------------
(***************************************************************************)
(* The clients                                                             *)
(***************************************************************************)
\* A URL that is permitted under the flag is one an entry of the flag names.
LEMMA PermittedNamed ==
  ASSUME TypeOK, FlagsInv, running, NEW url \in Url, Permits(allowed, url), flag # {}
  PROVE  \E e \in flag :
           /\ VaultURL(e, cloud).label = url.label
           /\ VaultURL(e, cloud).suffix = url.suffix
<1>1. allowed = {VaultURL(e, cloud) : e \in flag}
  BY DEF FlagsInv, ParseAllowedVaults
<1>2. allowed # {}
  BY <1>1
<1>3. PICK entry \in allowed : Normalised(entry) = Normalised(url)
  BY <1>2 DEF Permits
<1>4. entry \in Url
  BY <1>3 DEF TypeOK
<1>5. entry.label = url.label /\ entry.suffix = url.suffix
  BY <1>3, <1>4, NormalisedKeeps
<1> QED
  BY <1>1, <1>3, <1>5

LEMMA ClientsNext ==
  ASSUME TypeOK, FlagsInv, ClientsPermitted, [Next]_vars
  PROVE  ClientsPermitted'
<1>1. CASE \E c \in CloudFlags, vaults \in VaultFlags : Restart(c, vaults)
  BY <1>1 DEF Restart, ClientsPermitted
<1>2. CASE Sync
  <2>1. CASE Verdict(generated) = "Valid"
    <3>1. running /\ generated \in Specs /\ cloud \in KnownClouds
      BY <1>2 DEF Sync, TypeOK, FlagsInv
    <3>2. /\ clients' = clients \cup {Target(generated)}
          /\ flag' = flag /\ cloud' = cloud
      BY <1>2, <2>1 DEF Sync
    <3>3. /\ Target(generated) \in Url /\ Target(generated).https
          /\ IsVaultHost(Target(generated)) /\ Permits(allowed, Target(generated))
      BY <2>1, <3>1, ValidTarget
    <3>4. flag # {} => \E e \in flag :
            /\ VaultURL(e, cloud).label = Target(generated).label
            /\ VaultURL(e, cloud).suffix = Target(generated).suffix
      BY <3>1, <3>3, PermittedNamed
    <3> QED
      BY <3>2, <3>3, <3>4 DEF ClientsPermitted
  <2>2. CASE Verdict(generated) # "Valid"
    BY <1>2, <2>2 DEF Sync, ClientsPermitted
  <2> QED
    BY <2>1, <2>2
<1>3. CASE UNCHANGED <<clients, flag, cloud>>
  BY <1>3 DEF ClientsPermitted
<1>4. PlanPolicy \/ (\E spec \in Specs : EditPolicy(spec) \/ EditSync(spec))
        \/ UNCHANGED vars => UNCHANGED <<clients, flag, cloud>>
  BY DEF PlanPolicy, EditPolicy, EditSync, vars
<1> QED
  BY <1>1, <1>2, <1>3, <1>4 DEF Next

\* ClientsPermitted: the Key Vault adapter never has a client for a host that
\* is no Key Vault, nor for a vault that no entry of --allowed-vaults names.
THEOREM ConnectsOnlyToNamed == Spec => []ClientsPermitted
<1>1. Init => ClientsPermitted
  BY DEF Init, ClientsPermitted
<1>2. (TypeOK /\ FlagsInv /\ ClientsPermitted) /\ [Next]_vars
        => (TypeOK /\ FlagsInv /\ ClientsPermitted)'
  BY TypeNext, ClientsNext
<1> QED
  BY TypeInit, <1>1, <1>2, PTL DEF Spec

-----------------------------------------------------------------------------
(***************************************************************************)
(* The verdicts                                                            *)
(***************************************************************************)
\* EntriesUsable: an entry compares equal to what it resolves to.
THEOREM NoDeadEntries == Spec => []EntriesUsable
<1>1. TypeOK /\ FlagsInv => EntriesUsable
  <2>1. SUFFICES ASSUME TypeOK, FlagsInv, running, NEW e \in flag
                 PROVE  Verdict([entry |-> e, cloud |-> None]) = "Valid"
    BY DEF EntriesUsable
  <2>2. VaultURL(e, cloud) \in allowed /\ VaultURL(e, cloud) # None
    BY <2>1 DEF TypeOK, FlagsInv, ParseAllowedVaults
  <2>3. Permits(allowed, VaultURL(e, cloud))
    BY <2>2 DEF Permits
  <2>4. VaultCloud([entry |-> e, cloud |-> None], cloud) = cloud
    BY DEF VaultCloud
  <2> QED
    BY <2>2, <2>3, <2>4 DEF Verdict
<1>2. (TypeOK /\ FlagsInv) /\ [Next]_vars => (TypeOK /\ FlagsInv)'
  BY TypeNext
<1> QED
  BY TypeInit, <1>1, <1>2, PTL DEF Spec

\* Trimmed URLs of one vault compare equal.
LEMMA SameNormalised ==
  ASSUME NEW url \in Url, NEW other \in Url, Trimmed(url), Trimmed(other),
         SameVault(url, other), url.https, other.https
  PROVE  Normalised(url) = Normalised(other)
<1>1. /\ TrimSlash(url) \in Url /\ TrimSlash(other) \in Url
      /\ TrimSlash(url).slashes = 0 /\ TrimSlash(other).slashes = 0
  BY TrimmedUrl DEF Trimmed, Url
<1>2. /\ TrimSlash(url).https = TrimSlash(other).https
      /\ TrimSlash(url).label = TrimSlash(other).label
      /\ TrimSlash(url).suffix = TrimSlash(other).suffix
      /\ TrimSlash(url).port = TrimSlash(other).port
  BY TrimmedUrl DEF Trimmed, SameVault, Url
<1> QED
  BY <1>1, <1>2 DEF Normalised, Url

\* SameVaultSameVerdict: how a vault is written decides nothing.
THEOREM OneVaultOneVerdict == Spec => []SameVaultSameVerdict
<1>1. TypeOK /\ FlagsInv => SameVaultSameVerdict
  <2>1. SUFFICES ASSUME TypeOK, FlagsInv, running, NEW s \in Specs, NEW t \in Specs,
                        Trimmed(Target(s)), Trimmed(Target(t)),
                        SameVault(Target(s), Target(t))
                 PROVE  Verdict(s) = Verdict(t)
    BY DEF SameVaultSameVerdict
  <2>2. cloud \in KnownClouds
    BY <2>1 DEF TypeOK
  <2>3. /\ Target(s) # None /\ Target(s) \in Url /\ Target(s).https
        /\ Target(t) # None /\ Target(t) \in Url /\ Target(t).https
    BY <2>1, <2>2, CloudOfSpec, ResolvedUrl DEF Target, Trimmed
  <2>4. Normalised(Target(s)) = Normalised(Target(t))
    BY <2>1, <2>3, SameNormalised
  <2>5. Permits(allowed, Target(s)) <=> Permits(allowed, Target(t))
    BY <2>4 DEF Permits
  <2> QED
    BY <2>3, <2>5 DEF Verdict, Target
<1>2. (TypeOK /\ FlagsInv) /\ [Next]_vars => (TypeOK /\ FlagsInv)'
  BY TypeNext
<1> QED
  BY TypeInit, <1>1, <1>2, PTL DEF Spec

-----------------------------------------------------------------------------
(***************************************************************************)
(* The statuses                                                            *)
(***************************************************************************)
\* A controller whose pass is not due has reported what the flags the
\* operator runs with say of the resource as it is, and has brought the
\* resource it generates and the identifiers in line with that.
StatusInv ==
  running =>
    /\ "policy" \notin due =>
         /\ ready.policy = Verdict(policy)
         /\ Verdict(policy) = "Valid" =>
              /\ generated = policy
              /\ identifier.policy = SecretIdentifier(Target(policy))
    /\ "sync" \notin due /\ generated # None =>
         /\ ready.sync = Verdict(generated)
         /\ Verdict(generated) = "Valid" =>
              identifier.sync = SecretIdentifier(Target(generated))

\* A verdict depends on nothing but the flags and the resource.
LEMMA VerdictKept ==
  ASSUME UNCHANGED <<cloud, allowed>>
  PROVE  /\ policy' = policy => Verdict(policy)' = Verdict(policy)
                              /\ Target(policy)' = Target(policy)
         /\ generated' = generated => Verdict(generated)' = Verdict(generated)
                                    /\ Target(generated)' = Target(generated)
         /\ generated' = policy => Verdict(generated)' = Verdict(policy)
BY DEF Verdict, Target, Permits

LEMMA StatusPlan ==
  ASSUME TypeOK, StatusInv, PlanPolicy
  PROVE  StatusInv'
<1>1. running /\ UNCHANGED <<running, cloud, allowed, policy>>
  BY DEF PlanPolicy
<1>2. Verdict(policy)' = Verdict(policy) /\ Target(policy)' = Target(policy)
  BY <1>1, VerdictKept
<1>3. ready'.policy = Verdict(policy) /\ ready'.sync = ready.sync
  BY DEF PlanPolicy, TypeOK
<1>4. Verdict(policy) = "Valid" =>
        /\ generated' = policy
        /\ identifier'.policy = SecretIdentifier(Target(policy))
        /\ identifier'.sync = identifier.sync
  BY DEF PlanPolicy, Generated, TypeOK
<1>5. "sync" \notin due' => generated' = generated /\ "sync" \notin due
  BY DEF PlanPolicy
<1>6. generated' = generated =>
        Verdict(generated)' = Verdict(generated) /\ Target(generated)' = Target(generated)
  BY <1>1, VerdictKept
<1>7. Verdict(policy) # "Valid" => identifier' = identifier
  BY DEF PlanPolicy
<1> QED
  BY <1>1, <1>2, <1>3, <1>4, <1>5, <1>6, <1>7 DEF StatusInv

LEMMA StatusSync ==
  ASSUME TypeOK, StatusInv, Sync
  PROVE  StatusInv'
<1>1. running /\ UNCHANGED <<running, cloud, allowed, policy, generated>>
  BY DEF Sync
<1>2. /\ Verdict(policy)' = Verdict(policy) /\ Target(policy)' = Target(policy)
      /\ Verdict(generated)' = Verdict(generated) /\ Target(generated)' = Target(generated)
  BY <1>1, VerdictKept
<1>3. /\ ready'.sync = Verdict(generated) /\ ready'.policy = ready.policy
      /\ "policy" \in due' <=> "policy" \in due
  BY DEF Sync, TypeOK
<1>4. /\ Verdict(generated) = "Valid" =>
           identifier'.sync = SecretIdentifier(Target(generated))
      /\ identifier'.policy = identifier.policy
  BY DEF Sync, TypeOK
<1> QED
  BY <1>1, <1>2, <1>3, <1>4 DEF StatusInv

LEMMA StatusEdit ==
  ASSUME StatusInv, NEW spec \in Specs, EditPolicy(spec) \/ EditSync(spec)
  PROVE  StatusInv'
<1>1. CASE EditPolicy(spec)
  <2>1. /\ UNCHANGED <<running, cloud, allowed, generated, ready, identifier>>
        /\ "policy" \in due' /\ ("sync" \in due' <=> "sync" \in due)
    BY <1>1 DEF EditPolicy
  <2>2. Verdict(generated)' = Verdict(generated) /\ Target(generated)' = Target(generated)
    BY <2>1, VerdictKept
  <2> QED
    BY <2>1, <2>2 DEF StatusInv
<1>2. CASE EditSync(spec)
  BY <1>2 DEF EditSync, StatusInv
<1> QED
  BY <1>1, <1>2

LEMMA StatusNext == TypeOK /\ StatusInv /\ [Next]_vars => StatusInv'
<1> SUFFICES ASSUME TypeOK, StatusInv, [Next]_vars PROVE StatusInv'
  OBVIOUS
<1>1. CASE \E c \in CloudFlags, vaults \in VaultFlags : Restart(c, vaults)
  BY <1>1 DEF Restart, StatusInv
<1>2. CASE UNCHANGED vars
  <2>1. UNCHANGED <<running, cloud, allowed, policy, generated, due, ready, identifier>>
    BY <1>2 DEF vars
  <2>2. /\ Verdict(policy)' = Verdict(policy) /\ Target(policy)' = Target(policy)
        /\ Verdict(generated)' = Verdict(generated) /\ Target(generated)' = Target(generated)
    BY <2>1, VerdictKept
  <2> QED
    BY <2>1, <2>2 DEF StatusInv
<1> QED
  BY <1>1, <1>2, StatusPlan, StatusSync, StatusEdit DEF Next

\* StatusesAgree: when both passes are done, both statuses are the verdict of
\* the flags of today, and the identifier of a policy that is permitted is the
\* one its generated resource reports.
THEOREM StatusesInStep == Spec => []StatusesAgree
<1>1. Init => StatusInv
  BY DEF Init, StatusInv
<1>2. TypeOK /\ StatusInv => StatusesAgree
  <2>1. SUFFICES ASSUME TypeOK, StatusInv, running, due = {} PROVE StatusesAgree
    BY DEF StatusesAgree
  <2>2. policy \in Specs /\ policy # None
    BY <2>1, SpecsAssumption DEF TypeOK
  <2> QED
    BY <2>1, <2>2 DEF StatusInv, StatusesAgree
<1>3. (TypeOK /\ FlagsInv /\ StatusInv) /\ [Next]_vars => (TypeOK /\ FlagsInv /\ StatusInv)'
  BY TypeNext, StatusNext
<1> QED
  BY TypeInit, <1>1, <1>2, <1>3, PTL DEF Spec

=============================================================================
