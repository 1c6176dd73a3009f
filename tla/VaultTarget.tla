---------------------------- MODULE VaultTarget ----------------------------
(***************************************************************************)
(* Which Key Vault a resource means, and whether the operator may write to  *)
(* it: internal/infra/azure/vaulturl.go, internal/domain/vault.go, the      *)
(* flags of cmd/manager/main.go and the checks both controllers open their  *)
(* passes with.                                                             *)
(*                                                                         *)
(* CertSync and WildcardPolicy take the outcome as given (their sound); here *)
(* it is computed, from what a user writes and what the operator was        *)
(* started with, through edits and restarts with other flags.  A policy,    *)
(* the resource it generates and the clients of the Key Vault adapter share *)
(* the resolver, and have to agree on what it says.                         *)
(***************************************************************************)
EXTENDS Integers

CONSTANTS
  Labels,     \* what can stand before the DNS suffix of a vault
  Malformed,  \* the labels validateVaultName refuses as a name
  None,       \* the empty string
  Specs,      \* the spec.keyVault users write, a subset of KeyVaultSpec
  CloudFlags, \* the values of --azure-cloud
  VaultFlags  \* the values of --allowed-vaults, each a set of entries

CloudPublic == "AzurePublicCloud"

\* vaultSuffixes: what a bare name is completed with.
VaultSuffix == [cloud \in {CloudPublic, "AzureUSGovernmentCloud", "AzureChinaCloud"} |->
                  CASE cloud = CloudPublic -> "vault.azure.net"
                    [] cloud = "AzureUSGovernmentCloud" -> "vault.usgovcloudapi.net"
                    [] OTHER -> "vault.azure.cn"]
KnownClouds == DOMAIN VaultSuffix

\* vaultHostSuffixes: what the host of a URL may end in.
VaultHostSuffixes ==
  {"vault.azure.net", "vaultcore.azure.net", "vault.usgovcloudapi.net",
   "vaultcore.usgovcloudapi.net", "vault.azure.cn", "vaultcore.azure.cn"}

\* A URL: the scheme, the host as a label (None: the bare suffix) and a
\* suffix, in capitals or not, a port or a path, and the slashes it ends in.
Url == [https : BOOLEAN, label : Labels \cup {None},
        suffix : VaultHostSuffixes \cup {"elsewhere"}, capitals : BOOLEAN,
        port : BOOLEAN, slashes : Nat]

\* spec.keyVault, and an entry of the allowlist: exactly one of name and URL.
Entry == [name : Labels, url : {None}] \cup [name : {None}, url : Url]
KeyVaultSpec == [entry : Entry, cloud : KnownClouds \cup {None}]

ASSUME LabelsAssumption == Malformed \subseteq Labels /\ None \notin Labels
ASSUME SpecsAssumption == None \notin Specs /\ \A s \in Specs : s \in KeyVaultSpec
ASSUME FlagsAssumption == \A vaults \in VaultFlags : \A e \in vaults : e \in Entry
ASSUME NoneAssumption == None \notin KnownClouds /\ None \notin Url

VARIABLES
  running,    \* the operator got past its flags
  cloud,      \* --azure-cloud as parsed
  flag,       \* --allowed-vaults as given
  allowed,    \* the VaultAllowlist made of it
  clients,    \* Repository.clients: a client for each URL used so far
  policy,     \* keyVault of a WildcardCertificatePolicy
  generated,  \* keyVault of the resource it generated, None before that
  due,        \* the passes that are due, of "policy" and "sync"
  ready,      \* their Ready reasons
  identifier  \* the URL of the secret identifiers in their statuses

vars == <<running, cloud, flag, allowed, clients, policy, generated, due, ready,
          identifier>>

-----------------------------------------------------------------------------
(***************************************************************************)
(* The resolver                                                            *)
(***************************************************************************)
\* ParseCloud: None, or an unknown value, is an error.
ParseCloud(value) ==
  IF value = None THEN CloudPublic ELSE IF value \in KnownClouds THEN value ELSE None

\* strings.TrimSuffix(url, "/") removes one slash.
TrimSlash(url) == [url EXCEPT !.slashes = IF @ = 0 THEN 0 ELSE @ - 1]

\* isVaultHost: some label, a dot and a suffix.
IsVaultHost(url) == url.label # None /\ url.suffix \in VaultHostSuffixes

\* A fault: any https host is a vault.
VaultURL_AnyHost(entry, c) ==
  IF entry.url # None
    THEN IF entry.url.https THEN TrimSlash(entry.url) ELSE None
    ELSE IF entry.name \in Malformed THEN None
    ELSE [https |-> TRUE, label |-> entry.name, suffix |-> VaultSuffix[c],
          capitals |-> FALSE, port |-> FALSE, slashes |-> 0]

\* VaultURL: the base URL of a vault, None for an error.  A URL names its
\* cloud itself; a name is completed with the suffix of c.
VaultURL(entry, c) ==
  IF entry.url # None
    THEN IF entry.url.https /\ IsVaultHost(entry.url) THEN TrimSlash(entry.url) ELSE None
    ELSE IF entry.name \in Malformed THEN None
    ELSE [https |-> TRUE, label |-> entry.name, suffix |-> VaultSuffix[c],
          capitals |-> FALSE, port |-> FALSE, slashes |-> 0]

\* vaultCloud: the resource's own cloud, or else the operator's.
VaultCloud(spec, fallback) == IF spec.cloud # None THEN spec.cloud ELSE fallback

\* normaliseVaultURL: neither case nor one trailing slash matters.
Normalised(url) == [TrimSlash(url) EXCEPT !.capitals = FALSE]

\* A fault: the comparison is of the strings as they are.
Permits_Exactly(list, url) == list = {} \/ url \in list

\* VaultAllowlist.Permits
Permits(list, url) == list = {} \/ \E entry \in list : Normalised(entry) = Normalised(url)

\* A fault: the entries are resolved against the public cloud.
ParseAllowedVaults_Public(entries, c) == {VaultURL(e, CloudPublic) : e \in entries}

\* parseAllowedVaults: one entry that is no vault (None) stops the operator.
ParseAllowedVaults(entries, c) == {VaultURL(e, c) : e \in entries}

\* What both controllers check before anything else, plan and sync alike.
Verdict(spec) ==
  LET url == VaultURL(spec.entry, VaultCloud(spec, cloud))
  IN IF url = None THEN "ErrInvalidVaultName"
     ELSE IF ~Permits(allowed, url) THEN "ErrVaultNotAllowed"
     ELSE "Valid"

Target(spec) == VaultURL(spec.entry, VaultCloud(spec, cloud))

\* VaultRef.SecretIdentifier, up to the name it appends.
SecretIdentifier(url) == TrimSlash(url)

-----------------------------------------------------------------------------
(***************************************************************************)
(* The operator                                                            *)
(***************************************************************************)
\* A fault: an entry that does not resolve is not an error.
Configured_KeepsGoing(cloudFlag, vaults) ==
  /\ cloud' = ParseCloud(cloudFlag)
  /\ flag' = vaults
  /\ allowed' = IF cloud' = None THEN {} ELSE ParseAllowedVaults(vaults, cloud')
  /\ running' = (cloud' # None)

\* What run makes of the flags.
Configured(cloudFlag, vaults) ==
  /\ cloud' = ParseCloud(cloudFlag)
  /\ flag' = vaults
  /\ allowed' = IF cloud' = None THEN {} ELSE ParseAllowedVaults(vaults, cloud')
  /\ running' = (cloud' # None /\ None \notin allowed')

\* The operator stops and starts again with these flags: it has no clients,
\* and the informers enqueue every resource there is.
Restart(cloudFlag, vaults) ==
  /\ Configured(cloudFlag, vaults)
  /\ clients' = {}
  /\ due' = {"policy"} \cup (IF generated = None THEN {} ELSE {"sync"})
  /\ UNCHANGED <<policy, generated, ready, identifier>>

\* A fault: the generated resource is left without the policy's cloud.
Generated_WithoutCloud == [policy EXCEPT !.cloud = None]

\* ensureSync: the generated resource gets the policy's keyVault whole.
Generated == policy

\* The policy controller: plan, and where it permits, ensureSync and the
\* status.  A refusal is reported and leaves everything as it was.
PlanPolicy ==
  /\ running /\ "policy" \in due
  /\ ready' = [ready EXCEPT !.policy = Verdict(policy)]
  /\ IF Verdict(policy) = "Valid"
       THEN /\ generated' = Generated
            /\ identifier' = [identifier EXCEPT !.policy = SecretIdentifier(Target(policy))]
            /\ due' = IF generated' = generated THEN due \ {"policy"} ELSE {"policy", "sync"}
       ELSE /\ due' = due \ {"policy"}
            /\ UNCHANGED <<generated, identifier>>
  /\ UNCHANGED <<running, cloud, flag, allowed, clients, policy>>

\* A fault: the client is asked for before the allowlist is.
Sync_ConnectsFirst ==
  /\ running /\ "sync" \in due
  /\ due' = due \ {"sync"}
  /\ ready' = [ready EXCEPT !.sync = Verdict(generated)]
  /\ clients' = clients \cup ({Target(generated)} \ {None})
  /\ identifier' = IF Verdict(generated) = "Valid"
                     THEN [identifier EXCEPT !.sync = SecretIdentifier(Target(generated))]
                     ELSE identifier
  /\ UNCHANGED <<running, cloud, flag, allowed, policy, generated>>

\* The sync controller: clientFor makes a client for a new URL and keeps it.
Sync ==
  /\ running /\ "sync" \in due
  /\ due' = due \ {"sync"}
  /\ ready' = [ready EXCEPT !.sync = Verdict(generated)]
  /\ IF Verdict(generated) = "Valid"
       THEN /\ clients' = clients \cup {Target(generated)}
            /\ identifier' = [identifier EXCEPT !.sync = SecretIdentifier(Target(generated))]
       ELSE UNCHANGED <<clients, identifier>>
  /\ UNCHANGED <<running, cloud, flag, allowed, policy, generated>>

-----------------------------------------------------------------------------
EditPolicy(spec) ==
  /\ policy # spec /\ policy' = spec
  /\ due' = due \cup {"policy"}
  /\ UNCHANGED <<running, cloud, flag, allowed, clients, generated, ready, identifier>>

\* A user edits the generated resource; Owns wakes the policy as well.
EditSync(spec) ==
  /\ generated \notin {None, spec} /\ generated' = spec
  /\ due' = {"policy", "sync"}
  /\ UNCHANGED <<running, cloud, flag, allowed, clients, policy, ready, identifier>>

Init ==
  /\ policy \in Specs /\ generated = None
  /\ cloud = CloudPublic /\ flag = {} /\ allowed = {} /\ running = TRUE
  /\ clients = {} /\ due = {"policy"}
  /\ ready = [policy |-> "Unset", sync |-> "Unset"]
  /\ identifier = [policy |-> None, sync |-> None]

Next ==
  \/ \E c \in CloudFlags, vaults \in VaultFlags : Restart(c, vaults)
  \/ PlanPolicy \/ Sync
  \/ \E spec \in Specs : EditPolicy(spec) \/ EditSync(spec)

Spec == Init /\ [][Next]_vars

-----------------------------------------------------------------------------
(***************************************************************************)
(* Properties                                                              *)
(***************************************************************************)
Reason == {"Unset", "ErrInvalidVaultName", "ErrVaultNotAllowed", "Valid"}

\* Every variable keeps its type, and no entry of a running operator's
\* allowlist failed to resolve.
TypeOK ==
  /\ running \in BOOLEAN
  /\ cloud \in KnownClouds \cup {None} /\ \A url \in allowed : url \in Url \cup {None}
  /\ running => cloud # None /\ None \notin allowed
  /\ \A url \in clients : url \in Url
  /\ policy \in Specs /\ generated \in Specs \cup {None}
  /\ due \subseteq {"policy", "sync"}
  /\ ready \in [policy : Reason, sync : Reason]
  /\ identifier \in [policy : Url \cup {None}, sync : Url \cup {None}]

\* Whatever users write and whatever the operator was started with before,
\* it has only ever connected to Key Vault hosts, and under an allowlist only
\* to vaults some entry of the flag names.
ClientsPermitted ==
  \A url \in clients :
    /\ url.https /\ IsVaultHost(url)
    /\ flag = {} \/ \E e \in flag :
         LET named == VaultURL(e, cloud)
         IN named.label = url.label /\ named.suffix = url.suffix

\* Two ways to write one vault (a name or a URL, capitals or not, with or
\* without trailing slashes) get one verdict: "Names and full URLs are
\* equivalent".  Ports aside, which PortIgnored is about, and for the slashes
\* that are trimmed: one when the URL is resolved and one when it is compared.
SameVault(url, other) == url.label = other.label /\ url.suffix = other.suffix
Trimmed(url) == url # None /\ ~url.port /\ url.slashes <= 1
SameVaultSameVerdict ==
  running => \A s, t \in Specs :
    Trimmed(Target(s)) /\ Trimmed(Target(t)) /\ SameVault(Target(s), Target(t))
      => Verdict(s) = Verdict(t)

\* No entry is dead: a resource that leaves the cloud to the operator and
\* writes what an entry of the flag says is permitted.
EntriesUsable ==
  running => \A e \in flag : Verdict([entry |-> e, cloud |-> None]) = "Valid"

\* The statuses follow the flags: once no pass is due, both verdicts are
\* those of the flags the operator runs with now, and a policy that is
\* permitted lists the very string its resource reports, which is the one an
\* Application Gateway listener compares.
StatusesAgree ==
  running /\ due = {} =>
    /\ ready.policy = Verdict(policy)
    /\ generated # None => ready.sync = Verdict(generated)
    /\ ready.policy = "Valid" => ready.sync = "Valid" /\ identifier.policy = identifier.sync

-----------------------------------------------------------------------------
(***************************************************************************)
(* Claims of the comments that the code does not keep.                     *)
(***************************************************************************)
\* VaultURL's "result never has a trailing slash".
NoTrailingSlash == \A url \in clients : url.slashes = 0

\* "A port is not part of a vault's identity": the verdict ignores it.
PortIgnored ==
  running => \A s, t \in Specs :
    LET url == Target(s) other == Target(t)
    IN url # None /\ other # None /\ SameVault(url, other) => Verdict(s) = Verdict(t)

=============================================================================
