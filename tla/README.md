# A TLA+ development for keyvault_certOperator

`keyvault_certOperator` is a Kubernetes operator. It copies the TLS
certificates that cert-manager issues into Azure Key Vault, where Application
Gateway picks them up, and it plans wildcard certificates from the hostnames the
cluster routes. This directory specifies its control logic in TLA+, checks it on
small instances with TLC, and proves the main results for every value of the
constants with TLAPS. Paths below are relative to the repository (`src/`).

## 1. The system

Two controllers run in one process, each with one worker
(`MaxConcurrentReconciles` is left at 1). They do not call each other; they meet
at the API server: the policy controller creates the resources the sync
controller works on.

```
 Ingress / Gateway / HTTPRoute ──watch──▶ policy controller ──creates──▶ cert-manager Certificate
                                              │  creates                      │ issues
                                              ▼                               ▼
                              KeyVaultCertificateSync ──watch──▶ sync controller ◀──watch── TLS Secret
                                                                      │  Snapshot, Import
                                                                      ▼
                                                                Azure Key Vault
```

| Component | State | Operations | What is hard | What makes it correct |
|---|---|---|---|---|
| Sync controller (`internal/controller/certificatesync_controller.go`, `conditions.go`) | the resource's finalizer and status, the expiry metric, the work queue | Reconcile, sync, applyOutcome, finalize, syncsForSecret | stale informer copies, swallowed status conflicts, restarts between any two calls, events that arrive while a pass runs | acts only under the finalizer; statuses are true; no wake-up is lost; everything is settled in the end; deletion never waits for Azure |
| Syncer (`internal/app/syncer.go`) | none | Sync: load, derive the name, snapshot, decide, import | two Azure calls that are not atomic, lost answers | an import is sent only when it is needed |
| Decision, parsing (`internal/domain/decide.go`, `certificate.go`, `errors.go`) | none | Decide, Validate, ParseBundle | a disabled object that matches byte for byte, a chain that changes under the same leaf, files written by anybody | imports exactly what is not mirrored; the order of a file does not matter |
| Secret source (`internal/infra/kube/secretsource.go`) | the Secret informer | Load | absent, wrong type, missing keys, defective data | each failure gets the right reason and the right retry |
| Key Vault adapter (`internal/infra/azure/keyvault.go`) | clients by URL, behind a mutex | Snapshot, Import | outages, lost answers | absence is not an error |
| Vault URL, allowlist (`internal/infra/azure/vaulturl.go`, `internal/domain/vault.go`) | what the flags were at start-up | VaultURL, ParseCloud, Permits | one vault written in many ways; flags that change under resources that do not | one vault gets one verdict; clients only of permitted vaults; both controllers agree |
| Names (`internal/domain/name.go`) | none | DeriveVaultCertificateName, DisambiguateVaultName, PrimaryDNSName | the derivation is not injective, truncation | valid and stable names |
| Chain (`internal/domain/chain.go`) | none | orderChain | input in any order, foreign, cross-signed and re-keyed certificates | issuer order, nothing lost, no version minted for a reordering |
| Domain planner (`internal/domain/wildcard.go`, `internal/app/planner.go`) | none | BuildPlan: zones, required names, grouping, collisions, cap | nested zones, collisions, the cap | covers every host it does not report, stays in its zones, keeps what exists |
| Policy controller (`internal/controller/wildcardpolicy_controller.go`) | finalizer and status of the policy, Certificates and sync resources | Reconcile: adopt, list, plan, apply, handleOrphans, report | many writes in one pass, each from a cached copy; partial failure; pruning on a narrowed view | prunes only what it may; converges |
| Host discovery (`internal/infra/kube/hostsource.go`) | route and namespace informers | Hosts, allowedNamespaces | several Lists over informers not ordered with each other, labels that wake nobody, sources that were not there at start-up | sees what is routed; no change is lost; a host that is there all along keeps its certificate |
| Certificate writer (`internal/infra/kube/certmanager.go`) | none | Available, Ensure | a CRD that comes and goes | create or update |
| Manager (`cmd/manager/main.go`) | what was probed at start-up | run | a restart changes what is watched | |

`PROJECT.json` lists every component with its status and every hazard with the
line where it bites and the properties that would notice it.

## 2. The modules

### CertificateDecision

The pure part. A certificate is a leaf (identified by its thumbprint) and a
chain; the digest over both is represented by the pair, that is, digests are
taken to be injective. Leaves have a validity period and the name their SANs
derive; one without any DNS SAN (`Anonymous`) is defective, which is not the same as one whose
SANs derive no name. `Validate`, `DecideAction` and `DecideWarning` follow `Bundle.Validate` and
`Decide`; `Mirrors` says what it means that the vault holds a certificate, which
the properties use and the code never states in one place. `Secret` is what
`SecretSource.Load` and `ParseBundle` can tell apart.

### CertSync

The sync controller between the API server and Key Vault.

| Variable | Code |
|---|---|
| `api`, `secret` | resources and Secrets at the API server |
| `cache`, `secretCache` | what the informers delivered; the only thing `r.Get` and `r.List` read |
| `fresh` | whether a cached copy has the current resourceVersion; with `worker.current` it decides whether an update conflicts |
| `vault`, `azureUp` | the Key Vault objects with their version counter, and whether Key Vault answers |
| `queue`, `timer` | the work queue: keys that are ready, and one delayed key per resource (`RequeueAfter` or the backoff) |
| `worker` | the pass in progress: its copy of the resource, what it loaded and read, what it will report |
| `series` | label sets of `keyvault_certificate_not_after_seconds` |
| `touched` | history: objects somebody else changed since the controller last read them |
| `now`, `spent` | the clock, in the whole seconds that LastSyncTime holds, and how often each thing that `Budgets` bounds has happened, ticks of the clock included |

A pass is one action per call that leaves the process or reads a cache, so the
environment, the informers, the timers and a restart can come between any two:

| Action | Code |
|---|---|
| `Start` | Reconcile takes a key and reads the cached resource (68-78) |
| `Adopt`, `AdoptFails` | AddFinalizer and Update (80-84): success, conflict, not found, or a failed call that may have been applied |
| `Load` | vault URL, allowlist, profile (121-136), the Secret and the name (`syncer.go` 68-87) |
| `Read`, `ReadFails` | Snapshot and Decide (`syncer.go` 89-114) |
| `Import`, `ImportFails` | Import (`syncer.go` 116-133); a failure may have minted the version, and a certificate that has expired since the decision is refused |
| `Report`, `ReportFails` | applyOutcome or setFalse, updateStatus, the requeue (86-119, 150-203) |
| `Finalize`, `FinalizeFails` | finalize (211-222) |
| `DeliverSync`, `DeliverSecret` | watch events (`SetupWithManager` 241-274, `syncsForSecret` 278-296) |
| `Fire` | a delayed key comes due |
| `Restart` | the process stops anywhere and starts again |
| `CreateSync`, `EditSync`, `DeleteSync`, `WriteSecret`, `WriteVault`, `AzureFlips`, `Tick` | users, cert-manager, other writers of the vault, Azure, time |

Operators whose name ends in a fault (`Retryable_Never`, `Adopt_IgnoresConflict`,
...) are plausible bugs. No specification uses them; each stands next to the
definition it would replace, to show that the properties notice it.

Abstractions, and what they cost:

- A resourceVersion is a Boolean per copy. Any write by another party makes a
  copy stale, which is all that optimistic concurrency tells the code.
- The two conditions are one `ready` reason: Synced differs from Ready only when
  the certificate is disabled in the vault, which has a reason of its own.
  Messages and each condition's own observedGeneration are left out, so an error
  status that differs from the stored one only in those counts as no change.
- An informer delivers the latest object, possibly skipping versions; it never
  goes back (client-go's guarantee).
- The spec's vault URL, allowlist and PKCS#12 profile are one Boolean `sound`.
- The identifier of a version (`VersionId`) is a number and the certificate it is of: Key
  Vault's are unique, so the status of one certificate never names a version of another.
- The queue is a set, as client-go's is; its order is in the fairness.
- The operator runs alone: with leader election another replica takes over only
  after this one has stopped, which is `Restart`.

### MCCertSync

Values for the constants a `.cfg` cannot write: three leaves (one that expires
after instant 0, one that stays valid, one without SANs), two chains, and the
sets of Secret contents and specs the runs use.

### VaultMirror, CertSyncMirror, MCCertSyncMirror

`VaultMirror` is the abstract specification of the sync half: objects in a vault, what
the cluster wants in each, what it ever asked for, and whether the vault answers; no
resource, pass, cache, queue or status. An object only ever becomes, one version at a
time, a certificate that was asked for there and that it does not hold; others may
write it; and while the vault is reachable what goes on being wanted is stored.
`CertSyncMirror` adds one history variable to `CertSync` (`heard`: every spec and
every Secret content there has been, because a pass may join a copy of the one with
a copy of the other from another moment) and maps the state:
`Mirror == INSTANCE VaultMirror WITH wanted <- Wanted, asked <- Asked, reachable <- azureUp`.
`ImplementsMirror` is `Mirror!Spec`, fairness included.

### BundleParsing, SecretFile, MCSecretFile

`BundleParsing` is `ParseBundle` and `orderChain` over an abstract public key
infrastructure: constants give the names, the key and the place in byte order of a
certificate, and the relation of signatures that verify. A file is the sequence of its
blocks. The loops of `orderChain` are described by what their result is: the walk is the
sequence of positions in the file of which each is what `findIssuer` returns for the one
before (`IssuerAfter`), up to where it returns nothing; the orphans are the remaining
positions, each before the next by its bytes, or by its place if the bytes are the same.
Both are unique, so `CHOOSE` leaves no choice. `SecretFile` runs it as a system: the two files of a Secret are rewritten
(reordered, extended, cut, re-keyed), each rewrite is synced in one action, and `source`
remembers the file the stored bundle came from. `CertSync` takes bundles as values; here
it is shown what a rewrite of the files makes of them. `MCSecretFile` has a leaf, an
intermediate with a cross-signed namesake of the same key and a re-keyed one, a root and a
stranger, and for `SecretFile_samekey` the leaf's previous issue with the same key. Left out: PEM and DER themselves, and what an
unparsable key says.

### VaultTarget, MCVaultTarget

What `CertSync` and `WildcardPolicy` take as a Boolean `sound`, computed: `ParseCloud`,
`VaultURL`, `Permits`, `ParseAllowedVaults` over URLs as records (scheme, label, suffix,
capitals, port, trailing slashes), a policy and the resource it generates, the clients
the Key Vault adapter keeps, edits of either resource and restarts with other flags. A
pass of either controller is one action. Left out: paths and white space in a URL,
capitals of a bare name, which labels `validateVaultName` refuses (a constant); the policy
wants one certificate.

### WildcardPlan

`BuildPlan`, pure. A DNS name is the sequence of its labels from the root down, a
label the sequence of its words (so that `a.x.com` and `a-x.com` are different
names that derive one Key Vault name), `Star` the label `*`. The string order that
decides ties is two constants, `DnsRank` and `VaultRank`, which an instance sets to
the order its names really have. Every function of `internal/domain/wildcard.go` has an
operator: `LongestMatchingZone`, `Issuable`, `RequiredName`, `Grouped` (group), `ZoneSeed`,
`NameOf` (resolveNameCollisions), `ClaimsFirst` and `Kept` (applyLimit). Lists become
sets ordered by `Before`, which is the order of the sorted list, stable sort included.

Left out: `NormalizeHost` (hosts are in normal form), the empty host, the `cert-` prefix
before a digit and the digest in names of more than 127 characters; digests are
injective.

### Planner, MCPlanner

`Planner.Plan` with the listener groups, as a system: the same policy is planned
again and again (`Plans`) while hosts come and go (`Route`), and what one pass planned
is `Existing` for the next. `MCPlanner` has nested zones, a zone whose names collide
with those of another, a public suffix, an illegal name, apexes, wildcards and a
host with a star in the middle.

### WildcardPolicy, MCWildcardPolicy

The policy controller between the informers and the API server, with the plans of
`WildcardPlan`.

| Variable | Code |
|---|---|
| `policy`, `certs`, `syncs` | the policy, the cert-manager Certificates and the sync resources at the API server |
| `cache`, `certCache`, `syncCache`, `routeCache` | what the informers show of them and of the routes |
| `routes`, `watched`, `certManager` | the routed hosts by source, the sources watched since start-up (`main.go` 150-165), the Certificate CRD |
| `stale`, `unseen` | the policy, the sync resources with an event that the informers have yet to deliver |
| `now` | the clock, in the whole seconds that LastDiscoveryTime holds |
| `queued`, `timer` | the policy's key in the work queue, and its delayed requeue |
| `worker` | the pass in progress: its copy, what exists, hosts, plan, certificates to do, objects to prune |
| `unsure` | history: Certificates a pass judged by a stale copy, or somebody deleted |
| `left` | how much of each disturbance may still come |

| Action | Code |
|---|---|
| `Start`, `Adopt`, `AdoptFails` | the policy is read and put under the finalizer (88-110) |
| `ListExisting`, `Discover`, `DiscoverFails` | generatedCertificateNames (112-117), plan (119-135): two reads of different caches; a List of the hosts that fails is reported and retried |
| `Probe`, `ProbeFails` | Available (137-161) |
| `EnsureCert`, `EnsureSync`, `EnsureFails` | apply (271-294), one CreateOrUpdate each; it stops at the first error |
| `ListOrphans`, `PruneSync`, `ListCertificates`, `PruneCert`, `Pruned`, `PruneFails` | handleOrphans (330-392), one deletion each |
| `ListingFails` | a List of generated objects fails (115-117, 351-375): the error is returned, and no status written |
| `Report`, `ReportFails` | recordPlan, the condition, updateStatus and the requeue |
| `Finalize`, `FinalizeFails` | the deletion of the policy (93-104); a failed write may have been applied |
| `DeliverPolicy`, `DeliverSync`, `DeliverRoutes`, `DeliverCert` | `SetupWithManager` (497-507): the first three wake the policy, a Certificate wakes nobody |
| `Fire`, `Restart` | a requeue comes due; the process starts again and probes the Gateway kinds anew |
| `EditPolicy`, `DeletePolicy`, `Tamper`, `ChangeRoute`, `InstallCertManager`, `Collect`, `ReleaseSync`, `Tick` | users, the garbage collector, the sync controller, time |

Abstractions:

- There is one policy, and a deleted one is not created again.
- Of a Certificate the DNS names are kept, of a sync resource the fields copied from
  the spec (`Targets`). The API server takes a write when the copy it was made from has
  the present content: within one behaviour an object hardly returns to an earlier content
  while a copy is in use, and a write from such a copy would have written the same. Events
  are kept apart from contents (`stale`, `unseen`): every write makes one, also the write that
  restores what an informer's copy shows.
- Whether the vault resolves and is permitted and the namespace selector parses is
  one Boolean `sound`. The issuer is left out, so is `certificateNamespace`, whose edit would make
  another set of objects and leave the present one in place until the policy goes, and what the selector selects is `HostDiscovery`'s subject.
- The status is the plan, the reason of Ready and the second of the last discovery: a
  pass that reports the same plan within one second makes no event, a later one does.
  The truncation of its lists and its other conditions are left out.
- A pass lists the hosts of all sources in one step (`HostDiscovery` does not), and `Generated` objects as one
  list; the cache they are read from is local.
- `apply` goes through the sorted list of certificates; here it holds the set of those that
  are left (`todo`) and takes the first of them in the list's order (`Current`), which exists
  because the order is total on a plan (a lemma of `WildcardPlanProofs`).
- `PlanFor` looks a plan up in the table `Plans` of all that can come up, which TLC
  computes once.

### HostDiscovery, MCHostDiscovery

`HostSource` in the policy controller's loop, the other way round: discovery in detail,
what follows it in one action. Ingresses (rules and TLS blocks), HTTPRoutes and Gateways
(listeners, some without a hostname) are created, changed and deleted in namespaces that
are relabelled; each kind and the namespaces have informers that are not ordered with
one another; `Hosts` is one List after another, each of which may fail. Every host has a
certificate of its own, and what no pass finds is pruned unless nothing was found.
`steady` (what one object stated all through a pass) and `routed` (hosts routed ever
since the last pass) are histories. The status is left out, and with it the events of its own
writes; they would wake the policy, as the timers, of which one is always set after a pass, may at any moment.

### Pipeline, MCPipeline

The whole operator: `Pipeline` extends `WildcardPolicy` with cert-manager (`Issue`), the
Secrets, the vaults, and the sync controller as `CertSyncMirror` shows it to be: it takes a
resource whose object is not what its Secret holds (`Load`) and later imports what it
took (`Import`), whatever has happened meanwhile, or fails to, applied or not (`ImportFails`); a
restart loses what it carries. `Load` joins the resource and the Secret as they are at that
moment; that `CertSync` joins informer copies of them, and what comes of it, is what
`ImplementsMirror` is about. A
certificate is the set of its DNS names, so a changed plan is a changed certificate.

### The proof modules

`CertSyncProofs`, `CertSyncMirrorProofs`, `WildcardPlanProofs` (lemmas about `BuildPlan`),
`PlannerProofs`, `WildcardPolicyProofs`, `VaultTargetProofs`, `HostDiscoveryProofs` and
`SecretFileProofs`; see section 5.

## 3. The properties

- `PassUnderFinalizer`: from the Secret read to the status write the resource still
  exists and carries the finalizer. A pass decides this from a copy that can be
  arbitrarily old.
- `NoRedundantImport`: when an import is about to be sent, the vault does not hold
  that certificate, unless somebody else changed it since Snapshot.
- `VersionsPaidFor`: over a whole history of failures, restarts and lost answers,
  an object has no more versions than one plus the changes that call for one.
  Versions are permanent and a vault breaks past 500, which is why `Decide` exists.
- `NoLostWakeup`: once nothing is pending for a resource (no key, no backoff, no
  event under way) its status and the vault are what its inputs deserve as of some
  moment, or its deletion is complete. It is the safety side of convergence, and
  covers the swallowed conflicts of `updateStatus`, errors that are not retried and
  events that arrive while a pass runs.
- `StatusTruthful`: a status that newly says Ready is true of the vault, unless somebody else
  changed the object since Snapshot.
- `Converges`: with Key Vault reachable in the end, every resource settles on what its inputs
  deserved at some moment of the clock, or its vault object has drifted, which no event tells.
- `DriftRepaired`: with the resync there is no such excuse: every resource settles on what its
  inputs deserve now. This is where a change of the object between Snapshot and Import, and a
  certificate that expires between the decision and the import, must come out right: the two
  properties above except what changed during the pass, because the code does not look again.
- `DeletionCompletes`: whatever Key Vault does, a resource being deleted goes.
- `EventsRunDry`: every success stamps the time into the status and wakes the controller
  again, and once more when that pass falls into another second. When no resync comes due any
  more and the clock stands still, and unless the Secret stays of a form only a new Secret can
  mend, this dies down, and so do the backoffs.
- `ImplementsMirror`: the refinement of `VaultMirror`, above.

Of the planner:

- `EveryHostAccounted`: a routed host is covered by a certificate of the plan or
  reported; nothing is dropped silently, at the cap either.
- `NamesInTheirZone`: a certificate carries only names inside its own zone, and of no
  more specific zone of the policy: the guard that bounds what an Ingress can cause
  to be issued.
- `CertificatesDistinct`: no two certificates share a Key Vault object or a name.
- `CapKeepsExisting`: at the cap what exists gives way only to what exists.
- `ListenersServeNames`, `PlanStable`: listener groups are a partition that fits; an
  unchanged cluster is planned the same way, with its own output as input.

Of the policy controller:

- `PruneKeepsCoverage`: a deletion never takes the last Certificate that covers a
  host the pass promised to serve, or a host of a source the policy requires and the
  operator does not watch. A Certificate the pass believed in from a stale copy is
  excepted: that race exists, because the copy is not checked when nothing is written.
- `PassUnderFinalizer`, `NoLostWakeup`, `Converges`, `DeletionCompletes`: as above. When
  nothing is pending the cluster and the status are what the policy asks for, except
  for what no event tells (a Certificate in doubt, a late cert-manager CRD); with the
  resync nothing is excepted.
- `EventsRunDry`: the controller owns what it writes and plans from what it owns; when no
  resync comes due any more and the clock stops ticking, its own events end.

Of parsing (`SecretFile`): `NothingLost` (leaf and chain are the certificates of the file,
each as often as it is there), `ChainServed` (what verifies step by step from the leaf comes
first, in the order of issue) and `ReorderMintsNothing` (a rewrite that only reorders the
file costs no permanent version as long as the leaf is the same and `Unambiguous`: no certificate
has two signers in the file, or two that merely bear its issuer's name).

Of vaults (`VaultTarget`): `ClientsPermitted` (over all edits and restarts, the operator has
only connected to Key Vault hosts that the current flags name), `SameVaultSameVerdict` (one
vault gets one verdict whether it is written as a name or as a URL, in capitals or not; URLs
with a port or with more than one trailing slash, which the resolver and the comparison do not
reduce to the same text, are left to the claims below), `EntriesUsable` (no entry of the flag is dead)
and `StatusesAgree` (once no pass is due, both statuses are those of the current flags and
name the same identifier).

Of discovery (`HostDiscovery`): `NoLostRoute` (with nothing pending, the last pass found what
is routed, but for relabelled namespaces), `SteadyHostKept` (a host that one object states
all through a pass keeps its certificate, whichever List fails) and `Converges`.

Of the whole: `PlanServed`. In the end the status holds the plan for what is routed and
every certificate of that plan is in the policy's vault, with the planned names.

Statements of the repository's own documentation, comments and tests that the code does
not keep. The run `certsync_shared` shows the one with the widest consequences, and `PROJECT.json`
quotes what it refutes. Each of the others is stated and commented at the end of its module and
has a `.cfg` of its own, the smallest instance in which TLC finds the counterexample: for example
`tlc -config CertSync_version.cfg MCCertSync`.

| Claim | Instance | What happens |
|---|---|---|
| `VersionIsMostRecent` | `CertSync_version` | a lost status write leaves the status with an older version for good |
| `ObservedGenerationIsCurrent` | `CertSync_generation` | a pass that fails leaves the generation behind |
| `SeriesFollowName` | `CertSync_series` | a lost status write hides a name whose expiry series then stays |
| `ImportsAreReported` | `CertSync_sans` | more than 100 SANs: imported, and never reported |
| `DataErrorsWait` | `CertSync_spin` | a Secret of the wrong form is retried with backoff for ever |
| `ImportsFollowChanges` | `CertSync_shared` | two resources with a Secret each and one Key Vault name import in turns, without end |
| `ExistingKeepSlot` | `WildcardPolicy_cap` | what exists is read from a cache that may not show it yet |
| `IssuedKeepSlot` | `Planner_collide` | of two zones whose names collide the new one takes the issued one's name, slot and object |
| `LeafNotInChain` | `SecretFile_leaf` | a leaf that the file repeats |
| `OrderFromCertificates` | `SecretFile_order` | a cross-signed intermediate: the order of the file decides, and mints |
| `LeafFromKey` | `SecretFile_samekey` | two certificates of one key: position decides |
| `NoTrailingSlash` | `VaultTarget_slash` | a vault URL that ends in two slashes keeps one |
| `PortIgnored` | `VaultTarget_port` | a URL with a port is refused under an allowlist that names the vault |
| `InheritedHostsContributed` | `HostDiscovery_inherit` | a selected route inherits from a Gateway in a namespace that is not |
| `PruneOnlyUnrequired` | `HostDiscovery_prune` | a host moves between kinds, and a pass sees it in neither |

## 4. The runs

| Run | Instance | Checks |
|---|---|---|
| `certsync_safety` | one resource with three specs (two names, one unsound), two leaves, two chains; at most one edit or deletion, one Secret write and one restart, Key Vault flapping at will; 2.3 million states | `TypeOK`, `VersionsPaidFor`, `NoLostWakeup` |
| `certsync_drift` | one resource with a given or derived name, every unusable Secret, one Secret write, one change of the vault out of band, one tick that expires a leaf; 4.3 million states | `NoRedundantImport`, `NoLostWakeup`, `StatusTruthful` |
| `certsync_live` | one resource, two leaves, a Secret that may hold anything, flapping; two of a Secret write, a vault write and a failing API call, or two edits (a deletion and a creation) and a restart or a failing call, or two ticks of the clock, or one that may expire a leaf with any of those; 0.57 million states | `PassUnderFinalizer`, `Converges`, `DriftRepaired`, `EventsRunDry`, `DeletionCompletes` |
| `certsync_mirror` | one resource with the same three specs, flapping; an edit or deletion with a renewal, or a vault write with a restart; 0.7 million states | `ImplementsMirror` |
| `certsync_shared` | two resources with a Secret each and one Key Vault name, one renewal | `ImportsFollowChanges`, refuted |
| `secretfile_parse` | files of up to three certificate blocks, six kinds of key file, two rewrites | `TypeOK`, `NothingLost`, `ChainServed`, `ReorderMintsNothing` |
| `vaulttarget_verdicts` | five ways to write a vault, three clouds, five allowlists, any number of edits and restarts; 98 thousand states | `TypeOK`, `ClientsPermitted`, `SameVaultSameVerdict`, `EntriesUsable`, `StatusesAgree` |
| `hosts_selector` | an Ingress, a route and its Gateway in two namespaces, two hosts; two changes, a relabelled namespace, a failing List, a restart; 0.8 million states | `TypeOK`, `NoLostRoute`, `SteadyHostKept`, `Converges` |
| `planner_plans` | seven zone sets, both groupings, seed on and off, cap 0 to 2, four sets of existing names, two changes among eight hosts, listeners of two; 100 thousand states | the seven properties of the planner |
| `policy_safety` | two zones with a host each, Ingress and Gateway as sources; pairs of one restart or failing call with one route change or deleted object, and two edits at the cap, which may restore what it was; 1.8 million states | `TypeOK`, `PassUnderFinalizer`, `NoLostWakeup`, `PruneKeepsCoverage` |
| `policy_live` | the same; deletion with a failing call, a deleted object, a route change, a restart, a mended spec with a tick of the clock, cert-manager missing at first with a failing call; 0.28 million states | `Converges`, `DeletionCompletes`, `EventsRunDry` |
| `pipeline_serve` | one zone with hosts at two depths, two vaults; a route, a restart, an edit, a deleted object or Secret, or a failing call; 0.15 million states | `PlanServed` |

`CertSync_pair.cfg` checks `VersionsPaidFor` and `NoLostWakeup` of two resources that share a
Secret and, before or after a rename, the Key Vault name (2.1 million states).

Bounds. The number of passes, requeues, deliveries and outages is not bounded:
the state space is finite without that. Only what the environment may add is
counted (`spent` against `Budgets`: a behaviour stays within one of them, so
that a run covers several combinations without their product). Two ticks let a pass straddle a
second, and the pass that this one wakes straddle another. Most properties speak of one resource and the controller handles one
at a time, so one resource is enough for all but sharing, which `certsync_shared` and
`CertSync_pair.cfg` are about. One restart, one lost answer and one conflict are
each enough to separate any two calls of a pass; combinations of two faults of
different kinds occur in every run.

For the policy controller the instance says what may befall one behaviour, in
`Scenarios`: a start and a count for each disturbance. Two zones with a host each
make passes of two certificates, so that every partial failure has a before and an
after; one disturbance of two kinds separates any two calls of any two passes. Two
hosts are enough for coverage, because coverage is a statement about one host.

Files of three certificate blocks are the shortest that hold a leaf, two candidates for its
issuer, or a chain with a stranger in it; six certificates exist so that every pair of roles
meets. In `VaultTarget` nothing is counted: the state is finite. In `HostDiscovery` two changes
move a host from one object to another. `Pipeline` has one certificate, whose names change when
the deeper host comes; several certificates are `WildcardPolicy`'s business.

Fairness. `EventFairness` assumes that a pass takes its next step (weakly: calls
end; the code sets no deadline of its own, so this leans on the SDK's), that a
waiting key is taken in the end (strongly: the worker is busy in between, and the
queue is first-in first-out), that informers deliver, and that a backoff comes
due. `ResyncFairness`, that the periodic requeue comes due, is kept apart and is a
premise of `DriftRepaired` only: changes in the cluster must be dealt with by events
alone. Nothing is assumed of users, of Key Vault or of restarts; `Converges` has
`<>[]azureUp` as a premise, `DeletionCompletes` does not.

In `WildcardPolicy`, `EventFairness` also assumes that the garbage collector and the sync
controller (whose `DeletionCompletes` is the reason) do their part; `ResyncFairness` is a
premise of `Converges` only, because nothing else notices a deleted Certificate, so
`DeletionCompletes` and `EventsRunDry` rest on events alone. `HostDiscovery` assumes that Lists
end, informers deliver and both timers come due: without the resync nobody follows the labels.
`Pipeline` adds, weakly, that cert-manager issues in the end, that a resource which keeps
wanting an import gets its turn, and that a call of the sync controller ends; this is the weak
fairness of `Mirror!Spec`, which `CertSyncMirror` shows of `CertSync`. Of the
policy controller's passes it assumes that they end, because `policy_live` shows, under weak
fairness of each step, that none gets stuck.
`VaultTarget` and `SecretFile` state safety only.

`CHECK_DEADLOCK` stays on where the resync goes on for ever or others may always act. It is off
where the system may really stop: in `policy_live`, where a policy that is gone leaves nothing to
do, and in `secretfile_parse`, which ends when the last rewrite is synced; so too in some of the
small instances of the table in section 3.

## 5. What is proved

Every theorem holds for every value of the constants, under the named assumptions of the
modules, and has no bound on what the environment does. The assumptions: constants have their
types; `None` is none of the values it stands beside (`NoBundleAssumption`,
`NoObjectAssumption`, ...); hosts and zones are DNS names; the ranks that stand for the order
of strings tell different strings apart (`RanksAssumption`); the names a plan can ask for are
among those the instance has (`NamesAssumption` of `WildcardPolicy`); no plan is the value `None`
(`PlansAssumption`, which `BuildPlan` satisfies by making records). TLC evaluates each of them
on every run. Two theorems about `CertSync` have a hypothesis besides, given with them below.

**CertSync** (`CertSyncProofs`)

- `TypeCorrect`: `Safety => []TypeOK`. `TypeOK` is inductive; its interesting conjuncts
  say that a pass that reaches Key Vault has a bundle and a name, and that a
  success to be reported does. One lemma per action.
- `FinalizerHeld`: `Safety => []PassUnderFinalizer`. The property is not inductive: a pass
  that starts from a copy showing the finalizer proves nothing about the API server
  unless copies can be trusted that far. `FinalizerInv` adds `CopiesTrusted` (a cached
  copy that shows the finalizer and no deletion is right about the finalizer),
  which needs that nobody but this worker releases a resource, that it does so only
  from a copy with the current resourceVersion (`ReleaseSeen`), and that the cache has
  then seen the deletion too (`FreshCopies`).
- `ImportsNeeded`: `Safety => []NoRedundantImport`, and `StatusesTrue`:
  `Safety => StatusTruthful`. Both rest on `VaultInv`: what Snapshot showed stays true
  until the pass is over (`SnapshotHolds`), and a success about to be reported is
  what the vault serves (`ReportHolds`), as long as nobody else wrote the object. The
  action property follows from `ClaimsNext`: a status changes only by a report, or to
  one that claims nothing.
- `VersionsPaid`: `NamesOwned => (Safety => []VersionsPaidFor)`. `NamesOwned` says that every
  Key Vault name is one resource's, or is fed by one Secret. It cannot be dropped: two
  resources that give one name to the certificates of two Secrets import in turns for ever
  (`certsync_shared`). `PaidInv` counts what the passes have not seen yet: a Secret's copy that
  lags behind it (`Lagging`), a specification that is not the one the pass last saw, an object
  that does not hold what it should; each of these was paid for by a change, is turned into at
  most one of the next, and into one version in the end. `PaidByResource` and `PaidBySecret` are the
  two ways to own a name. It rests on `CarryInv`: what a pass takes to the vault is permitted,
  goes under the name its specification gives it, and is not what the vault holds.
- `WakeUpsKept`: `OneOwner => (Safety => []NoLostWakeup)`. `WakeInv` says that a resource is in a
  pass, is to have one, or is accounted for (`AtRest`). A pass leaves nothing pending only when
  it stores nothing, that is, when its report is the status already; so the invariant says what
  a pass knows then. Its copy is the resource, or the key has been queued since or the cached
  copy is stale (`HeldCopy`: this is why a swallowed conflict does no harm); what it loaded is
  what the Secret's copy holds (`LoadedCopy`); its result is the verdict on that, at a moment
  since it started, or the certificate is in the vault or the object was touched
  (`ReportedCopy`); and no status names a version newer than the vault's (`VersionsKnown`), so
  the report of an import is never the status already and always wakes the resource again.
  `OneOwner` says that every Key Vault name is one resource's. It is needed because of
  `touched`: a pass of another resource that reads the object clears the mark. Of two resources
  that share a name without drift, `CertSync_pair.cfg` checks the property on an instance.

**Refinement** (`CertSyncMirrorProofs`)

- `MirrorImplemented`: `MirrorSafety => Mirror!Init /\ [][Mirror!Next]_<<Wanted, Asked, azureUp, vault>>`,
  the safety half of `ImplementsMirror`: every step of `CertSync` is a step of the abstract vault or
  a stutter. `AskedInv` says that whatever the API server, an informer's copy or a pass in
  progress has, was said before, so that an import stores only what was asked for under
  that name; that it stores only what is not there is `CarryInv`. The fairness of `Mirror!Spec` stays with
  the run.

**Planner** (`WildcardPlanProofs`, `PlannerProofs`). The state is the plan of the last input, so
the weight is in lemmas about the algorithm.

- `TypeCorrect` and `StayInZones`: `Spec => []NamesInTheirZone`. A host's longest zone exists
  (from the well-foundedness of lengths), the name required for it lies in that zone and in
  none the host is not in, grouping adds no name, and the cap, naming and listeners change none.
- `NothingDropped`: `Spec => []EveryHostAccounted`, host by host through zones, legality,
  grouping and the cap.
- `NothingShared`: `Spec => []CertificatesDistinct`. No two groups of a zone or of two zones have
  a DNS name in common, and colliding names in Key Vault get digests that tell them apart.
- `CapObserved`: `Spec => []CapKeepsExisting`. `Before` is a total order in which what exists comes
  first, and `Kept` is its first so many, by cardinality.
- `PlansSettle`: `Spec => PlanStable`. With its own output as input a plan keeps the same
  certificates: they all claim a slot first, and there are slots for all.
- `NamesServed`: `Spec => []ListenersServeNames`. The groups are intervals of one enumeration.

**WildcardPolicy** (`WildcardPolicyProofs`)

- `TypeCorrect`: `Safety => []TypeOK`, from `TypeInv`: a pass that writes or prunes has a plan that was
  made from its own copy of the policy, works on certificates of that plan, and dooms none of them.
- `NothingWithoutFinalizer`: `Safety => []PassUnderFinalizer`. `TrustInv` says what the cached policy
  proves: finalizer without deletion, that the policy is there under its finalizer; deletion,
  that it is being deleted or gone.
- `PruningIsSafe`: `Safety => PruneKeepsCoverage`. `EnsuredInv`: until the pruning is over, every
  Certificate the pass has been through is as the plan wants it, or in doubt (`unsure`). With
  that the plan accounts for the host (the lemma behind `NothingDropped`), and for what it does not cover
  the pruning is withheld.
- `WakeUpsKept`: `Safety => []NoLostWakeup`. `WakeInv` speaks of the calm, in which no key waits and
  no event of the policy or of a sync resource is under way; whatever ends the calm brings a pass. In
  the calm a copy is current (`CopiesInv`), so a pass works from the policy as it is (`HeldInv`) and plans
  what is needed (`PlanInv`); the sync resources it has been through are as they are to be
  (`WrittenInv`), and what it is to prune is gone, being deleted or still on its list
  (`OrphanInv`). Therefore a report in the calm is true (`ReportInv`), and stays so at rest
  (`RestInv`). A write of the pass itself ends the calm, unless it writes what is there: the theorem
  rests on that pass being followed by another, which finds everything done. Routes end it by
  queueing the policy (`DeliverRoutes`); Certificates have no event, which is why `unsure` is excepted.

**VaultTarget** (`VaultTargetProofs`)

- `TypeCorrect`; `ConnectsOnlyToNamed`: `Spec => []ClientsPermitted`; `NoDeadEntries`:
  `Spec => []EntriesUsable`; `OneVaultOneVerdict`: `Spec => []SameVaultSameVerdict`. They rest on
  `FlagsInv` (the allowlist of a running operator is what its flags say) and on what the resolver
  makes of a URL and of its own output.
- `StatusesInStep`: `Spec => []StatusesAgree`, from `StatusInv`: a controller whose pass is not due
  has reported the verdict of the present flags on the present resource.

**HostDiscovery** (`HostDiscoveryProofs`)

- `TypeCorrect`; `RoutesFollowed`: `Safety => []NoLostRoute`. `SeenInv`: while no key is queued, a
  pass has seen what the caches hold of the kinds it has listed, and nothing else; `ScopeInv`: its
  namespaces are those selected now, but for relabelled ones.
- `SteadyKept`: `Safety => SteadyHostKept`, from `SteadyInv`: what one object has stated since
  before the pass is in its scope, and is found once its kind is listed.

**SecretFile** (`SecretFileProofs`), for files of any length over any certificates and signatures.

- `TypeCorrect`: `Spec => []TypeOK`, from `TypeInv`, which also says (`SourceInv`) that what the vault
  holds is what `ParseBundle` makes of `source`. Everything else is a fact about `ParseBundle`.
- `BundleIsFile`: `Spec => []NothingLost`. A walk to its end exists (`WalkEnds`: linked walks repeat no
  position, so there is a longest one, and that one has ended), and the remaining positions can be
  sorted (`OrphansSorted`). So leaf, walk and orphans are a bijection onto the certificates' positions
  (`OrderHolds`), which keeps every count.
- `ChainInOrder`: `Spec => []ChainServed`. The longest prefix of the walk in which each verifies the one
  before is closed under signers: a signer of one of its members would have been found in place of
  what follows it, or is in it. So it has all of `Above`, and nothing else
  (`VerifiedPrefix`, `AboveFirst`).
- `OrderNotTrusted`: `Spec => ReorderMintsNothing`. The walks in two files with the same certificates
  agree step by step (`SameLine`): what is unused in the one is unused in the other, as often, and
  `Unambiguous` leaves one signer, or one bearer of the name, to find. The orphans of both are the
  same certificates sorted alike; at the first place where they differed, the lesser of the two
  would appear too late in the other (`OrderIrrelevant`).

Model-checked only, and why:

- liveness (`Converges`, `DriftRepaired`, `DeletionCompletes`, `EventsRunDry`, `PlanServed`) and the
  fairness of `ImplementsMirror`: the prover has no rules for fairness and ENABLED that would serve;
- `Pipeline`, whose one property is liveness.

## 6. Plan

1. An abstract specification of the policy controller (the generated set follows the plan),
   refined by `WildcardPolicy`; both Gateway kinds and a retained orphan in one run.
2. Several policies, of which two may plan one name in one namespace.

Not modelled, and why. The PKCS#12 encoder and the PEM and DER layers are conversions of bytes
with no control of their own; the encoder's profile is part of `sound`. Azure credentials build
SDK objects. Leader election is `Restart`; metrics other than the expiry series only count.
The length limits of names (127 in Key Vault, 63 in a label) are left out of the planner, and the
hazard they make is listed. Deadlines of Key Vault calls are the SDK's. Generated code, the helm
generator, the end-to-end suite, charts and Terraform are not part of the running program.
