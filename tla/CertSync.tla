------------------------------ MODULE CertSync ------------------------------
(***************************************************************************)
(* The KeyVaultCertificateSync controller: the reconciler of               *)
(* internal/controller/certificatesync_controller.go driving the Syncer of  *)
(* internal/app/syncer.go, between the Kubernetes API server and Azure Key  *)
(* Vault.                                                                   *)
(*                                                                         *)
(* The controller never sees the API server's objects, only the copies its  *)
(* informers delivered (cache, secretCache).  A resourceVersion is modelled *)
(* by whether a copy is fresh: any write to an object makes every copy but  *)
(* the writer's stale, and an update from a stale copy is a conflict.       *)
(*                                                                         *)
(* One pass of Reconcile is several steps, one per call that leaves the     *)
(* process or reads a cache, so everything else can happen in between.  The *)
(* controller runs one pass at a time (MaxConcurrentReconciles is left at   *)
(* its default of one).                                                     *)
(***************************************************************************)
EXTENDS CertificateDecision, FiniteSets

CONSTANTS
  Syncs,       \* KeyVaultCertificateSync resources
  Secrets,     \* TLS Secrets they may reference
  SpecsOf,     \* [Syncs -> SUBSET Spec], the specs a user may give each one
  Contents,    \* what the Secrets may hold, a subset of Secret
  Wide,        \* leaves with more SANs than the CRD admits in status.dnsNames
  Budgets,     \* bound: what may befall one behaviour stays within one of these
  AzureMayFail \* whether Key Vault can be unreachable at all

\* spec: the Secret, the Key Vault name (None: derive it), and whether the
\* vault URL resolves, is permitted, and the PKCS#12 profile is known.
Spec == [secret : Secrets, name : Names \cup {None}, sound : BOOLEAN]

ASSUME NoSyncAssumption == None \notin Syncs
ASSUME SpecsAssumption == SpecsOf \in [Syncs -> SUBSET Spec]
ASSUME ContentsAssumption == AbsentSecret \in Contents /\ Contents \subseteq Secret
ASSUME WellFormedContents ==
  \A c \in Contents : c.state = "bundle" <=> c.bundle # None
ASSUME WideAssumption == Wide \subseteq Leaves

\* How often users create, edit or delete a resource, Secrets are written, Key
\* Vault is changed out of band, the operator restarts, API calls fail and the
\* clock ticks.
Bounds == [edits : Nat, secretWrites : Nat, vaultWrites : Nat,
           restarts : Nat, faults : Nat, ticks : Nat]
ASSUME BoundsAssumption == Budgets \subseteq Bounds /\ AzureMayFail \in BOOLEAN

\* The Ready condition: "Synced" is True, every other reason is False.
Reasons == {"Unset", "Synced", "DisabledInVault", "SourceNotFound",
            "SourceInvalid", "CertificateExpired", "ConfigInvalid", "VaultError"}

\* The identifier of a version, unlike its number, is of one certificate only.
VersionId == [of : Names \cup {None}, number : Nat]
NoVersion == [of |-> None, number |-> 0]

Status == [name : Names \cup {None}, bundle : Bundle \cup {None}, version : VersionId,
           ready : Reasons, observed : Nat, syncedAt : Nat]
NoStatus == [name |-> None, bundle |-> None, version |-> NoVersion,
             ready |-> "Unset", observed |-> 0, syncedAt |-> 0]

\* A KeyVaultCertificateSync as the API server stores it.  The last spec of
\* one that is gone is kept and means nothing.
SyncObject == [exists : BOOLEAN, deleting : BOOLEAN, finalizer : BOOLEAN,
               generation : Nat, spec : Spec, status : Status]
ASSUME NoObjectAssumption == None \notin SyncObject

VARIABLES
  api,         \* the sync resources at the API server
  cache,       \* the informer's copies of them
  fresh,       \* fresh[s]: cache[s] has the resourceVersion of api[s]
  secret,      \* the Secrets at the API server
  secretCache, \* the informer's copies of them
  vault,       \* the Key Vault certificates
  azureUp,     \* Key Vault answers
  queue,       \* keys ready to be reconciled
  timer,       \* a delayed requeue: "none", "backoff" or "resync"
  worker,      \* the pass in progress
  series,      \* exported keyvault_certificate_not_after_seconds series
  touched,     \* names changed out of band since the controller last read them
  now,         \* the clock, in the whole seconds a status holds
  spent        \* how often each of what a budget allows has happened

vars == <<api, cache, fresh, secret, secretCache, vault, azureUp, queue, timer,
          worker, series, touched, now, spent>>

Steps == {"idle", "finalize", "adopt", "load", "read", "import", "report"}

\* The pass: the copy of the resource it works on, whether that copy still
\* has the current resourceVersion, what it loaded, what the vault showed,
\* the version an import returned, if any, and the Ready reason to report.
Worker == [step : Steps, sync : Syncs \cup {None}, object : SyncObject \cup {None},
           current : BOOLEAN, bundle : Bundle \cup {None},
           target : Names \cup {None}, snap : VaultObject, version : VersionId,
           result : Reasons]

\* Between passes nothing of a pass is remembered.
Idle == [step |-> "idle", sync |-> None, object |-> None, current |-> FALSE,
         bundle |-> None, target |-> None, snap |-> EmptyVaultObject,
         version |-> NoVersion, result |-> "Unset"]

-----------------------------------------------------------------------------
(***************************************************************************)
(* Helpers                                                                 *)
(***************************************************************************)
Spend(kind) ==
  /\ spent' = [spent EXCEPT ![kind] = @ + 1]
  /\ \E budget \in Budgets : \A k \in DOMAIN budget : spent'[k] <= budget[k]

Created(spec) ==
  [exists |-> TRUE, deleting |-> FALSE, finalizer |-> FALSE,
   generation |-> 1, spec |-> spec, status |-> NoStatus]

\* Any write to sync s but the worker's own: every copy of it turns stale.
Overwrite(s, object) ==
  /\ api' = [api EXCEPT ![s] = object]
  /\ fresh' = [fresh EXCEPT ![s] = FALSE]
  /\ worker' = [worker EXCEPT !.current = @ /\ worker.sync # s]

\* The worker's own write to the object it holds: only the cache turns stale.
Store(object) ==
  /\ api' = [api EXCEPT ![worker.sync] = object]
  /\ fresh' = [fresh EXCEPT ![worker.sync] = FALSE]

\* A fault: a completed pass does not ask for the next one.
Requeue_ErrorsOnly(s, delay) ==
  timer' = [timer EXCEPT ![s] = IF @ = "backoff" \/ delay = "backoff" THEN "backoff" ELSE @]

\* A key already waiting keeps the earlier of its two due times.
Requeue(s, delay) ==
  timer' = [timer EXCEPT ![s] = IF @ = "backoff" THEN @ ELSE delay]

\* The pass goes to the status write with this result.
Conclude(reason) ==
  worker' = [worker EXCEPT !.step = "report", !.result = reason]

-----------------------------------------------------------------------------
(***************************************************************************)
(* One pass of Reconcile                                                   *)
(***************************************************************************)
\* Reconcile takes a key and reads the resource from the cache.
Start(s) ==
  /\ worker.step = "idle" /\ s \in queue
  /\ queue' = queue \ {s}
  /\ worker' =
       IF ~cache[s].exists THEN worker
       ELSE [worker EXCEPT
               !.step = IF cache[s].deleting THEN "finalize"
                        ELSE IF cache[s].finalizer THEN "load" ELSE "adopt",
               !.sync = s, !.object = cache[s], !.current = fresh[s]]
  /\ UNCHANGED <<api, cache, fresh, secret, secretCache, vault, azureUp, timer,
                 series, touched, now, spent>>

\* A fault: a conflicting finalizer update is tolerated like a status one.
Adopt_IgnoresConflict ==
  /\ worker.step = "adopt"
  /\ IF api[worker.sync].exists /\ worker.current
       THEN Store([api[worker.sync] EXCEPT !.finalizer = TRUE])
       ELSE UNCHANGED <<api, fresh>>
  /\ worker' = [worker EXCEPT !.step = "load", !.object.finalizer = TRUE]
  /\ UNCHANGED <<cache, secret, secretCache, vault, azureUp, queue, timer,
                 series, touched, now, spent>>

\* AddFinalizer and Update: the API server takes it.
Adopt ==
  /\ worker.step = "adopt" /\ api[worker.sync].exists /\ worker.current
  /\ Store([api[worker.sync] EXCEPT !.finalizer = TRUE])
  /\ worker' = [worker EXCEPT !.step = "load", !.object.finalizer = TRUE]
  /\ UNCHANGED <<cache, secret, secretCache, vault, azureUp, queue, timer,
                 series, touched, now, spent>>

\* A finalizer Update that ends in an error is returned for a backoff: it
\* conflicted, found nothing, or the call failed (and may have been applied).
UpdateRefused == ~(api[worker.sync].exists /\ worker.current)

AdoptFails ==
  /\ worker.step = "adopt"
  /\ \/ UpdateRefused /\ UNCHANGED <<api, fresh, spent>>
     \/ /\ Spend("faults")
        /\ \/ UNCHANGED <<api, fresh>>
           \/ ~UpdateRefused /\ Store([api[worker.sync] EXCEPT !.finalizer = TRUE])
  /\ worker' = Idle
  /\ Requeue(worker.sync, "backoff")
  /\ UNCHANGED <<cache, secret, secretCache, vault, azureUp, queue, series,
                 touched, now>>

\* A fault: a missing Secret is taken for an empty one.
LoadError_IgnoresAbsent(spec, content) ==
  IF ~spec.sound THEN "ConfigInvalid"
  ELSE CASE content.state = "unreadable" -> "VaultError"
         [] content.state = "defective" -> "SourceInvalid"
         [] OTHER -> IF spec.name = None THEN "ConfigInvalid" ELSE "Valid"

\* A fault: the allowlist is not consulted.
LoadError_Unguarded(spec, content) ==
  CASE content.state = "absent" -> "SourceNotFound"
    [] content.state = "unreadable" -> "VaultError"
    [] content.state = "defective" -> "SourceInvalid"
    [] OTHER -> IF TargetName(spec.name, content.bundle) = None
                  THEN "ConfigInvalid" ELSE "Valid"

\* Why the pass cannot get as far as Key Vault, in the order of the checks:
\* VaultURL, the allowlist and the PKCS#12 profile, then SecretSource.Load,
\* then the derivation of the Key Vault name.
LoadError(spec, content) ==
  IF ~spec.sound THEN "ConfigInvalid"
  ELSE CASE content.state = "absent" -> "SourceNotFound"
         [] content.state = "unreadable" -> "VaultError"
         [] content.state = "defective" -> "SourceInvalid"
         [] OTHER -> IF TargetName(spec.name, content.bundle) = None
                       THEN "ConfigInvalid" ELSE "Valid"

\* The source Secret is read from the cache and parsed.
Load ==
  /\ worker.step = "load"
  /\ LET spec == worker.object.spec
         content == secretCache[spec.secret]
         error == LoadError(spec, content)
     IN IF error # "Valid" THEN Conclude(error)
        ELSE worker' = [worker EXCEPT
                          !.step = "read", !.bundle = content.bundle,
                          !.target = TargetName(spec.name, content.bundle)]
  /\ UNCHANGED <<api, cache, fresh, secret, secretCache, vault, azureUp, queue,
                 timer, series, touched, now, spent>>

\* A fault: the disabled warning does not reach the Ready condition.
Outcome_IgnoresDisabled(bundle, snap) == "Synced"

\* What a completed sync reports as Ready.
Outcome(bundle, snap) ==
  IF DecideWarning(bundle, snap) = "DisabledInVault"
    THEN "DisabledInVault" ELSE "Synced"

\* Snapshot answers, and Decide is taken on the answer.
Read ==
  /\ worker.step = "read" /\ azureUp
  /\ LET snap == vault[worker.target]
         validity == Validate(worker.bundle, now)
     IN worker' =
          IF validity # "Valid"
            THEN [worker EXCEPT !.step = "report", !.result = validity]
          ELSE IF DecideAction(worker.bundle, snap) = "Import"
            THEN [worker EXCEPT !.step = "import", !.snap = snap]
          ELSE [worker EXCEPT !.step = "report", !.snap = snap,
                              !.result = Outcome(worker.bundle, snap)]
  /\ touched' = touched \ {worker.target}
  /\ UNCHANGED <<api, cache, fresh, secret, secretCache, vault, azureUp, queue,
                 timer, series, now, spent>>

ReadFails ==
  /\ worker.step = "read" /\ ~azureUp
  /\ Conclude("VaultError")
  /\ UNCHANGED <<api, cache, fresh, secret, secretCache, vault, azureUp, queue,
                 timer, series, touched, now, spent>>

\* The vault mints a new version.
Mint(name, bundle) == vault' = [vault EXCEPT ![name] = ImportedObject(@, bundle)]

\* Import succeeds: a new version, whose identifier comes back.  Key Vault
\* refuses a certificate that has expired, but by a clock of its own, so one
\* that expires on its way there may still be taken.
Import ==
  /\ worker.step = "import" /\ azureUp
  /\ Mint(worker.target, worker.bundle)
  /\ worker' = [worker EXCEPT !.step = "report",
                  !.version = [of |-> worker.target, number |-> vault'[worker.target].version],
                  !.result = Outcome(worker.bundle, worker.snap)]
  /\ UNCHANGED <<api, cache, fresh, secret, secretCache, azureUp, queue, timer,
                 series, touched, now, spent>>

\* Import returns an error: Key Vault refuses what has expired meanwhile, or
\* is out of reach.  When the answer was lost rather than the request, the
\* version exists all the same.
ImportFails ==
  /\ worker.step = "import"
  /\ \/ now > NotAfter[worker.bundle.leaf] /\ UNCHANGED vault
     \/ ~azureUp /\ (UNCHANGED vault \/ Mint(worker.target, worker.bundle))
  /\ Conclude("VaultError")
  /\ UNCHANGED <<api, cache, fresh, secret, secretCache, azureUp, queue, timer,
                 series, touched, now, spent>>

\* applyOutcome on success, setFalse alone on an error.
Succeeded(w) == w.result \in {"Synced", "DisabledInVault"}

\* A fault: the Key Vault name in the status is only ever set once.
ReportedStatus_KeepsName(w) ==
  IF Succeeded(w)
    THEN [name |-> IF w.object.status.name = None THEN w.target ELSE w.object.status.name,
          bundle |-> w.bundle,
          version |-> IF w.version # NoVersion THEN w.version ELSE w.object.status.version,
          ready |-> w.result, observed |-> w.object.generation, syncedAt |-> now]
    ELSE [w.object.status EXCEPT !.ready = w.result]

ReportedStatus(w) ==
  IF Succeeded(w)
    THEN [name |-> w.target, bundle |-> w.bundle,
          version |-> IF w.version # NoVersion THEN w.version ELSE w.object.status.version,
          ready |-> w.result, observed |-> w.object.generation, syncedAt |-> now]
    ELSE [w.object.status EXCEPT !.ready = w.result]

\* applyOutcome drops the series of the previous status name, if it changed.
ReportedSeries(w) ==
  IF Succeeded(w)
    THEN (series \ ({<<w.sync, w.object.status.name>>} \ {<<w.sync, None>>}))
           \cup {<<w.sync, w.target>>}
    ELSE series

\* A fault: the time in the status is finer than the clock, so that no write
\* finds the status as it is.
StoreStatus_AlwaysNew ==
  IF UpdateRefused
    THEN UNCHANGED <<api, fresh>>
    ELSE Store([api[worker.sync] EXCEPT !.status = ReportedStatus(worker)])

\* updateStatus: a conflict or a missing object counts as success; a write
\* that changes nothing leaves the resourceVersion alone.
StoreStatus ==
  IF UpdateRefused \/ api[worker.sync].status = ReportedStatus(worker)
    THEN UNCHANGED <<api, fresh>>
    ELSE Store([api[worker.sync] EXCEPT !.status = ReportedStatus(worker)])

\* applyOutcome copies every SAN into a list the CRD caps at 100 items, and
\* the API server refuses what exceeds it.
Rejected == /\ ~UpdateRefused
            /\ Succeeded(worker) /\ worker.bundle.leaf \in Wide

\* The pass writes its status and asks for the next one: a retryable error
\* is returned and backs off, anything else waits for the resync.
Report ==
  /\ worker.step = "report" /\ ~Rejected
  /\ StoreStatus
  /\ series' = ReportedSeries(worker)
  /\ worker' = Idle
  /\ Requeue(worker.sync, IF Retryable(worker.result) THEN "backoff" ELSE "resync")
  /\ UNCHANGED <<cache, secret, secretCache, vault, azureUp, queue, touched, now,
                 spent>>

\* The status write is refused, or the call fails (applied or not): its
\* error is returned, whatever the pass found.
ReportFails ==
  /\ worker.step = "report"
  /\ \/ Rejected /\ UNCHANGED <<api, fresh, spent>>
     \/ /\ Spend("faults")
        /\ \/ UNCHANGED <<api, fresh>>
           \/ ~Rejected /\ StoreStatus
  /\ series' = ReportedSeries(worker)
  /\ worker' = Idle
  /\ Requeue(worker.sync, "backoff")
  /\ UNCHANGED <<cache, secret, secretCache, vault, azureUp, queue, touched, now>>

\* Removing the only finalizer of a resource being deleted makes it go.
Gone(object) ==
  [exists |-> FALSE, deleting |-> FALSE, finalizer |-> FALSE, generation |-> 0,
   spec |-> object.spec, status |-> NoStatus]

\* A fault: the certificate is read from Key Vault before the release.
Finalize_AsksAzure ==
  /\ worker.step = "finalize" /\ ~UpdateRefused /\ azureUp
  /\ Store(Gone(api[worker.sync]))
  /\ series' = series \ {<<worker.sync, worker.object.status.name>>}
  /\ worker' = Idle
  /\ UNCHANGED <<cache, secret, secretCache, vault, azureUp, queue, timer,
                 touched, now, spent>>

\* finalize: release the resource without touching Azure.
Finalize ==
  /\ worker.step = "finalize" /\ ~UpdateRefused
  /\ Store(Gone(api[worker.sync]))
  /\ series' = series \ {<<worker.sync, worker.object.status.name>>}
  /\ worker' = Idle
  /\ UNCHANGED <<cache, secret, secretCache, vault, azureUp, queue, timer,
                 touched, now, spent>>

FinalizeFails ==
  /\ worker.step = "finalize"
  /\ \/ UpdateRefused /\ UNCHANGED <<api, fresh, spent>>
     \/ /\ Spend("faults")
        /\ \/ UNCHANGED <<api, fresh>>
           \/ ~UpdateRefused /\ Store(Gone(api[worker.sync]))
  /\ worker' = Idle
  /\ Requeue(worker.sync, "backoff")
  /\ UNCHANGED <<cache, secret, secretCache, vault, azureUp, queue, series,
                 touched, now>>

-----------------------------------------------------------------------------
(***************************************************************************)
(* The controller's wake-ups: watch events and delayed requeues            *)
(***************************************************************************)
\* The watch on the resources themselves has no predicate: every event,
\* the operator's own status writes included, enqueues the key.
DeliverSync(s) ==
  /\ ~fresh[s]
  /\ cache' = [cache EXCEPT ![s] = api[s]]
  /\ fresh' = [fresh EXCEPT ![s] = TRUE]
  /\ queue' = queue \cup {s}
  /\ UNCHANGED <<api, secret, secretCache, vault, azureUp, timer, worker, series,
                 touched, now, spent>>

\* A fault: Secret events wake nobody.
SyncsForSecret_None(k) == {}

\* A fault: of several resources that share a Secret, one is woken.
SyncsForSecret_First(k) ==
  LET named == {s \in Syncs : cache[s].exists /\ cache[s].spec.secret = k}
  IN IF named = {} THEN {} ELSE {CHOOSE s \in named : TRUE}

\* syncsForSecret: the cached resources that reference this Secret.
SyncsForSecret(k) == {s \in Syncs : cache[s].exists /\ cache[s].spec.secret = k}

DeliverSecret(k) ==
  /\ secretCache[k] # secret[k]
  /\ secretCache' = [secretCache EXCEPT ![k] = secret[k]]
  /\ queue' = queue \cup SyncsForSecret(k)
  /\ UNCHANGED <<api, cache, fresh, secret, vault, azureUp, timer, worker, series,
                 touched, now, spent>>

\* A delayed requeue comes due.
Fire(s, kind) ==
  /\ timer[s] = kind
  /\ timer' = [timer EXCEPT ![s] = "none"]
  /\ queue' = queue \cup {s}
  /\ UNCHANGED <<api, cache, fresh, secret, secretCache, vault, azureUp, worker,
                 series, touched, now, spent>>

\* The operator stops at any point and starts again: the informers list
\* everything anew, every resource is enqueued, nothing else survives.  An
\* import under way reaches Key Vault or does not.
Restart ==
  /\ Spend("restarts")
  /\ cache' = api /\ secretCache' = secret
  /\ fresh' = [s \in Syncs |-> TRUE]
  /\ queue' = {s \in Syncs : api[s].exists}
  /\ timer' = [s \in Syncs |-> "none"]
  /\ worker' = Idle
  /\ series' = {}
  /\ \/ UNCHANGED vault
     \/ worker.step = "import" /\ Mint(worker.target, worker.bundle)
  /\ UNCHANGED <<api, secret, azureUp, touched, now>>

-----------------------------------------------------------------------------
(***************************************************************************)
(* The environment                                                         *)
(***************************************************************************)
CreateSync(s, spec) ==
  /\ ~api[s].exists
  /\ Spend("edits")
  /\ Overwrite(s, Created(spec))
  /\ UNCHANGED <<cache, secret, secretCache, vault, azureUp, queue, timer, series,
                 touched, now>>

EditSync(s, spec) ==
  /\ api[s].exists /\ api[s].spec # spec
  /\ Spend("edits")
  /\ Overwrite(s, [api[s] EXCEPT !.spec = spec, !.generation = @ + 1])
  /\ UNCHANGED <<cache, secret, secretCache, vault, azureUp, queue, timer, series,
                 touched, now>>

DeleteSync(s) ==
  /\ api[s].exists /\ ~api[s].deleting
  /\ Spend("edits")
  /\ Overwrite(s, IF api[s].finalizer THEN [api[s] EXCEPT !.deleting = TRUE]
                                      ELSE Gone(api[s]))
  /\ UNCHANGED <<cache, secret, secretCache, vault, azureUp, queue, timer, series,
                 touched, now>>

\* cert-manager issues, renews or removes a Secret, or a user spoils it.
WriteSecret(k, content) ==
  /\ secret[k] # content
  /\ Spend("secretWrites")
  /\ secret' = [secret EXCEPT ![k] = content]
  /\ UNCHANGED <<api, cache, fresh, secretCache, vault, azureUp, queue, timer,
                 worker, series, touched, now>>

\* Somebody else deletes, disables or enables a Key Vault certificate, or
\* imports one without the operator's tags.
OutOfBand(n) ==
  {object \in {[vault[n] EXCEPT !.exists = FALSE, !.leaf = None,
                                !.digest = None, !.enabled = FALSE]}
              \cup {[vault[n] EXCEPT !.enabled = vault[n].exists /\ ~@]}
              \cup {[exists |-> TRUE, leaf |-> l, digest |-> None, enabled |-> TRUE,
                     version |-> vault[n].version + 1] : l \in Leaves} :
     object # vault[n]}

WriteVault(n, object) ==
  /\ Spend("vaultWrites")
  /\ vault' = [vault EXCEPT ![n] = object]
  /\ touched' = touched \cup {n}
  /\ UNCHANGED <<api, cache, fresh, secret, secretCache, azureUp, queue, timer,
                 worker, series, now>>

\* Key Vault becomes unreachable, throttles or errs; or recovers.
AzureFlips ==
  /\ AzureMayFail
  /\ azureUp' = ~azureUp
  /\ UNCHANGED <<api, cache, fresh, secret, secretCache, vault, queue, timer,
                 worker, series, touched, now, spent>>

Tick ==
  /\ Spend("ticks")
  /\ now' = now + 1
  /\ UNCHANGED <<api, cache, fresh, secret, secretCache, vault, azureUp, queue,
                 timer, worker, series, touched>>

-----------------------------------------------------------------------------
Init ==
  /\ api \in [Syncs -> {Created(spec) : spec \in UNION {SpecsOf[s] : s \in Syncs}}]
  /\ \A s \in Syncs : api[s].spec \in SpecsOf[s]
  /\ cache = api
  /\ fresh = [s \in Syncs |-> TRUE]
  /\ secret \in [Secrets -> Contents]
  /\ secretCache = secret
  /\ vault = [n \in Names |-> EmptyVaultObject]
  /\ azureUp = TRUE
  /\ queue = Syncs
  /\ timer = [s \in Syncs |-> "none"]
  /\ worker = Idle
  /\ series = {}
  /\ touched = {}
  /\ now = 0
  /\ spent = [edits |-> 0, secretWrites |-> 0, vaultWrites |-> 0,
              restarts |-> 0, faults |-> 0, ticks |-> 0]

\* The pass in progress takes its next step.
Pass == \/ Adopt \/ AdoptFails \/ Load \/ Read \/ ReadFails \/ Import \/ ImportFails
        \/ Report \/ ReportFails \/ Finalize \/ FinalizeFails

Wake == \/ \E s \in Syncs : DeliverSync(s) \/ Fire(s, "backoff") \/ Fire(s, "resync")
        \/ \E k \in Secrets : DeliverSecret(k)

Environment ==
  \/ \E s \in Syncs : DeleteSync(s)
                      \/ \E spec \in SpecsOf[s] : CreateSync(s, spec) \/ EditSync(s, spec)
  \/ \E k \in Secrets, c \in Contents : WriteSecret(k, c)
  \/ \E n \in Names : \E object \in OutOfBand(n) : WriteVault(n, object)
  \/ AzureFlips
  \/ Tick

Next == \/ \E s \in Syncs : Start(s)
        \/ Pass
        \/ Wake
        \/ Restart
        \/ Environment

Safety == Init /\ [][Next]_vars

-----------------------------------------------------------------------------
(***************************************************************************)
(* Fairness.  Calls end (the SDK gives up on them), informers deliver,      *)
(* the queue is first-in first-out so a waiting key is not overtaken for    *)
(* ever, and a backoff comes due.  The resync is kept apart: cluster-side   *)
(* changes must not depend on it.  Nothing is assumed of the environment.   *)
(***************************************************************************)
EventFairness ==
  /\ WF_vars(Pass)
  /\ \A s \in Syncs : /\ SF_vars(Start(s))
                      /\ WF_vars(DeliverSync(s))
                      /\ WF_vars(Fire(s, "backoff"))
  /\ \A k \in Secrets : WF_vars(DeliverSecret(k))

ResyncFairness == \A s \in Syncs : WF_vars(Fire(s, "resync"))

EventSpec == Safety /\ EventFairness

-----------------------------------------------------------------------------
(***************************************************************************)
(* Properties                                                              *)
(***************************************************************************)
\* Every variable keeps its type, a pass in progress has a resource and,
\* once loaded, a bundle and a target, and what is mirrored is a bundle.
TypeOK ==
  /\ api \in [Syncs -> SyncObject] /\ cache \in [Syncs -> SyncObject]
  /\ fresh \in [Syncs -> BOOLEAN]
  /\ secret \in [Secrets -> Contents] /\ secretCache \in [Secrets -> Contents]
  /\ vault \in [Names -> VaultObject]
  /\ azureUp \in BOOLEAN
  /\ queue \subseteq Syncs
  /\ timer \in [Syncs -> {"none", "backoff", "resync"}]
  /\ worker \in Worker
  /\ worker.step # "idle" => worker.sync \in Syncs /\ worker.object \in SyncObject
  /\ worker.step \in {"read", "import"} => worker.bundle \in Bundle /\ worker.target \in Names
  /\ worker.step = "report" /\ Succeeded(worker)
       => worker.bundle \in Bundle /\ worker.target \in Names
  /\ series \subseteq Syncs \X Names
  /\ touched \subseteq Names
  /\ now \in Nat
  /\ spent \in Bounds

\* The finalizer protects every call a pass makes: from the Secret read to
\* the status write, the resource the pass acts for still exists and still
\* carries the finalizer, however stale the copy the pass started from was
\* and whatever users deleted meanwhile (Reconcile adds the finalizer, and
\* must see that write succeed, before it syncs).
PassUnderFinalizer ==
  worker.step \in {"load", "read", "import", "report"}
    => api[worker.sync].exists /\ api[worker.sync].finalizer

\* Decide exists because every import mints a permanent version: when an
\* import is about to be sent, Key Vault does not hold this certificate,
\* unless somebody else changed the object after Snapshot read it.
NoRedundantImport ==
  worker.step = "import" /\ worker.target \notin touched
    => ~Mirrors(vault[worker.target], worker.bundle)

\* Versions are paid for by changes: over a whole history of failed calls,
\* lost answers, restarts and stale caches, no object gets more versions
\* than one plus the changes made to the resources and Secrets, plus two for
\* every out-of-band change (which may itself be a version).
VersionsPaidFor ==
  \A n \in Names : vault[n].version
                     <= 1 + spent.edits + spent.secretWrites + 2 * spent.vaultWrites

\* What the sync of s should have led to, judged at time t: the error its
\* inputs deserve, or its certificate in Key Vault and a status that says so.
Accounted(s, t) ==
  LET spec == api[s].spec
      status == api[s].status
      content == secret[spec.secret]
      target == TargetName(spec.name, content.bundle)
  IN IF LoadError(spec, content) # "Valid"
       THEN status.ready = LoadError(spec, content)
     ELSE IF Validate(content.bundle, t) # "Valid"
       THEN status.ready = Validate(content.bundle, t)
     ELSE /\ Mirrors(vault[target], content.bundle)
          /\ status.name = target
          /\ status.bundle = content.bundle
          /\ status.observed = api[s].generation
          /\ status.ready = IF vault[target].enabled THEN "Synced" ELSE "DisabledInVault"

\* Somebody changed the vault object of s since the controller last looked.
Drifted(s) ==
  LET content == secret[api[s].spec.secret]
  IN content.state = "bundle" /\ TargetName(api[s].spec.name, content.bundle) \in touched

\* Nothing the controller has been told of, or will be told of without a
\* further change, is left to do for s except the periodic resync.
Quiet(s) ==
  /\ s \notin queue /\ worker.sync # s /\ timer[s] # "backoff" /\ fresh[s]
  /\ secretCache[api[s].spec.secret] = secret[api[s].spec.secret]

\* No wake-up is lost.  Swallowed status conflicts, keys re-queued while a
\* pass runs, coalesced events and failed writes may delay a resource, but
\* once nothing is pending for it, either its deletion is complete or it is
\* accounted for as of some moment up to now (drift in the vault aside).
NoLostWakeup ==
  \A s \in Syncs : Quiet(s) /\ api[s].exists
    => /\ ~api[s].deleting /\ api[s].finalizer
       /\ Drifted(s) \/ \E t \in 0..now : Accounted(s, t)

\* The status never claims what is not so: when a pass reports Ready, the
\* vault holds exactly that certificate, enabled, under exactly that name,
\* unless somebody else changed it since the pass looked.
StatusTruthful ==
  [][\A s \in Syncs :
       /\ api'[s].status # api[s].status
       /\ api'[s].status.ready = "Synced"
       /\ api'[s].status.name \notin touched
       => /\ Mirrors(vault[api'[s].status.name], api'[s].status.bundle)
          /\ vault[api'[s].status.name].enabled]_vars

\* Once Key Vault stays reachable and the environment has stopped changing
\* things (its bounds make it stop), every resource is settled for good.
\* Watch events and backoffs alone must get there after any change in the
\* cluster, as of some moment up to now: what raises no event, drift in the
\* vault and a certificate that expires, may have to wait for the resync.
Settled(s, t) ==
  api[s].exists => ~api[s].deleting /\ api[s].finalizer /\ Accounted(s, t)
Converges ==
  <>[]azureUp =>
    <>[](\A s \in Syncs : Drifted(s) \/ \E t \in 0..now : Settled(s, t))

\* With the resync, drift applied to Key Vault out of band is repaired too,
\* also when it is applied between Snapshot and Import, and a certificate that
\* has expired since it was synced, or on its way, is reported as expired.
DriftRepaired ==
  ResyncFairness /\ <>[]azureUp => <>[](\A s \in Syncs : Settled(s, now))

\* The controller comes to rest until the next resync.
Rests == /\ worker.step = "idle" /\ queue = {}
         /\ \A s \in Syncs : fresh[s] /\ timer[s] # "backoff"
NoResync == [][\A s \in Syncs : ~Fire(s, "resync")]_vars
ClockStops == [][~Tick]_vars

\* Nothing spins.  For() has no predicate and every success stamps the time,
\* so a pass that ends in another second than the one before wakes the next;
\* one that finds the status as it is does not.  Once the clock stands still,
\* Key Vault stays reachable, no resync comes due and no Secret is left in a
\* state that Load cannot classify, the passes, the events of their own
\* status writes and the backoffs run out: the controller does not keep
\* itself awake.
EventsRunDry ==
  /\ <>[]azureUp /\ <>NoResync /\ <>ClockStops
  /\ <>[](\A k \in Secrets : secret[k].state # "unreadable")
  => <>[]Rests

\* finalize releases a deleted resource whatever Key Vault does: nothing is
\* assumed of azureUp.
DeletionCompletes ==
  \A s \in Syncs : api[s].exists /\ api[s].deleting ~> ~(api[s].exists /\ api[s].deleting)

-----------------------------------------------------------------------------
(***************************************************************************)
(* Claims of the documentation and comments that the code does not keep.   *)
(* Each is refuted by a run of its own.                                     *)
(***************************************************************************)
\* "VaultCertificateVersion is the version created by the most recent
\* import": once s is quiet and in sync, and nobody else wrote the vault.
VersionIsMostRecent ==
  \A s \in Syncs :
    Quiet(s) /\ api[s].exists /\ api[s].status.ready = "Synced" /\ spent.vaultWrites = 0
      => LET n == api[s].status.name
         IN api[s].status.version = [of |-> n, number |-> vault[n].version]

\* "ObservedGeneration is the .metadata.generation this status was computed
\* from": whenever a pass writes a status, error paths included.
ObservedGenerationIsCurrent ==
  [][\A s \in Syncs : api'[s].exists /\ api[s].exists /\ api'[s].status # api[s].status
       => api'[s].status.observed = worker.object.generation]_vars

\* A rename must not "leave the old series exported forever": once s is
\* quiet, every expiry series of it is that of its current name.
SeriesFollowName ==
  \A s \in Syncs, n \in Names :
    Quiet(s) /\ api[s].exists /\ <<s, n>> \in series => n = api[s].status.name

\* "DNSNames are the subject alternative names on the synced certificate":
\* what has been imported is eventually reported, whatever its names.
ImportsAreReported ==
  \A s \in Syncs : vault[api[s].spec.name].exists ~> api[s].status.bundle # None

\* Errors that describe the data would, retried with a backoff, "spin the
\* queue"; they wait for the resync instead: while Key Vault and the API
\* server answer, no content of a Secret keeps the controller awake.
DataErrorsWait == <>[]azureUp /\ <>NoResync => <>[]Rests

\* "importing only when something has actually changed": an object gets one
\* version for each resource there is at the start and one for each later
\* change (two for a change made in the vault).
ImportsFollowChanges ==
  \A n \in Names : vault[n].version
                     <= Cardinality(Syncs) + spent.edits + spent.secretWrites
                        + 2 * spent.vaultWrites

=============================================================================
