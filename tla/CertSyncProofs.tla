--------------------------- MODULE CertSyncProofs ---------------------------
(***************************************************************************)
(* Theorems about CertSync, for every value of its constants.  Of every    *)
(* state: its type.  Of one pass: that it acts only for a resource under    *)
(* the finalizer, that it imports only what the vault does not hold, and    *)
(* that it reports only what the vault holds.  Of a whole history: that the *)
(* vault's versions are paid for by changes, and that no wake-up is lost.   *)
(***************************************************************************)
EXTENDS CertSync, FiniteSetTheorems, TLAPS

-----------------------------------------------------------------------------
(***************************************************************************)
(* What the helpers build has the type of what it replaces.                *)
(***************************************************************************)
\* An empty status, a created and a released resource are well typed.
LEMMA CreatedType ==
  /\ NoStatus \in Status
  /\ \A spec \in Spec : Created(spec) \in SyncObject
  /\ \A o \in SyncObject : Gone(o) \in SyncObject
<1>1. NoStatus \in Status
  BY DEF NoStatus, Status, Reasons, VersionId, NoVersion
<1>2. \A spec \in Spec : Created(spec) \in SyncObject
  BY <1>1 DEF Created, SyncObject
<1>3. \A o \in SyncObject : Gone(o) \in SyncObject
  BY <1>1 DEF Gone, SyncObject
<1> QED
  BY <1>1, <1>2, <1>3

\* Users and the controller change one part of a resource at a time.
LEMMA UpdatedType ==
  ASSUME NEW o \in SyncObject
  PROVE  /\ \A st \in Status : [o EXCEPT !.status = st] \in SyncObject
         /\ [o EXCEPT !.finalizer = TRUE] \in SyncObject
         /\ [o EXCEPT !.deleting = TRUE] \in SyncObject
         /\ \A spec \in Spec : [o EXCEPT !.spec = spec, !.generation = @ + 1] \in SyncObject
<1>1. \A st \in Status : [o EXCEPT !.status = st] \in SyncObject
  BY DEF SyncObject
<1>2. [o EXCEPT !.finalizer = TRUE] \in SyncObject
  BY DEF SyncObject
<1>3. [o EXCEPT !.deleting = TRUE] \in SyncObject
  BY DEF SyncObject
<1>4. \A spec \in Spec : [o EXCEPT !.spec = spec, !.generation = @ + 1] \in SyncObject
  <2>1. o.generation \in Nat
    BY DEF SyncObject
  <2>2. o.generation + 1 \in Nat
    BY <2>1
  <2> QED
    BY <2>2 DEF SyncObject
<1> QED
  BY <1>1, <1>2, <1>3, <1>4

\* Nothing is remembered between passes, in a well-typed way.
LEMMA IdleType == Idle \in Worker
<1>1. EmptyVaultObject \in VaultObject
  BY DEF EmptyVaultObject, VaultObject
<1> QED
  BY <1>1 DEF Idle, Worker, Steps, Reasons, VersionId, NoVersion

\* An import leaves a well-typed object with a real version number.
LEMMA ImportedType ==
  ASSUME NEW o \in VaultObject, NEW b \in Bundle
  PROVE  ImportedObject(o, b) \in VaultObject
<1>1. b.leaf \in Leaves
  BY DEF Bundle
<1> QED
  BY <1>1 DEF ImportedObject, VaultObject

\* A reported status is well typed: what succeeded has a bundle and a name.
LEMMA ReportedType ==
  ASSUME TypeOK, worker.step = "report"
  PROVE  ReportedStatus(worker) \in Status
<1>1. worker.object.status \in Status
  BY DEF TypeOK, SyncObject
<1>2. worker.object.generation \in Nat /\ worker.version \in VersionId /\ worker.result \in Reasons
  BY DEF TypeOK, SyncObject, Worker
<1>3. CASE Succeeded(worker)
  <2>1. worker.bundle \in Bundle /\ worker.target \in Names /\ now \in Nat
    BY <1>3 DEF TypeOK
  <2> QED
    BY <1>1, <1>2, <1>3, <2>1 DEF ReportedStatus, Status
<1>4. CASE ~Succeeded(worker)
  BY <1>1, <1>2, <1>4 DEF ReportedStatus, Status
<1> QED
  BY <1>3, <1>4

\* Writes, requeues and spending keep the types of what they update.
LEMMA StoreType ==
  ASSUME TypeOK, NEW object \in SyncObject, Store(object)
  PROVE  api' \in [Syncs -> SyncObject] /\ fresh' \in [Syncs -> BOOLEAN]
  BY DEF Store, TypeOK

LEMMA OverwriteType ==
  ASSUME TypeOK, NEW s \in Syncs, NEW object \in SyncObject, Overwrite(s, object)
  PROVE  /\ api' \in [Syncs -> SyncObject] /\ fresh' \in [Syncs -> BOOLEAN]
         /\ worker' \in Worker
         /\ worker'.step = worker.step /\ worker'.sync = worker.sync
         /\ worker'.object = worker.object /\ worker'.bundle = worker.bundle
         /\ worker'.target = worker.target /\ worker'.result = worker.result
  BY DEF Overwrite, Worker, TypeOK

LEMMA RequeueType ==
  ASSUME TypeOK, NEW s, NEW delay \in {"backoff", "resync"}, Requeue(s, delay)
  PROVE  timer' \in [Syncs -> {"none", "backoff", "resync"}]
  BY DEF Requeue, TypeOK

LEMMA SpendType ==
  ASSUME TypeOK,
         NEW k \in {"edits", "secretWrites", "vaultWrites", "restarts", "faults", "ticks"},
         Spend(k)
  PROVE  spent' \in Bounds
  BY DEF Spend, Bounds, TypeOK

\* The errors of the load are reasons, and none of them is a success; what
\* loads without one is a bundle with a name to import it under.
LEMMA LoadErrorType ==
  ASSUME NEW spec \in Spec, NEW content \in Contents
  PROVE  /\ LoadError(spec, content)
              \in {"ConfigInvalid", "SourceNotFound", "VaultError", "SourceInvalid", "Valid"}
         /\ LoadError(spec, content) = "Valid"
              => content.bundle \in Bundle /\ TargetName(spec.name, content.bundle) \in Names
<1>1. content.state \in {"absent", "defective", "unreadable", "bundle"}
      /\ content.bundle \in Bundle \cup {None}
  BY ContentsAssumption DEF Secret
<1>2. content.state = "bundle" => content.bundle \in Bundle
  BY <1>1, WellFormedContents
<1>3. spec.name \in Names \cup {None} /\ spec.sound \in BOOLEAN
  BY DEF Spec
<1>4. \A b \in Bundle : DerivedName[b.leaf] \in Names \cup {None}
  BY DerivedNameAssumption DEF Bundle
<1>5. content.state = "bundle" => TargetName(spec.name, content.bundle) \in Names \cup {None}
  BY <1>2, <1>3, <1>4 DEF TargetName
<1> QED
  BY <1>1, <1>2, <1>3, <1>5 DEF LoadError

\* Decide's verdict on validity is a reason or none.
LEMMA ValidateType ==
  \A b, t : Validate(b, t) \in {"CertificateExpired", "SourceInvalid", "Valid"}
  BY DEF Validate

LEMMA OutcomeType ==
  \A b, snap : Outcome(b, snap) \in {"Synced", "DisabledInVault"}
  BY DEF Outcome

-----------------------------------------------------------------------------
(***************************************************************************)
(* Type correctness                                                        *)
(***************************************************************************)
LEMMA TypeInit == Init => TypeOK
<1> SUFFICES ASSUME Init PROVE TypeOK
  OBVIOUS
<1>1. api \in [Syncs -> SyncObject]
  <2>1. \A s \in Syncs : SpecsOf[s] \subseteq Spec
    BY SpecsAssumption
  <2>2. \A s \in Syncs : \E spec \in Spec : api[s] = Created(spec)
    BY <2>1 DEF Init
  <2>3. \A s \in Syncs : api[s] \in SyncObject
    BY <2>2, CreatedType
  <2> QED
    BY <2>3 DEF Init
<1>2. vault \in [Names -> VaultObject]
  BY DEF Init, EmptyVaultObject, VaultObject
<1>3. worker \in Worker /\ worker.step = "idle"
  BY IdleType DEF Init, Idle
<1>4. spent \in Bounds
  BY DEF Init, Bounds
<1> QED
  BY <1>1, <1>2, <1>3, <1>4 DEF Init, TypeOK

LEMMA TypeStart ==
  ASSUME TypeOK, NEW s \in Syncs, Start(s)
  PROVE  TypeOK'
<1>1. cache[s] \in SyncObject /\ fresh[s] \in BOOLEAN
  BY DEF TypeOK
<1>2. worker' \in Worker
  BY <1>1 DEF Start, TypeOK, Worker, Steps
<1>3. /\ worker'.step # "idle" => worker'.sync \in Syncs /\ worker'.object \in SyncObject
      /\ worker'.step \notin {"read", "import", "report"}
  BY <1>1 DEF Start, TypeOK, Worker
<1> QED
  BY <1>2, <1>3 DEF Start, TypeOK

LEMMA TypeAdopt ==
  ASSUME TypeOK, Adopt
  PROVE  TypeOK'
<1>1. worker.sync \in Syncs /\ worker.object \in SyncObject /\ api[worker.sync] \in SyncObject
  BY DEF TypeOK, Adopt
<1>2. api' \in [Syncs -> SyncObject] /\ fresh' \in [Syncs -> BOOLEAN]
  BY <1>1, UpdatedType, StoreType DEF Adopt
<1>3. [worker.object EXCEPT !.finalizer = TRUE] \in SyncObject
  BY <1>1, UpdatedType
<1>4. worker' = [worker EXCEPT !.step = "load",
                              !.object = [worker.object EXCEPT !.finalizer = TRUE]]
  BY DEF Adopt
<1>5. worker' \in Worker /\ worker'.step = "load"
      /\ worker'.sync \in Syncs /\ worker'.object \in SyncObject
  BY <1>1, <1>3, <1>4 DEF TypeOK, Worker, Steps
<1> QED
  BY <1>2, <1>5 DEF Adopt, TypeOK

\* Passes that end: whatever was stored is a resource, and the worker is idle.
LEMMA TypeAdoptFails ==
  ASSUME TypeOK, AdoptFails
  PROVE  TypeOK'
<1>1. worker.sync \in Syncs /\ api[worker.sync] \in SyncObject
  BY DEF TypeOK, AdoptFails
<1>2. api' \in [Syncs -> SyncObject] /\ fresh' \in [Syncs -> BOOLEAN]
  BY <1>1, UpdatedType, StoreType DEF AdoptFails, TypeOK
<1>3. spent' \in Bounds
  BY SpendType DEF AdoptFails, TypeOK
<1>4. timer' \in [Syncs -> {"none", "backoff", "resync"}]
  BY RequeueType DEF AdoptFails
<1>5. worker' \in Worker /\ worker'.step = "idle"
  BY IdleType DEF AdoptFails, Idle
<1> QED
  BY <1>2, <1>3, <1>4, <1>5 DEF AdoptFails, TypeOK

LEMMA TypeLoad ==
  ASSUME TypeOK, Load
  PROVE  TypeOK'
<1> DEFINE spec == worker.object.spec
           content == secretCache[spec.secret]
           error == LoadError(spec, content)
<1>1. worker.sync \in Syncs /\ worker.object \in SyncObject
  BY DEF TypeOK, Load
<1>2. spec \in Spec
  BY <1>1 DEF SyncObject
<1>3. content \in Contents
  BY <1>2 DEF TypeOK, Spec
<1>4. CASE error # "Valid"
  <2>1. worker' = [worker EXCEPT !.step = "report", !.result = error]
    BY <1>4 DEF Load, Conclude
  <2>2. error \in {"ConfigInvalid", "SourceNotFound", "VaultError", "SourceInvalid"}
    BY <1>2, <1>3, <1>4, LoadErrorType
  <2>3. worker' \in Worker /\ worker'.step = "report" /\ worker'.sync = worker.sync
        /\ worker'.object = worker.object /\ ~Succeeded(worker')
    BY <2>1, <2>2 DEF TypeOK, Worker, Steps, Reasons, Succeeded
  <2> QED
    BY <1>1, <2>3 DEF Load, TypeOK, Succeeded
<1>5. CASE error = "Valid"
  <2>1. worker' = [worker EXCEPT !.step = "read", !.bundle = content.bundle,
                                !.target = TargetName(spec.name, content.bundle)]
    BY <1>5 DEF Load
  <2>2. content.bundle \in Bundle /\ TargetName(spec.name, content.bundle) \in Names
    BY <1>2, <1>3, <1>5, LoadErrorType
  <2>3. worker' \in Worker /\ worker'.step = "read" /\ worker'.sync = worker.sync
        /\ worker'.object = worker.object
        /\ worker'.bundle \in Bundle /\ worker'.target \in Names
    BY <2>1, <2>2 DEF TypeOK, Worker, Steps
  <2> QED
    BY <1>1, <2>3 DEF Load, TypeOK
<1> QED
  BY <1>4, <1>5

\* A read keeps the bundle and the target the pass loaded.
LEMMA ReadShape ==
  ASSUME TypeOK, Read
  PROVE  /\ worker' \in Worker /\ worker'.step \in {"import", "report"}
         /\ worker'.sync = worker.sync /\ worker'.object = worker.object
         /\ worker'.bundle = worker.bundle /\ worker'.target = worker.target
         /\ worker'.step = "import" =>
              /\ worker'.snap = vault[worker.target]
              /\ DecideAction(worker.bundle, vault[worker.target]) = "Import"
<1> DEFINE snap == vault[worker.target]
           validity == Validate(worker.bundle, now)
<1>1. worker.target \in Names /\ snap \in VaultObject
  BY DEF TypeOK, Read
<1>2. CASE validity # "Valid"
  <2>1. worker' = [worker EXCEPT !.step = "report", !.result = validity]
    BY <1>2 DEF Read
  <2>2. validity \in Reasons
    BY <1>2, ValidateType DEF Reasons
  <2> QED
    BY <2>1, <2>2 DEF TypeOK, Worker, Steps
<1>3. CASE validity = "Valid" /\ DecideAction(worker.bundle, snap) = "Import"
  <2>1. worker' = [worker EXCEPT !.step = "import", !.snap = snap]
    BY <1>3 DEF Read
  <2> QED
    BY <1>1, <1>3, <2>1 DEF TypeOK, Worker, Steps
<1>4. CASE validity = "Valid" /\ DecideAction(worker.bundle, snap) # "Import"
  <2>1. worker' = [worker EXCEPT !.step = "report", !.snap = snap,
                                !.result = Outcome(worker.bundle, snap)]
    BY <1>4 DEF Read
  <2>2. Outcome(worker.bundle, snap) \in Reasons
    BY OutcomeType DEF Reasons
  <2> QED
    BY <1>1, <2>1, <2>2 DEF TypeOK, Worker, Steps
<1> QED
  BY <1>2, <1>3, <1>4

LEMMA TypeRead ==
  ASSUME TypeOK, Read
  PROVE  TypeOK'
<1>1. worker.bundle \in Bundle /\ worker.target \in Names
      /\ worker.sync \in Syncs /\ worker.object \in SyncObject
  BY DEF TypeOK, Read
<1> QED
  BY <1>1, ReadShape DEF Read, TypeOK

\* An error concludes a pass that has already loaded its bundle.
LEMMA ConcludeVaultError ==
  ASSUME TypeOK, Conclude("VaultError"), worker.step # "idle"
  PROVE  /\ worker' \in Worker /\ worker'.step = "report" /\ ~Succeeded(worker')
         /\ worker'.sync \in Syncs /\ worker'.object \in SyncObject
         /\ worker'.sync = worker.sync /\ worker'.object = worker.object
  BY DEF TypeOK, Conclude, Worker, Steps, Reasons, Succeeded

LEMMA TypeReadFails ==
  ASSUME TypeOK, ReadFails
  PROVE  TypeOK'
<1>1. worker.step # "idle" /\ Conclude("VaultError")
  BY DEF ReadFails
<1> QED
  BY <1>1, ConcludeVaultError DEF ReadFails, TypeOK, Succeeded

LEMMA MintType ==
  ASSUME TypeOK, NEW n \in Names, NEW b \in Bundle, Mint(n, b)
  PROVE  vault' \in [Names -> VaultObject] /\ vault'[n] = ImportedObject(vault[n], b)
<1>1. ImportedObject(vault[n], b) \in VaultObject
  BY ImportedType DEF TypeOK
<1> QED
  BY <1>1 DEF Mint, TypeOK

LEMMA TypeImport ==
  ASSUME TypeOK, Import
  PROVE  TypeOK'
<1>1. worker.bundle \in Bundle /\ worker.target \in Names
      /\ worker.sync \in Syncs /\ worker.object \in SyncObject
  BY DEF TypeOK, Import
<1>2. vault' \in [Names -> VaultObject]
  BY <1>1, MintType DEF Import
<1>3. vault'[worker.target].version \in Nat
  BY <1>1, <1>2 DEF VaultObject
<1>4. Outcome(worker.bundle, worker.snap) \in Reasons
  BY OutcomeType DEF Reasons
<1>5. worker' \in Worker /\ worker'.step = "report"
      /\ worker'.sync = worker.sync /\ worker'.object = worker.object
      /\ worker'.bundle = worker.bundle /\ worker'.target = worker.target
  BY <1>1, <1>3, <1>4 DEF Import, TypeOK, Worker, Steps, VersionId
<1> QED
  BY <1>1, <1>2, <1>5 DEF Import, TypeOK

LEMMA TypeImportFails ==
  ASSUME TypeOK, ImportFails
  PROVE  TypeOK'
<1>1. worker.bundle \in Bundle /\ worker.target \in Names /\ worker.step # "idle"
  BY DEF TypeOK, ImportFails
<1>2. vault' \in [Names -> VaultObject]
  BY <1>1, MintType DEF ImportFails, TypeOK
<1>3. Conclude("VaultError")
  BY DEF ImportFails
<1> QED
  BY <1>1, <1>2, <1>3, ConcludeVaultError DEF ImportFails, TypeOK, Succeeded

\* The status write stores a well-typed status, or nothing.
LEMMA StoreStatusType ==
  ASSUME TypeOK, worker.step = "report", StoreStatus
  PROVE  api' \in [Syncs -> SyncObject] /\ fresh' \in [Syncs -> BOOLEAN]
<1>1. worker.sync \in Syncs /\ api[worker.sync] \in SyncObject
  BY DEF TypeOK
<1>2. [api[worker.sync] EXCEPT !.status = ReportedStatus(worker)] \in SyncObject
  BY <1>1, ReportedType, UpdatedType
<1> QED
  BY <1>2, StoreType DEF StoreStatus, TypeOK

\* The exported series belong to resources and name Key Vault objects.
LEMMA ReportedSeriesType ==
  ASSUME TypeOK, worker.step = "report"
  PROVE  ReportedSeries(worker) \subseteq Syncs \X Names
<1>1. worker.sync \in Syncs
  BY DEF TypeOK
<1>2. Succeeded(worker) => worker.target \in Names
  BY DEF TypeOK
<1>3. series \subseteq Syncs \X Names
  BY DEF TypeOK
<1> QED
  BY <1>1, <1>2, <1>3 DEF ReportedSeries

LEMMA TypeReport ==
  ASSUME TypeOK, Report
  PROVE  TypeOK'
<1>1. api' \in [Syncs -> SyncObject] /\ fresh' \in [Syncs -> BOOLEAN]
  BY StoreStatusType DEF Report
<1>2. series' \subseteq Syncs \X Names
  BY ReportedSeriesType DEF Report
<1>3. timer' \in [Syncs -> {"none", "backoff", "resync"}]
  BY RequeueType DEF Report
<1>4. worker' \in Worker /\ worker'.step = "idle"
  BY IdleType DEF Report, Idle
<1> QED
  BY <1>1, <1>2, <1>3, <1>4 DEF Report, TypeOK

LEMMA TypeReportFails ==
  ASSUME TypeOK, ReportFails
  PROVE  TypeOK'
<1>1. api' \in [Syncs -> SyncObject] /\ fresh' \in [Syncs -> BOOLEAN]
  BY StoreStatusType DEF ReportFails, TypeOK
<1>2. series' \subseteq Syncs \X Names
  BY ReportedSeriesType DEF ReportFails
<1>3. timer' \in [Syncs -> {"none", "backoff", "resync"}]
  BY RequeueType DEF ReportFails
<1>4. worker' \in Worker /\ worker'.step = "idle"
  BY IdleType DEF ReportFails, Idle
<1>5. spent' \in Bounds
  BY SpendType DEF ReportFails, TypeOK
<1> QED
  BY <1>1, <1>2, <1>3, <1>4, <1>5 DEF ReportFails, TypeOK

LEMMA TypeFinalize ==
  ASSUME TypeOK, Finalize
  PROVE  TypeOK'
<1>1. worker.sync \in Syncs /\ Gone(api[worker.sync]) \in SyncObject
  BY CreatedType DEF TypeOK, Finalize
<1>2. api' \in [Syncs -> SyncObject] /\ fresh' \in [Syncs -> BOOLEAN]
  BY <1>1, StoreType DEF Finalize
<1>3. worker' \in Worker /\ worker'.step = "idle"
  BY IdleType DEF Finalize, Idle
<1> QED
  BY <1>2, <1>3 DEF Finalize, TypeOK

LEMMA TypeFinalizeFails ==
  ASSUME TypeOK, FinalizeFails
  PROVE  TypeOK'
<1>1. worker.sync \in Syncs /\ Gone(api[worker.sync]) \in SyncObject
  BY CreatedType DEF TypeOK, FinalizeFails
<1>2. api' \in [Syncs -> SyncObject] /\ fresh' \in [Syncs -> BOOLEAN]
  BY <1>1, StoreType DEF FinalizeFails, TypeOK
<1>3. spent' \in Bounds
  BY SpendType DEF FinalizeFails, TypeOK
<1>4. timer' \in [Syncs -> {"none", "backoff", "resync"}]
  BY RequeueType DEF FinalizeFails
<1>5. worker' \in Worker /\ worker'.step = "idle"
  BY IdleType DEF FinalizeFails, Idle
<1> QED
  BY <1>2, <1>3, <1>4, <1>5 DEF FinalizeFails, TypeOK

\* The wake-ups and a restart move copies, keys and timers about.
LEMMA TypeWake ==
  ASSUME TypeOK, Wake
  PROVE  TypeOK'
<1>1. ASSUME NEW s \in Syncs, DeliverSync(s) PROVE TypeOK'
  BY <1>1 DEF DeliverSync, TypeOK
<1>2. ASSUME NEW s \in Syncs, NEW kind, Fire(s, kind) PROVE TypeOK'
  BY <1>2 DEF Fire, TypeOK
<1>3. ASSUME NEW k \in Secrets, DeliverSecret(k) PROVE TypeOK'
  <2>1. SyncsForSecret(k) \subseteq Syncs
    BY DEF SyncsForSecret
  <2> QED
    BY <1>3, <2>1 DEF DeliverSecret, TypeOK
<1> QED
  BY <1>1, <1>2, <1>3 DEF Wake

LEMMA TypeRestart ==
  ASSUME TypeOK, Restart
  PROVE  TypeOK'
<1>1. vault' \in [Names -> VaultObject]
  <2>1. CASE UNCHANGED vault
    BY <2>1 DEF TypeOK
  <2>2. CASE worker.step = "import" /\ Mint(worker.target, worker.bundle)
    BY <2>2, MintType DEF TypeOK
  <2> QED
    BY <2>1, <2>2 DEF Restart
<1>2. worker' \in Worker /\ worker'.step = "idle"
  BY IdleType DEF Restart, Idle
<1>3. spent' \in Bounds
  BY SpendType DEF Restart
<1> QED
  BY <1>1, <1>2, <1>3 DEF Restart, TypeOK

\* A user's write replaces a resource by a resource.
LEMMA TypeOverwrite ==
  ASSUME TypeOK, NEW s \in Syncs, NEW object \in SyncObject, Overwrite(s, object),
         Spend("edits"),
         UNCHANGED <<cache, secret, secretCache, vault, azureUp, queue, timer, series,
                     touched, now>>
  PROVE  TypeOK'
<1>1. spent' \in Bounds
  BY SpendType
<1> QED
  BY <1>1, OverwriteType DEF TypeOK, Succeeded

\* What somebody else makes of a Key Vault certificate is one.
LEMMA OutOfBandType ==
  ASSUME NEW n \in Names, vault \in [Names -> VaultObject]
  PROVE  OutOfBand(n) \subseteq VaultObject
<1>1. vault[n] \in VaultObject /\ vault[n].version + 1 \in Nat
  BY DEF VaultObject
<1>2. [vault[n] EXCEPT !.exists = FALSE, !.leaf = None, !.digest = None,
                       !.enabled = FALSE] \in VaultObject
  BY <1>1 DEF VaultObject
<1>3. [vault[n] EXCEPT !.enabled = vault[n].exists /\ ~@] \in VaultObject
  BY <1>1 DEF VaultObject
<1>4. \A l \in Leaves : [exists |-> TRUE, leaf |-> l, digest |-> None, enabled |-> TRUE,
                         version |-> vault[n].version + 1] \in VaultObject
  BY <1>1 DEF VaultObject
<1> QED
  BY <1>2, <1>3, <1>4 DEF OutOfBand

LEMMA TypeEnvironment ==
  ASSUME TypeOK, Environment
  PROVE  TypeOK'
<1>1. ASSUME NEW s \in Syncs, DeleteSync(s) PROVE TypeOK'
  <2>1. api[s] \in SyncObject
    BY DEF TypeOK
  <2>2. (IF api[s].finalizer THEN [api[s] EXCEPT !.deleting = TRUE] ELSE Gone(api[s]))
          \in SyncObject
    BY <2>1, CreatedType, UpdatedType
  <2> QED
    BY <1>1, <2>2, TypeOverwrite DEF DeleteSync
<1>2. ASSUME NEW s \in Syncs, NEW spec \in SpecsOf[s], CreateSync(s, spec) \/ EditSync(s, spec)
      PROVE  TypeOK'
  <2>1. spec \in Spec /\ api[s] \in SyncObject
    BY SpecsAssumption DEF TypeOK
  <2>2. Created(spec) \in SyncObject
        /\ [api[s] EXCEPT !.spec = spec, !.generation = @ + 1] \in SyncObject
    BY <2>1, CreatedType, UpdatedType
  <2> QED
    BY <1>2, <2>2, TypeOverwrite DEF CreateSync, EditSync
<1>3. ASSUME NEW k \in Secrets, NEW c \in Contents, WriteSecret(k, c) PROVE TypeOK'
  <2>1. spent' \in Bounds
    BY <1>3, SpendType DEF WriteSecret
  <2> QED
    BY <1>3, <2>1 DEF WriteSecret, TypeOK
<1>4. ASSUME NEW n \in Names, NEW object \in OutOfBand(n), WriteVault(n, object) PROVE TypeOK'
  <2>1. object \in VaultObject
    BY OutOfBandType DEF TypeOK
  <2>2. spent' \in Bounds
    BY <1>4, SpendType DEF WriteVault
  <2> QED
    BY <1>4, <2>1, <2>2 DEF WriteVault, TypeOK
<1>5. CASE AzureFlips
  BY <1>5 DEF AzureFlips, TypeOK
<1>6. CASE Tick
  <2>1. now' \in Nat
    BY <1>6 DEF Tick, TypeOK
  <2>2. spent' \in Bounds
    BY <1>6, SpendType DEF Tick
  <2> QED
    BY <1>6, <2>1, <2>2 DEF Tick, TypeOK
<1> QED
  BY <1>1, <1>2, <1>3, <1>4, <1>5, <1>6 DEF Environment

LEMMA TypeNext == TypeOK /\ [Next]_vars => TypeOK'
<1> SUFFICES ASSUME TypeOK, [Next]_vars PROVE TypeOK'
  OBVIOUS
<1>1. ASSUME NEW s \in Syncs, Start(s) PROVE TypeOK'
  BY <1>1, TypeStart
<1>2. CASE Pass
  BY <1>2, TypeAdopt, TypeAdoptFails, TypeLoad, TypeRead, TypeReadFails, TypeImport,
     TypeImportFails, TypeReport, TypeReportFails, TypeFinalize, TypeFinalizeFails
     DEF Pass
<1>3. CASE Wake
  BY <1>3, TypeWake
<1>4. CASE Restart
  BY <1>4, TypeRestart
<1>5. CASE Environment
  BY <1>5, TypeEnvironment
<1>6. CASE UNCHANGED vars
  BY <1>6 DEF vars, TypeOK, Succeeded
<1> QED
  BY <1>1, <1>2, <1>3, <1>4, <1>5, <1>6 DEF Next

\* Type correctness of the controller and everything around it: in
\* particular, a pass never gets to Key Vault without a parsed bundle and a
\* name to put it under (Syncer.Sync, whatever the Secret and the spec hold).
THEOREM TypeCorrect == Safety => []TypeOK
<1> QED
  BY TypeInit, TypeNext, PTL DEF Safety

-----------------------------------------------------------------------------
\* Which steps leave what alone: the frame of each group of properties.
LEMMA PassSteps ==
  ASSUME Pass
  PROVE  worker.step # "idle"
  BY DEF Pass, Adopt, AdoptFails, Load, Read, ReadFails, Import, ImportFails,
     Report, ReportFails, Finalize, FinalizeFails

-----------------------------------------------------------------------------
(***************************************************************************)
(* Under the finalizer                                                     *)
(*                                                                         *)
(* A pass decides from a copy that may be stale, so the property needs to   *)
(* know what a stale copy is still good for.  A copy that shows the         *)
(* finalizer and no deletion proves the resource is still there: it can     *)
(* only go by way of a pass of this worker that saw the deletion, and the   *)
(* cache cannot fall back behind what that pass read.                       *)
(***************************************************************************)
\* A fresh copy has the current resourceVersion, so it is the resource.
FreshCopies == \A s \in Syncs : fresh[s] => cache[s] = api[s]

Adopted(object) == object.exists /\ object.finalizer

\* A cached copy that is adopted and not being deleted is right about it.
CopiesTrusted ==
  \A s \in Syncs : Adopted(cache[s]) /\ ~cache[s].deleting => Adopted(api[s])

\* A pass that may release the resource sees its deletion, and so does the
\* cache it came from.
ReleaseSeen ==
  worker.step = "finalize" /\ worker.current
    => cache[worker.sync] = api[worker.sync] /\ cache[worker.sync].deleting

FinalizerInv == FreshCopies /\ CopiesTrusted /\ ReleaseSeen /\ PassUnderFinalizer

LEMMA FinalizerInit == Init => FinalizerInv
  BY DEF Init, FinalizerInv, FreshCopies, CopiesTrusted, ReleaseSeen,
     PassUnderFinalizer, Idle, Adopted

\* A write by somebody else keeps it as long as it takes no finalizer away.
LEMMA FinalizerOverwrite ==
  ASSUME TypeOK, FinalizerInv, UNCHANGED cache,
         NEW s \in Syncs, NEW object, Overwrite(s, object),
         Adopted(api[s]) => Adopted(object)
  PROVE  FinalizerInv'
<1>1. \A r \in Syncs : /\ Adopted(api[r]) => Adopted(api'[r])
                       /\ r # s => api'[r] = api[r] /\ fresh'[r] = fresh[r]
                       /\ ~fresh'[s]
  BY DEF Overwrite, TypeOK
<1>2. /\ worker'.step = worker.step /\ worker'.sync = worker.sync
      /\ worker'.current => worker.current /\ worker.sync # s
  BY DEF Overwrite, TypeOK, Worker
<1>3. FreshCopies'
  BY <1>1 DEF FinalizerInv, FreshCopies
<1>4. CopiesTrusted'
  BY <1>1 DEF FinalizerInv, CopiesTrusted
<1>5. ReleaseSeen'
  BY <1>1, <1>2 DEF FinalizerInv, ReleaseSeen, TypeOK
<1>6. PassUnderFinalizer'
  BY <1>1, <1>2 DEF FinalizerInv, PassUnderFinalizer, Adopted, TypeOK
<1> QED
  BY <1>3, <1>4, <1>5, <1>6 DEF FinalizerInv

\* A write of the worker's own that ends its pass, or nothing written.
LEMMA FinalizerStored ==
  ASSUME TypeOK, FinalizerInv, UNCHANGED cache, worker' = Idle, worker.sync \in Syncs,
         NEW object,
         Store(object) \/ UNCHANGED <<api, fresh>>,
         Adopted(api[worker.sync]) => \/ Adopted(object)
                                      \/ ~(Adopted(cache[worker.sync])
                                             /\ ~cache[worker.sync].deleting)
  PROVE  FinalizerInv'
<1>1. worker'.step = "idle"
  BY DEF Idle
<1>2. CASE UNCHANGED <<api, fresh>>
  BY <1>1, <1>2 DEF FinalizerInv, FreshCopies, CopiesTrusted, ReleaseSeen,
     PassUnderFinalizer
<1>3. CASE Store(object)
  <2>1. \A r \in Syncs : r # worker.sync => api'[r] = api[r] /\ fresh'[r] = fresh[r]
    BY <1>3 DEF Store, TypeOK
  <2>2. api'[worker.sync] = object /\ ~fresh'[worker.sync]
    BY <1>3 DEF Store, TypeOK
  <2>3. FreshCopies'
    BY <2>1, <2>2 DEF FinalizerInv, FreshCopies
  <2>4. CopiesTrusted'
    BY <2>1, <2>2 DEF FinalizerInv, CopiesTrusted
  <2> QED
    BY <1>1, <2>3, <2>4 DEF FinalizerInv, ReleaseSeen, PassUnderFinalizer
<1> QED
  BY <1>2, <1>3

LEMMA FinalizerStart ==
  ASSUME TypeOK, FinalizerInv, NEW s \in Syncs, Start(s)
  PROVE  FinalizerInv'
<1>1. UNCHANGED <<api, cache, fresh>>
  BY DEF Start
<1>2. CASE ~cache[s].exists
  BY <1>1, <1>2 DEF Start, FinalizerInv, FreshCopies, CopiesTrusted, ReleaseSeen,
     PassUnderFinalizer
<1>3. CASE cache[s].exists
  <2>1. /\ worker'.sync = s /\ worker'.current = fresh[s]
        /\ worker'.step = IF cache[s].deleting THEN "finalize"
                          ELSE IF cache[s].finalizer THEN "load" ELSE "adopt"
    BY <1>3 DEF Start, TypeOK, Worker
  <2>2. ReleaseSeen'
    BY <1>1, <2>1 DEF FinalizerInv, FreshCopies, ReleaseSeen
  <2>3. PassUnderFinalizer'
    BY <1>1, <1>3, <2>1 DEF FinalizerInv, CopiesTrusted, PassUnderFinalizer, Adopted
  <2> QED
    BY <1>1, <2>2, <2>3 DEF FinalizerInv, FreshCopies, CopiesTrusted
<1> QED
  BY <1>2, <1>3

LEMMA FinalizerAdopt ==
  ASSUME TypeOK, FinalizerInv, Adopt
  PROVE  FinalizerInv'
<1> DEFINE s == worker.sync
<1>1. s \in Syncs /\ api[s] \in SyncObject
  BY DEF Adopt, TypeOK
<1>2. /\ api' = [api EXCEPT ![s] = [api[s] EXCEPT !.finalizer = TRUE]]
      /\ fresh' = [fresh EXCEPT ![s] = FALSE]
      /\ UNCHANGED cache
  BY DEF Adopt, Store
<1>3. Adopted(api'[s]) /\ \A r \in Syncs : r # s => api'[r] = api[r]
  BY <1>1, <1>2 DEF Adopt, Adopted, SyncObject, TypeOK
<1>4. ~fresh'[s] /\ \A r \in Syncs : r # s => fresh'[r] = fresh[r]
  BY <1>1, <1>2 DEF TypeOK
<1>5. worker'.step = "load" /\ worker'.sync = s
  BY DEF Adopt, TypeOK, Worker
<1>6. FreshCopies'
  BY <1>2, <1>3, <1>4 DEF FinalizerInv, FreshCopies
<1>7. CopiesTrusted'
  BY <1>2, <1>3 DEF FinalizerInv, CopiesTrusted
<1> QED
  BY <1>3, <1>5, <1>6, <1>7 DEF FinalizerInv, ReleaseSeen, PassUnderFinalizer, Adopted

\* In the middle of a sync nothing is written to the API server.
LEMMA FinalizerSyncing ==
  ASSUME TypeOK, FinalizerInv, UNCHANGED <<api, cache, fresh>>,
         worker.step \in {"load", "read", "import"},
         worker'.step # "finalize", worker'.sync = worker.sync
  PROVE  FinalizerInv'
  BY DEF FinalizerInv, FreshCopies, CopiesTrusted, ReleaseSeen, PassUnderFinalizer

LEMMA FinalizerPass ==
  ASSUME TypeOK, FinalizerInv, Pass
  PROVE  FinalizerInv'
<1>1. worker.sync \in Syncs /\ api[worker.sync] \in SyncObject
  BY PassSteps DEF TypeOK
<1>2. CASE Adopt
  BY <1>2, FinalizerAdopt
<1>3. CASE AdoptFails
  <2> DEFINE object == [api[worker.sync] EXCEPT !.finalizer = TRUE]
  <2>1. UNCHANGED cache /\ worker' = Idle /\ (Store(object) \/ UNCHANGED <<api, fresh>>)
    BY <1>3 DEF AdoptFails
  <2>2. Adopted(api[worker.sync]) => Adopted(object)
    BY <1>1 DEF Adopted, SyncObject
  <2> QED
    BY <1>1, <2>1, <2>2, FinalizerStored
<1>4. CASE Load
  <2>1. worker'.step # "finalize" /\ worker'.sync = worker.sync
    BY <1>4 DEF Load, Conclude, TypeOK, Worker
  <2> QED
    BY <1>4, <2>1, FinalizerSyncing DEF Load
<1>5. CASE Read
  <2>1. worker'.step # "finalize" /\ worker'.sync = worker.sync
    BY <1>5, ReadShape
  <2> QED
    BY <1>5, <2>1, FinalizerSyncing DEF Read
<1>6. CASE ReadFails \/ Import \/ ImportFails
  <2>1. worker'.step # "finalize" /\ worker'.sync = worker.sync
    BY <1>6 DEF ReadFails, Import, ImportFails, Conclude, TypeOK, Worker
  <2> QED
    BY <1>6, <2>1, FinalizerSyncing DEF ReadFails, Import, ImportFails
<1>7. CASE Report \/ ReportFails
  <2> DEFINE object == [api[worker.sync] EXCEPT !.status = ReportedStatus(worker)]
  <2>1. UNCHANGED cache /\ worker' = Idle /\ (Store(object) \/ UNCHANGED <<api, fresh>>)
    BY <1>7 DEF Report, ReportFails, StoreStatus
  <2>2. Adopted(api[worker.sync]) => Adopted(object)
    BY <1>1 DEF Adopted, SyncObject
  <2> QED
    BY <1>1, <2>1, <2>2, FinalizerStored
<1>8. CASE Finalize \/ FinalizeFails
  <2> DEFINE object == Gone(api[worker.sync])
  <2>1. UNCHANGED cache /\ worker' = Idle
        /\ \/ UNCHANGED <<api, fresh>>
           \/ Store(object) /\ worker.step = "finalize" /\ worker.current
    BY <1>8 DEF Finalize, FinalizeFails, UpdateRefused
  <2>2. CASE UNCHANGED <<api, fresh>>
    BY <1>1, <2>1, <2>2, FinalizerStored
  <2>3. CASE Store(object) /\ worker.step = "finalize" /\ worker.current
    <3>1. cache[worker.sync].deleting
      BY <2>3 DEF FinalizerInv, ReleaseSeen
    <3> QED
      BY <1>1, <2>1, <2>3, <3>1, FinalizerStored
  <2> QED
    BY <2>1, <2>2, <2>3
<1> QED
  BY <1>2, <1>3, <1>4, <1>5, <1>6, <1>7, <1>8 DEF Pass

LEMMA FinalizerWake ==
  ASSUME TypeOK, FinalizerInv, Wake
  PROVE  FinalizerInv'
<1>1. ASSUME NEW s \in Syncs, DeliverSync(s) PROVE FinalizerInv'
  <2>1. /\ UNCHANGED <<api, worker>> /\ ~fresh[s]
        /\ cache'[s] = api[s]
        /\ \A r \in Syncs : r # s => cache'[r] = cache[r] /\ fresh'[r] = fresh[r]
    BY <1>1 DEF DeliverSync, TypeOK
  <2>2. FreshCopies'
    BY <2>1 DEF FinalizerInv, FreshCopies
  <2>3. CopiesTrusted'
    BY <2>1 DEF FinalizerInv, CopiesTrusted
  <2>4. ReleaseSeen'
    BY <2>1 DEF FinalizerInv, ReleaseSeen, TypeOK
  <2> QED
    BY <2>1, <2>2, <2>3, <2>4 DEF FinalizerInv, PassUnderFinalizer
<1>2. CASE UNCHANGED <<api, cache, fresh, worker>>
  BY <1>2 DEF FinalizerInv, FreshCopies, CopiesTrusted, ReleaseSeen, PassUnderFinalizer
<1> QED
  BY <1>1, <1>2 DEF Wake, Fire, DeliverSecret

LEMMA FinalizerEnvironment ==
  ASSUME TypeOK, FinalizerInv, Environment
  PROVE  FinalizerInv'
<1>1. ASSUME NEW s \in Syncs, DeleteSync(s) PROVE FinalizerInv'
  <2> DEFINE object == IF api[s].finalizer THEN [api[s] EXCEPT !.deleting = TRUE]
                                           ELSE Gone(api[s])
  <2>1. Adopted(api[s]) => Adopted(object)
    BY DEF Adopted, SyncObject, TypeOK
  <2> QED
    BY <1>1, <2>1, FinalizerOverwrite DEF DeleteSync
<1>2. ASSUME NEW s \in Syncs, NEW spec \in SpecsOf[s], CreateSync(s, spec) PROVE FinalizerInv'
  <2>1. ~Adopted(api[s])
    BY <1>2 DEF CreateSync, Adopted
  <2> QED
    BY <1>2, <2>1, FinalizerOverwrite DEF CreateSync
<1>3. ASSUME NEW s \in Syncs, NEW spec \in SpecsOf[s], EditSync(s, spec) PROVE FinalizerInv'
  <2> DEFINE object == [api[s] EXCEPT !.spec = spec, !.generation = @ + 1]
  <2>1. Adopted(api[s]) => Adopted(object)
    BY DEF Adopted, SyncObject, TypeOK
  <2> QED
    BY <1>3, <2>1, FinalizerOverwrite DEF EditSync
<1>4. CASE UNCHANGED <<api, cache, fresh, worker>>
  BY <1>4 DEF FinalizerInv, FreshCopies, CopiesTrusted, ReleaseSeen, PassUnderFinalizer
<1> QED
  BY <1>1, <1>2, <1>3, <1>4
     DEF Environment, WriteSecret, WriteVault, AzureFlips, Tick

LEMMA FinalizerNext == TypeOK /\ FinalizerInv /\ [Next]_vars => FinalizerInv'
<1> SUFFICES ASSUME TypeOK, FinalizerInv, [Next]_vars PROVE FinalizerInv'
  OBVIOUS
<1>1. ASSUME NEW s \in Syncs, Start(s) PROVE FinalizerInv'
  BY <1>1, FinalizerStart
<1>2. CASE Restart
  <2>1. cache' = api /\ api' = api /\ worker'.step = "idle"
    BY <1>2 DEF Restart, Idle
  <2> QED
    BY <2>1 DEF FinalizerInv, FreshCopies, CopiesTrusted, ReleaseSeen, PassUnderFinalizer
<1>3. CASE UNCHANGED vars
  BY <1>3 DEF vars, FinalizerInv, FreshCopies, CopiesTrusted, ReleaseSeen,
     PassUnderFinalizer
<1> QED
  BY <1>1, <1>2, <1>3, FinalizerPass, FinalizerWake, FinalizerEnvironment DEF Next

\* Reconcile never works for a resource that has gone or that it has not
\* taken under its finalizer, however stale the copy it was started from.
THEOREM FinalizerHeld == Safety => []PassUnderFinalizer
<1>1. FinalizerInv => PassUnderFinalizer
  BY DEF FinalizerInv
<1> QED
  BY <1>1, TypeInit, TypeNext, FinalizerInit, FinalizerNext, PTL DEF Safety

-----------------------------------------------------------------------------
(***************************************************************************)
(* Imports and reports match the vault                                     *)
(*                                                                         *)
(* What Snapshot showed stays true until the pass is over, because this     *)
(* pass is the only one and a write by somebody else marks its object as    *)
(* touched.                                                                 *)
(***************************************************************************)
\* An import under way was decided on what the vault shows now.
SnapshotHolds ==
  worker.step = "import" =>
    /\ DecideAction(worker.bundle, worker.snap) = "Import"
    /\ worker.target \notin touched => vault[worker.target] = worker.snap

\* A success about to be reported is what the vault serves now.
Served(object, bundle) == Mirrors(object, bundle) /\ object.enabled

ReportHolds ==
  worker.step = "report" /\ worker.result = "Synced" /\ worker.target \notin touched
    => Served(vault[worker.target], worker.bundle)

VaultInv == SnapshotHolds /\ ReportHolds

\* Decide imports exactly what is not mirrored.
LEMMA DecideMirrors ==
  \A b, o : DecideAction(b, o) \in {"Import", "None"}
            /\ (DecideAction(b, o) = "Import" <=> ~Mirrors(o, b))
  BY DEF DecideAction, Mirrors

\* A report of success without an import is only made of an enabled object.
LEMMA SyncedEnabled ==
  \A b, o : o \in VaultObject /\ o.exists /\ Outcome(b, o) = "Synced" => o.enabled
  BY DEF Outcome, DecideWarning, VaultObject

\* What an import leaves behind is served.
LEMMA ImportServed ==
  \A b, o : Served(ImportedObject(o, b), b)
  BY DEF Served, Mirrors, ImportedObject

LEMMA VaultRead ==
  ASSUME TypeOK, Read
  PROVE  VaultInv'
<1> DEFINE snap == vault[worker.target]
           validity == Validate(worker.bundle, now)
<1>1. snap \in VaultObject /\ UNCHANGED vault
  BY DEF Read, TypeOK
<1>2. CASE validity # "Valid"
  <2>1. worker' = [worker EXCEPT !.step = "report", !.result = validity]
    BY <1>2 DEF Read
  <2>2. validity # "Synced"
    BY ValidateType
  <2>3. worker'.step = "report" /\ worker'.result # "Synced"
    BY <2>1, <2>2 DEF TypeOK, Worker
  <2> QED
    BY <2>3 DEF VaultInv, SnapshotHolds, ReportHolds
<1>3. CASE validity = "Valid" /\ DecideAction(worker.bundle, snap) = "Import"
  <2>1. worker' = [worker EXCEPT !.step = "import", !.snap = snap]
    BY <1>3 DEF Read
  <2>2. worker'.step = "import" /\ worker'.snap = snap /\ worker'.bundle = worker.bundle
        /\ worker'.target = worker.target
    BY <2>1 DEF TypeOK, Worker
  <2> QED
    BY <1>1, <1>3, <2>2 DEF VaultInv, SnapshotHolds, ReportHolds
<1>4. CASE validity = "Valid" /\ DecideAction(worker.bundle, snap) # "Import"
  <2>1. worker' = [worker EXCEPT !.step = "report", !.snap = snap,
                                !.result = Outcome(worker.bundle, snap)]
    BY <1>4 DEF Read
  <2>2. worker'.step = "report" /\ worker'.bundle = worker.bundle
        /\ worker'.target = worker.target /\ worker'.result = Outcome(worker.bundle, snap)
    BY <2>1 DEF TypeOK, Worker
  <2>3. Mirrors(snap, worker.bundle)
    BY <1>4, DecideMirrors
  <2>4. worker'.result = "Synced" => Served(snap, worker.bundle)
    BY <1>1, <2>2, <2>3, SyncedEnabled DEF Served, Mirrors
  <2> QED
    BY <1>1, <2>2, <2>4 DEF VaultInv, SnapshotHolds, ReportHolds
<1> QED
  BY <1>2, <1>3, <1>4

LEMMA VaultImport ==
  ASSUME TypeOK, Import
  PROVE  VaultInv'
<1>1. worker.target \in Names /\ worker.bundle \in Bundle
  BY DEF Import, TypeOK
<1>2. vault'[worker.target] = ImportedObject(vault[worker.target], worker.bundle)
  BY <1>1, MintType DEF Import
<1>3. worker'.step = "report" /\ worker'.bundle = worker.bundle
      /\ worker'.target = worker.target
  BY DEF Import, TypeOK, Worker
<1>4. Served(vault'[worker'.target], worker'.bundle)
  BY <1>2, <1>3, ImportServed
<1> QED
  BY <1>3, <1>4 DEF VaultInv, SnapshotHolds, ReportHolds

\* The other steps of a pass lead neither to an import nor to a success.
LEMMA VaultPass ==
  ASSUME TypeOK, VaultInv, Pass
  PROVE  VaultInv'
<1> DEFINE Plain == worker'.step # "import"
                    /\ (worker'.step = "report" => worker'.result # "Synced")
<1>1. Plain => VaultInv'
  BY DEF VaultInv, SnapshotHolds, ReportHolds
<1>2. CASE Adopt
  BY <1>1, <1>2 DEF Adopt, TypeOK, Worker
<1>3. CASE AdoptFails \/ Report \/ ReportFails \/ Finalize \/ FinalizeFails
  BY <1>1, <1>3 DEF AdoptFails, Report, ReportFails, Finalize, FinalizeFails, Idle
<1>4. CASE Load
  <2> DEFINE spec == worker.object.spec
             content == secretCache[spec.secret]
  <2>1. spec \in Spec /\ content \in Contents
    BY <1>4 DEF Load, TypeOK, SyncObject, Spec
  <2>2. LoadError(spec, content) # "Synced"
    BY <2>1, LoadErrorType
  <2>3. CASE LoadError(spec, content) # "Valid"
    BY <1>1, <1>4, <2>2, <2>3 DEF Load, Conclude, TypeOK, Worker
  <2>4. CASE LoadError(spec, content) = "Valid"
    BY <1>1, <1>4, <2>4 DEF Load, TypeOK, Worker
  <2> QED
    BY <2>3, <2>4
<1>5. CASE ReadFails \/ ImportFails
  <2>1. Conclude("VaultError")
    BY <1>5 DEF ReadFails, ImportFails
  <2> QED
    BY <1>1, <2>1 DEF Conclude, TypeOK, Worker
<1> QED
  BY <1>2, <1>3, <1>4, <1>5, VaultRead, VaultImport DEF Pass

LEMMA VaultNext == TypeOK /\ VaultInv /\ [Next]_vars => VaultInv'
<1> SUFFICES ASSUME TypeOK, VaultInv, [Next]_vars PROVE VaultInv'
  OBVIOUS
<1>1. ASSUME NEW s \in Syncs, Start(s) PROVE VaultInv'
  <2>1. CASE UNCHANGED worker
    BY <1>1, <2>1 DEF Start, VaultInv, SnapshotHolds, ReportHolds
  <2>2. CASE cache[s].exists
    BY <1>1, <2>2 DEF Start, TypeOK, Worker, VaultInv, SnapshotHolds, ReportHolds
  <2> QED
    BY <1>1, <2>1, <2>2 DEF Start
<1>2. CASE Restart
  BY <1>2 DEF Restart, Idle, VaultInv, SnapshotHolds, ReportHolds
<1>3. ASSUME NEW n \in Names, NEW object, WriteVault(n, object) PROVE VaultInv'
  BY <1>3 DEF WriteVault, TypeOK, VaultInv, SnapshotHolds, ReportHolds
<1>4. ASSUME NEW s \in Syncs, NEW object, Overwrite(s, object), UNCHANGED <<vault, touched>>
      PROVE  VaultInv'
  <2>1. /\ worker'.step = worker.step /\ worker'.bundle = worker.bundle
        /\ worker'.target = worker.target /\ worker'.snap = worker.snap
        /\ worker'.result = worker.result
    BY <1>4 DEF Overwrite, TypeOK, Worker
  <2> QED
    BY <1>4, <2>1 DEF VaultInv, SnapshotHolds, ReportHolds
<1>5. CASE UNCHANGED <<worker, vault, touched>>
  BY <1>5 DEF VaultInv, SnapshotHolds, ReportHolds
<1>6. CASE Wake
  BY <1>5, <1>6 DEF Wake, DeliverSync, DeliverSecret, Fire
<1>7. CASE Environment
  BY <1>3, <1>4, <1>5, <1>7 DEF Environment, DeleteSync, CreateSync, EditSync,
     WriteSecret, AzureFlips, Tick
<1>8. CASE UNCHANGED vars
  BY <1>5, <1>8 DEF vars
<1> QED
  BY <1>1, <1>2, <1>6, <1>7, <1>8, VaultPass DEF Next

LEMMA VaultInit == Init => VaultInv
  BY DEF Init, Idle, VaultInv, SnapshotHolds, ReportHolds

LEMMA VaultAlways == Safety => [](TypeOK /\ VaultInv)
  BY TypeInit, TypeNext, VaultInit, VaultNext, PTL DEF Safety

\* An import is never sent for a certificate the vault already holds: the
\* versions Syncer.Sync mints are needed, drift between its two calls aside.
THEOREM ImportsNeeded == Safety => []NoRedundantImport
<1>1. TypeOK /\ VaultInv => NoRedundantImport
  BY DecideMirrors DEF VaultInv, SnapshotHolds, NoRedundantImport
<1> QED
  BY <1>1, VaultAlways, PTL

-----------------------------------------------------------------------------
(***************************************************************************)
(* Truthful statuses                                                       *)
(***************************************************************************)
\* What a report of success puts in the status.
LEMMA ReportedReady ==
  ASSUME TypeOK, worker.step = "report", ReportedStatus(worker).ready = "Synced"
  PROVE  /\ worker.result = "Synced"
         /\ ReportedStatus(worker).name = worker.target
         /\ ReportedStatus(worker).bundle = worker.bundle
<1>1. worker.object.status \in Status
  BY DEF TypeOK, SyncObject
<1>2. CASE Succeeded(worker)
  BY <1>2 DEF ReportedStatus
<1>3. CASE ~Succeeded(worker)
  <2>1. worker.result # "Synced"
    BY <1>3 DEF Succeeded
  <2> QED
    BY <1>1, <1>3, <2>1 DEF ReportedStatus, Status
<1> QED
  BY <1>2, <1>3

\* The status of s is as it was, makes no claim, or is a pass's report.
Claims(s) ==
  \/ api'[s].status = api[s].status
  \/ api'[s].status.ready # "Synced"
  \/ worker.step = "report" /\ api'[s].status = ReportedStatus(worker)

LEMMA ClaimsStored ==
  ASSUME TypeOK, worker.sync \in Syncs, NEW object, Store(object),
         \/ object.status = api[worker.sync].status
         \/ object.status.ready # "Synced"
         \/ worker.step = "report" /\ object.status = ReportedStatus(worker),
         NEW s \in Syncs
  PROVE  Claims(s)
  BY DEF Store, Claims, TypeOK

LEMMA ClaimsOverwritten ==
  ASSUME TypeOK, NEW r \in Syncs, NEW object, Overwrite(r, object),
         object.status = api[r].status \/ object.status.ready # "Synced",
         NEW s \in Syncs
  PROVE  Claims(s)
  BY DEF Overwrite, Claims, TypeOK

LEMMA GoneClaimsNothing ==
  /\ \A o : Gone(o).status.ready # "Synced"
  /\ \A spec : Created(spec).status.ready # "Synced"
  BY DEF Gone, Created, NoStatus

LEMMA ClaimsNext ==
  ASSUME TypeOK, [Next]_vars, NEW s \in Syncs
  PROVE  Claims(s)
<1>1. CASE UNCHANGED api
  BY <1>1 DEF Claims
<1>2. CASE Pass
  <2>1. worker.sync \in Syncs /\ api[worker.sync] \in SyncObject
    BY <1>2, PassSteps DEF TypeOK
  <2>2. CASE Adopt \/ AdoptFails
    <3> DEFINE object == [api[worker.sync] EXCEPT !.finalizer = TRUE]
    <3>1. object.status = api[worker.sync].status
      BY <2>1 DEF SyncObject
    <3>2. Store(object) \/ UNCHANGED api
      BY <2>2 DEF Adopt, AdoptFails
    <3> QED
      BY <1>1, <2>1, <3>1, <3>2, ClaimsStored
  <2>3. CASE Report \/ ReportFails
    <3> DEFINE object == [api[worker.sync] EXCEPT !.status = ReportedStatus(worker)]
    <3>1. object.status = ReportedStatus(worker) /\ worker.step = "report"
      BY <2>1, <2>3 DEF SyncObject, Report, ReportFails
    <3>2. Store(object) \/ UNCHANGED api
      BY <2>3 DEF Report, ReportFails, StoreStatus
    <3> QED
      BY <1>1, <2>1, <3>1, <3>2, ClaimsStored
  <2>4. CASE Finalize \/ FinalizeFails
    <3>1. Store(Gone(api[worker.sync])) \/ UNCHANGED api
      BY <2>4 DEF Finalize, FinalizeFails
    <3> QED
      BY <1>1, <2>1, <3>1, GoneClaimsNothing, ClaimsStored
  <2> QED
    BY <1>1, <1>2, <2>2, <2>3, <2>4
       DEF Pass, Load, Read, ReadFails, Import, ImportFails
<1>3. CASE Environment
  <2>1. ASSUME NEW r \in Syncs, DeleteSync(r) PROVE Claims(s)
    <3> DEFINE object == IF api[r].finalizer THEN [api[r] EXCEPT !.deleting = TRUE]
                                             ELSE Gone(api[r])
    <3>1. object.status = api[r].status \/ object.status.ready # "Synced"
      BY GoneClaimsNothing DEF TypeOK, SyncObject
    <3> QED
      BY <2>1, <3>1, ClaimsOverwritten DEF DeleteSync
  <2>2. ASSUME NEW r \in Syncs, NEW spec \in SpecsOf[r], CreateSync(r, spec) PROVE Claims(s)
    BY <2>2, GoneClaimsNothing, ClaimsOverwritten DEF CreateSync
  <2>3. ASSUME NEW r \in Syncs, NEW spec \in SpecsOf[r], EditSync(r, spec) PROVE Claims(s)
    <3>1. [api[r] EXCEPT !.spec = spec, !.generation = @ + 1].status = api[r].status
      BY DEF TypeOK, SyncObject
    <3> QED
      BY <2>3, <3>1, ClaimsOverwritten DEF EditSync
  <2> QED
    BY <1>1, <1>3, <2>1, <2>2, <2>3
       DEF Environment, WriteSecret, WriteVault, AzureFlips, Tick
<1> QED
  BY <1>1, <1>2, <1>3
     DEF Next, Start, Wake, DeliverSync, DeliverSecret, Fire, Restart, vars

\* A status that newly says Ready is true of the vault at that moment, unless
\* somebody else changed the object after this pass read it.
THEOREM StatusesTrue == Safety => StatusTruthful
<1> DEFINE Truthful ==
      \A s \in Syncs :
        /\ api'[s].status # api[s].status
        /\ api'[s].status.ready = "Synced"
        /\ api'[s].status.name \notin touched
        => /\ Mirrors(vault[api'[s].status.name], api'[s].status.bundle)
           /\ vault[api'[s].status.name].enabled
<1>1. TypeOK /\ VaultInv /\ [Next]_vars => Truthful
  <2> SUFFICES ASSUME TypeOK, VaultInv, [Next]_vars, NEW s \in Syncs,
                      api'[s].status # api[s].status,
                      api'[s].status.ready = "Synced",
                      api'[s].status.name \notin touched
               PROVE  Served(vault[api'[s].status.name], api'[s].status.bundle)
    BY DEF Served
  <2>1. worker.step = "report" /\ api'[s].status = ReportedStatus(worker)
    BY ClaimsNext DEF Claims
  <2>2. /\ worker.result = "Synced"
        /\ api'[s].status.name = worker.target
        /\ api'[s].status.bundle = worker.bundle
    BY <2>1, ReportedReady
  <2> QED
    BY <2>1, <2>2 DEF VaultInv, ReportHolds
<1> QED
  BY <1>1, VaultAlways, PTL DEF StatusTruthful, Safety

-----------------------------------------------------------------------------
(***************************************************************************)
(* What a pass carries                                                     *)
(*                                                                         *)
(* The copies a pass works from may be of different moments.  These lemmas  *)
(* say where what it holds comes from, and what may happen to the vault.    *)
(***************************************************************************)
\* Users change the specification of resource s, and nothing else changes
\* but how far its copies can be trusted.
Edited(s) ==
  /\ api'[s].spec \in SpecsOf[s]
  /\ \A r \in Syncs : r # s => api'[r].spec = api[r].spec
  /\ UNCHANGED <<cache, secret, secretCache, vault>>
  /\ spent' = [spent EXCEPT !.edits = @ + 1]
  /\ worker' = [worker EXCEPT !.current = @ /\ worker.sync # s]

LEMMA OverwrittenEdits ==
  ASSUME TypeOK, NEW s \in Syncs, NEW object \in SyncObject, object.spec \in SpecsOf[s],
         Overwrite(s, object), Spend("edits"),
         UNCHANGED <<cache, secret, secretCache, vault>>
  PROVE  Edited(s)
  BY DEF Overwrite, Spend, Edited, TypeOK

\* Writes other than a user's leave every specification as it is.
SpecsKept == \A s \in Syncs : api'[s].spec = api[s].spec

LEMMA StoreKeepsSpecs ==
  ASSUME TypeOK, worker.sync \in Syncs, NEW object,
         Store(object) \/ UNCHANGED api, object.spec = api[worker.sync].spec
  PROVE  SpecsKept
  BY DEF Store, SpecsKept, TypeOK

LEMMA PassKeepsSpecs ==
  ASSUME TypeOK, Pass
  PROVE  SpecsKept
<1> DEFINE o == api[worker.sync]
<1>1. worker.sync \in Syncs /\ o \in SyncObject
  BY PassSteps DEF TypeOK
<1>2. CASE Adopt \/ AdoptFails
  <2>1. [o EXCEPT !.finalizer = TRUE].spec = o.spec
    BY <1>1 DEF SyncObject
  <2>2. Store([o EXCEPT !.finalizer = TRUE]) \/ UNCHANGED api
    BY <1>2 DEF Adopt, AdoptFails
  <2> QED
    BY <1>1, <2>1, <2>2, StoreKeepsSpecs
<1>3. CASE Report \/ ReportFails
  <2>1. [o EXCEPT !.status = ReportedStatus(worker)].spec = o.spec
    BY <1>1 DEF SyncObject
  <2>2. Store([o EXCEPT !.status = ReportedStatus(worker)]) \/ UNCHANGED api
    BY <1>3 DEF Report, ReportFails, StoreStatus
  <2> QED
    BY <1>1, <2>1, <2>2, StoreKeepsSpecs
<1>4. CASE Finalize \/ FinalizeFails
  <2>1. Gone(o).spec = o.spec
    BY DEF Gone
  <2>2. Store(Gone(o)) \/ UNCHANGED api
    BY <1>4 DEF Finalize, FinalizeFails
  <2> QED
    BY <1>1, <2>1, <2>2, StoreKeepsSpecs
<1>5. CASE Load \/ Read \/ ReadFails \/ Import \/ ImportFails
  BY <1>5 DEF Load, Read, ReadFails, Import, ImportFails, SpecsKept
<1> QED
  BY <1>2, <1>3, <1>4, <1>5 DEF Pass

\* Users overwrite one resource, with a specification they may give it.
LEMMA EnvironmentEdits ==
  ASSUME TypeOK, NEW s \in Syncs, api[s].spec \in SpecsOf[s],
         DeleteSync(s) \/ \E spec \in SpecsOf[s] : CreateSync(s, spec) \/ EditSync(s, spec)
  PROVE  Edited(s)
<1>1. api[s] \in SyncObject /\ SpecsOf[s] \subseteq Spec
  BY SpecsAssumption DEF TypeOK
<1>2. CASE DeleteSync(s)
  <2> DEFINE object == IF api[s].finalizer THEN [api[s] EXCEPT !.deleting = TRUE]
                                           ELSE Gone(api[s])
  <2>1. object \in SyncObject /\ object.spec = api[s].spec
    BY <1>1, CreatedType, UpdatedType DEF SyncObject, Gone
  <2> QED
    BY <1>2, <2>1, OverwrittenEdits DEF DeleteSync
<1>3. ASSUME NEW spec \in SpecsOf[s], CreateSync(s, spec) PROVE Edited(s)
  <2>1. Created(spec) \in SyncObject /\ Created(spec).spec = spec
    BY <1>1, CreatedType DEF Created
  <2> QED
    BY <1>3, <2>1, OverwrittenEdits DEF CreateSync
<1>4. ASSUME NEW spec \in SpecsOf[s], EditSync(s, spec) PROVE Edited(s)
  <2> DEFINE object == [api[s] EXCEPT !.spec = spec, !.generation = @ + 1]
  <2>1. object \in SyncObject /\ object.spec = spec
    BY <1>1, UpdatedType DEF SyncObject
  <2> QED
    BY <1>4, <2>1, OverwrittenEdits DEF EditSync
<1> QED
  BY <1>2, <1>3, <1>4

\* A copy changes only to what the API server has.
LEMMA CopiesFollow ==
  ASSUME TypeOK, Next
  PROVE  /\ \A s \in Syncs : cache'[s] = cache[s] \/ (cache'[s] = api[s] /\ api' = api)
         /\ \A k \in Secrets :
              secretCache'[k] = secretCache[k] \/ (secretCache'[k] = secret[k] /\ secret' = secret)
<1>1. CASE Pass \/ Environment \/ (\E s \in Syncs : Start(s))
  BY <1>1 DEF Pass, Adopt, AdoptFails, Load, Read, ReadFails, Import, ImportFails, Report,
     ReportFails, Finalize, FinalizeFails, Environment, DeleteSync, CreateSync, EditSync,
     WriteSecret, WriteVault, AzureFlips, Tick, Start
<1>2. CASE Wake \/ Restart
  BY <1>2 DEF Wake, DeliverSync, DeliverSecret, Fire, Restart, TypeOK
<1> QED
  BY <1>1, <1>2 DEF Next

\* The vault changes by a mint of what the pass carries, which ends its
\* import, or by somebody else.
VaultEvents ==
  \/ vault' = vault
  \/ /\ worker.step = "import" /\ Mint(worker.target, worker.bundle)
     /\ worker'.step # "import"
  \/ \E n \in Names : \E object \in OutOfBand(n) : /\ vault' = [vault EXCEPT ![n] = object]
                                                   /\ worker' = worker

LEMMA VaultSteps ==
  ASSUME TypeOK, Next
  PROVE  VaultEvents
<1>1. CASE Import \/ ImportFails
  BY <1>1 DEF Import, ImportFails, Conclude, VaultEvents, TypeOK, Worker
<1>2. CASE Restart
  BY <1>2 DEF Restart, VaultEvents, Idle
<1>3. CASE Environment
  BY <1>3 DEF Environment, DeleteSync, CreateSync, EditSync, WriteSecret, WriteVault,
     AzureFlips, Tick, VaultEvents
<1>4. CASE Wake \/ (\E s \in Syncs : Start(s))
  BY <1>4 DEF Wake, DeliverSync, DeliverSecret, Fire, Start, VaultEvents
<1>5. CASE Pass /\ ~Import /\ ~ImportFails
  BY <1>5 DEF Pass, Adopt, AdoptFails, Load, Read, ReadFails, Report, ReportFails, Finalize,
     FinalizeFails, VaultEvents
<1> QED
  BY <1>1, <1>2, <1>3, <1>4, <1>5 DEF Next

\* A pass ends, begins from the cached copy of its resource, loads what the
\* cached Secret holds, or goes on with what it has.
PassEnds == worker'.step = "idle"
PassBegins ==
  \E s \in Syncs : /\ worker.step = "idle" /\ cache[s].exists
                   /\ worker'.sync = s /\ worker'.object = cache[s]
                   /\ worker'.step \in {"finalize", "adopt", "load"}
PassLoads ==
  LET spec == worker.object.spec
      content == secretCache[spec.secret]
  IN /\ worker.step = "load" /\ LoadError(spec, content) = "Valid"
     /\ worker'.step = "read" /\ worker'.sync = worker.sync
     /\ worker'.object = worker.object /\ worker'.bundle = content.bundle
     /\ worker'.target = TargetName(spec.name, content.bundle)
PassGoesOn ==
  /\ worker.step # "idle" /\ worker'.sync = worker.sync
  /\ worker'.object.spec = worker.object.spec
  /\ worker'.object.status = worker.object.status
  /\ worker'.bundle = worker.bundle /\ worker'.target = worker.target
  /\ worker'.step \in {"adopt", "load"} => worker.step \in {"adopt", "load"}
  /\ worker'.step \in {"read", "import"} => worker.step \in {"read", "import"}
  /\ worker'.step = "import" =>
       \/ worker.step = "import"
       \/ ~Mirrors(vault[worker.target], worker.bundle) /\ UNCHANGED vault

PassCarries == PassEnds \/ PassBegins \/ PassLoads \/ PassGoesOn

LEMMA CarriesStart ==
  ASSUME TypeOK, NEW s \in Syncs, Start(s)
  PROVE  PassEnds \/ PassBegins
<1>1. worker.step = "idle"
  BY DEF Start
<1>2. CASE ~cache[s].exists
  BY <1>1, <1>2 DEF Start, PassEnds
<1>3. CASE cache[s].exists
  <2>1. /\ worker'.object = cache[s] /\ worker'.sync = s
        /\ worker'.step \in {"finalize", "load", "adopt"}
    BY <1>3 DEF Start, TypeOK, Worker
  <2> QED
    BY <1>1, <1>3, <2>1 DEF PassBegins
<1> QED
  BY <1>2, <1>3

LEMMA CarriesLoad ==
  ASSUME TypeOK, Load
  PROVE  PassLoads \/ PassGoesOn
<1> DEFINE content == secretCache[worker.object.spec.secret]
           error == LoadError(worker.object.spec, content)
<1>1. worker \in Worker /\ worker.step = "load"
  BY DEF TypeOK, Load
<1>2. CASE error # "Valid"
  <2>1. worker' = [worker EXCEPT !.step = "report", !.result = error]
    BY <1>2 DEF Load, Conclude
  <2> QED
    BY <1>1, <2>1 DEF Worker, PassGoesOn
<1>3. CASE error = "Valid"
  <2>1. worker' = [worker EXCEPT !.step = "read", !.bundle = content.bundle,
                     !.target = TargetName(worker.object.spec.name, content.bundle)]
    BY <1>3 DEF Load
  <2> QED
    BY <1>1, <1>3, <2>1 DEF Worker, PassLoads
<1> QED
  BY <1>2, <1>3

LEMMA CarriesPass ==
  ASSUME TypeOK, Pass
  PROVE  PassCarries
<1>1. worker \in Worker /\ worker.object \in SyncObject
  BY PassSteps DEF TypeOK
<1>2. CASE Adopt
  <2>1. worker' = [worker EXCEPT !.step = "load", !.object.finalizer = TRUE]
    BY <1>2 DEF Adopt
  <2>2. /\ worker'.step = "load" /\ worker'.object = [worker.object EXCEPT !.finalizer = TRUE]
        /\ worker'.sync = worker.sync /\ worker'.bundle = worker.bundle
        /\ worker'.target = worker.target
    BY <1>1, <2>1 DEF Worker
  <2>3. worker'.object.spec = worker.object.spec /\ worker'.object.status = worker.object.status
    BY <1>1, <2>2 DEF SyncObject
  <2> QED
    BY <1>2, <2>2, <2>3 DEF Adopt, PassCarries, PassGoesOn
<1>3. CASE Load
  BY <1>3, CarriesLoad DEF PassCarries
<1>4. CASE Read
  <2>1. worker.step = "read" /\ vault' = vault
    BY <1>4 DEF Read
  <2> QED
    BY <1>4, <2>1, ReadShape, DecideMirrors DEF PassCarries, PassGoesOn
<1>5. CASE ReadFails \/ Import \/ ImportFails
  <2>1. /\ worker.step # "idle" /\ worker'.step = "report" /\ worker'.object = worker.object
        /\ worker'.sync = worker.sync /\ worker'.bundle = worker.bundle
        /\ worker'.target = worker.target
    BY <1>1, <1>5 DEF ReadFails, Import, ImportFails, Conclude, Worker
  <2> QED
    BY <2>1 DEF PassCarries, PassGoesOn
<1>6. CASE AdoptFails \/ Report \/ ReportFails \/ Finalize \/ FinalizeFails
  BY <1>6 DEF AdoptFails, Report, ReportFails, Finalize, FinalizeFails, Idle, PassCarries,
     PassEnds
<1> QED
  BY <1>2, <1>3, <1>4, <1>5, <1>6 DEF Pass

\* Whatever leaves the pass alone, or only tells it that its copy is stale.
LEMMA CarriesOther ==
  ASSUME TypeOK,
         \/ UNCHANGED worker
         \/ \E s : worker' = [worker EXCEPT !.current = @ /\ worker.sync # s]
  PROVE  PassEnds \/ PassGoesOn
<1>1. /\ worker'.step = worker.step /\ worker'.object = worker.object
      /\ worker'.bundle = worker.bundle /\ worker'.target = worker.target
      /\ worker'.sync = worker.sync
  BY DEF TypeOK, Worker
<1> QED
  BY <1>1 DEF PassEnds, PassGoesOn

LEMMA CarriesNext ==
  ASSUME TypeOK, Next
  PROVE  PassCarries
<1>1. ASSUME NEW s \in Syncs, Start(s) PROVE PassCarries
  BY <1>1, CarriesStart DEF PassCarries
<1>2. CASE Pass
  BY <1>2, CarriesPass
<1>3. CASE Restart
  BY <1>3 DEF Restart, Idle, PassCarries, PassEnds
<1>4. CASE Wake
  BY <1>4, CarriesOther DEF Wake, DeliverSync, DeliverSecret, Fire, PassCarries
<1>5. CASE Environment
  BY <1>5, CarriesOther DEF Environment, DeleteSync, CreateSync, EditSync, WriteSecret,
     WriteVault, AzureFlips, Tick, Overwrite, PassCarries
<1> QED
  BY <1>1, <1>2, <1>3, <1>4, <1>5 DEF Next

\* What loads without an error is permitted, and held by the Secret it names.
LEMMA LoadedSound ==
  ASSUME NEW spec \in Spec, NEW content \in Contents, LoadError(spec, content) = "Valid"
  PROVE  spec.sound /\ content.state = "bundle"
<1>1. content.state \in {"absent", "defective", "unreadable", "bundle"}
  BY ContentsAssumption DEF Secret
<1>2. spec.sound \in BOOLEAN
  BY DEF Spec
<1> QED
  BY <1>1, <1>2 DEF LoadError

\* Nobody else stores an object that carries our digest where it was not.
LEMMA ForeignMirrorsNothing ==
  ASSUME TypeOK, NEW n \in Names, NEW object \in OutOfBand(n), NEW b \in Bundle,
         Mirrors(object, b)
  PROVE  Mirrors(vault[n], b)
<1>1. vault[n] \in VaultObject
  BY DEF TypeOK
<1>2. CASE object = [vault[n] EXCEPT !.exists = FALSE, !.leaf = None, !.digest = None,
                                     !.enabled = FALSE]
  BY <1>1, <1>2 DEF Mirrors, VaultObject
<1>3. CASE object = [vault[n] EXCEPT !.enabled = vault[n].exists /\ ~@]
  BY <1>1, <1>3 DEF Mirrors, VaultObject
<1>4. CASE \E l \in Leaves : object = [exists |-> TRUE, leaf |-> l, digest |-> None,
                                       enabled |-> TRUE, version |-> vault[n].version + 1]
  BY <1>4, NoBundleAssumption DEF Mirrors
<1> QED
  BY <1>2, <1>3, <1>4 DEF OutOfBand

\* The specifications at work are ones that users may give.
SpecsGiven ==
  /\ \A s \in Syncs : api[s].spec \in SpecsOf[s] /\ cache[s].spec \in SpecsOf[s]
  /\ worker.step # "idle" => worker.object.spec \in SpecsOf[worker.sync]

\* What a pass takes to the vault goes under the name its specification gives
\* it, to a vault that is permitted, and is what some Secret may hold; and it
\* is imported only while the vault does not hold it, whoever writes there.
PassCarried ==
  /\ worker.step \in {"read", "import"} =>
       LET spec == worker.object.spec
       IN /\ spec.sound /\ TargetName(spec.name, worker.bundle) = worker.target
          /\ \E c \in Contents : c.state = "bundle" /\ c.bundle = worker.bundle
  /\ worker.step = "import" => ~Mirrors(vault[worker.target], worker.bundle)

CarryInv == SpecsGiven /\ PassCarried

LEMMA CarryInit == Init => CarryInv
  BY DEF Init, Idle, CarryInv, SpecsGiven, PassCarried, Created

\* Specifications change by users' edits only.
LEMMA SpecsNext ==
  ASSUME TypeOK, SpecsGiven, Next
  PROVE  SpecsKept \/ \E s \in Syncs : Edited(s)
<1>1. CASE Environment
  BY <1>1, EnvironmentEdits DEF Environment, WriteSecret, WriteVault, AzureFlips, Tick,
     SpecsKept, SpecsGiven
<1>2. CASE Wake \/ Restart \/ (\E s \in Syncs : Start(s))
  BY <1>2 DEF Wake, DeliverSync, DeliverSecret, Fire, Restart, Start, SpecsKept
<1> QED
  BY <1>1, <1>2, PassKeepsSpecs DEF Next

LEMMA SpecsGivenNext ==
  ASSUME TypeOK, SpecsGiven, Next
  PROVE  SpecsGiven'
<1>1. \A s \in Syncs : api'[s].spec \in SpecsOf[s]
  BY SpecsNext DEF SpecsKept, Edited, SpecsGiven
<1>2. \A s \in Syncs : cache'[s].spec \in SpecsOf[s]
  BY CopiesFollow DEF SpecsGiven
<1>3. worker'.step # "idle" => worker'.object.spec \in SpecsOf[worker'.sync]
  BY CarriesNext DEF SpecsGiven, PassCarries, PassEnds, PassBegins, PassLoads, PassGoesOn
<1> QED
  BY <1>1, <1>2, <1>3 DEF SpecsGiven

LEMMA PassCarriedNext ==
  ASSUME TypeOK, CarryInv, Next
  PROVE  PassCarried'
<1>1. CASE PassEnds \/ PassBegins
  BY <1>1 DEF PassEnds, PassBegins, PassCarried
<1>2. CASE PassLoads
  <2> DEFINE spec == worker.object.spec
             content == secretCache[spec.secret]
  <2>1. spec \in Spec /\ content \in Contents
    BY <1>2 DEF PassLoads, TypeOK, SyncObject, Spec
  <2>2. spec.sound /\ content.state = "bundle"
    BY <1>2, <2>1, LoadedSound DEF PassLoads
  <2> QED
    BY <1>2, <2>1, <2>2 DEF PassLoads, PassCarried
<1>3. CASE PassGoesOn
  <2>1. worker.step \in {"read", "import"} => worker.bundle \in Bundle /\ worker.target \in Names
    BY DEF TypeOK
  <2>2. ASSUME worker'.step = "import", worker.step = "import"
        PROVE  ~Mirrors(vault'[worker.target], worker.bundle)
    <3>1. ~Mirrors(vault[worker.target], worker.bundle)
      BY <2>2 DEF CarryInv, PassCarried
    <3>2. CASE \E n \in Names : \E object \in OutOfBand(n) :
                 vault' = [vault EXCEPT ![n] = object]
      <4> PICK n \in Names : \E object \in OutOfBand(n) : vault' = [vault EXCEPT ![n] = object]
        BY <3>2
      <4> PICK object \in OutOfBand(n) : vault' = [vault EXCEPT ![n] = object]
        OBVIOUS
      <4>1. vault'[worker.target] = IF worker.target = n THEN object ELSE vault[worker.target]
        BY <2>1, <2>2 DEF TypeOK
      <4> QED
        BY <2>1, <2>2, <3>1, <4>1, ForeignMirrorsNothing
    <3> QED
      BY <2>2, <3>1, <3>2, VaultSteps DEF VaultEvents
  <2>3. worker'.step = "import" => ~Mirrors(vault'[worker.target], worker.bundle)
    BY <1>3, <2>2 DEF PassGoesOn
  <2> QED
    BY <1>3, <2>3 DEF PassGoesOn, CarryInv, PassCarried
<1> QED
  BY <1>1, <1>2, <1>3, CarriesNext DEF PassCarries

LEMMA CarryNext == TypeOK /\ CarryInv /\ [Next]_vars => CarryInv'
<1> SUFFICES ASSUME TypeOK, CarryInv, [Next]_vars PROVE CarryInv'
  OBVIOUS
<1>1. CASE Next
  BY <1>1, SpecsGivenNext, PassCarriedNext DEF CarryInv
<1>2. CASE UNCHANGED vars
  BY <1>2 DEF vars, CarryInv, SpecsGiven, PassCarried
<1> QED
  BY <1>1, <1>2

-----------------------------------------------------------------------------
(***************************************************************************)
(* Versions are paid for                                                   *)
(*                                                                         *)
(* Two resources that give one name to the certificates of two Secrets      *)
(* overwrite each other for ever, so the bound needs every name to be one   *)
(* resource's, or fed by one Secret.  Then what the passes see of its       *)
(* certificate changes no more often than it changed: each change makes a   *)
(* copy stale, each refreshed copy is a change for the pass to see, and     *)
(* each change seen is at most one import owed.                             *)
(***************************************************************************)
Feeds(spec, content, n) ==
  content.state = "bundle" /\ TargetName(spec.name, content.bundle) = n

OnlyResource(n, s) ==
  \A r \in Syncs \ {s} :
    \A spec \in SpecsOf[r], content \in Contents : ~Feeds(spec, content, n)
OnlySecret(n, k) ==
  \A r \in Syncs :
    \A spec \in SpecsOf[r], content \in Contents : Feeds(spec, content, n) => spec.secret = k
NamesOwned ==
  \A n \in Names : \/ \E s \in Syncs : OnlyResource(n, s)
                   \/ \E k \in Secrets : OnlySecret(n, k)

Count(p) == IF p THEN 1 ELSE 0
Lagging == {k \in Secrets : secretCache[k] # secret[k]}
Owed(spec, content, n) ==
  Feeds(spec, content, n) /\ ~Mirrors(vault[n], content.bundle)
Allowance == 1 + spent.edits + spent.secretWrites + 2 * spent.vaultWrites

\* The passes for resource s last saw this specification and this content.
Saw(s, spec, content) ==
  worker.sync = s =>
    /\ worker.step \in {"adopt", "load", "read", "import"} => worker.object.spec = spec
    /\ worker.step \in {"read", "import"} => content.state = "bundle" /\ worker.bundle = content.bundle

\* The versions of n, the import owed for what was seen, and the changes on
\* their way to be seen.
Total(n, s, spec, content) ==
  vault[n].version + Count(Owed(spec, content, n))
    + Count(spec # cache[s].spec) + Count(cache[s].spec # api[s].spec)
    + Count(content # secretCache[spec.secret]) + Cardinality(Lagging)

PaidByResource(n, s) ==
  \E spec \in SpecsOf[s], content \in Contents :
    Saw(s, spec, content) /\ Total(n, s, spec, content) <= Allowance

\* The passes that feed n from Secret k last saw this content.
SawSecret(n, content) ==
  worker.step \in {"read", "import"} /\ worker.target = n
    => content.state = "bundle" /\ worker.bundle = content.bundle

SecretTotal(n, k, content) ==
  vault[n].version + Count(content.state = "bundle" /\ ~Mirrors(vault[n], content.bundle))
    + Count(content # secretCache[k]) + Count(secretCache[k] # secret[k])

PaidBySecret(n, k) ==
  \E content \in Contents :
    SawSecret(n, content) /\ SecretTotal(n, k, content) <= Allowance

\* Finitely many Secrets are ahead of their copies, and how many is what a
\* delivery or a write makes of it.
LEMMA LaggingInit == Init => Lagging = {} /\ IsFiniteSet(Lagging) /\ Cardinality(Lagging) = 0
<1>1. Init => Lagging = {}
  BY DEF Init, Lagging
<1> QED
  BY <1>1, FS_EmptySet

LEMMA LaggingNext ==
  ASSUME TypeOK, IsFiniteSet(Lagging), Next
  PROVE  /\ IsFiniteSet(Lagging')
         /\ Cardinality(Lagging) \in Nat /\ Cardinality(Lagging') \in Nat
         /\ UNCHANGED <<secret, secretCache>> => Lagging' = Lagging
         /\ \A k \in Secrets : DeliverSecret(k) => Cardinality(Lagging') = Cardinality(Lagging) - 1
         /\ \A k \in Secrets : \A c : WriteSecret(k, c) => Cardinality(Lagging') <= Cardinality(Lagging) + 1
         /\ Restart => Cardinality(Lagging') = 0
<1>1. UNCHANGED <<secret, secretCache>> => Lagging' = Lagging
  BY DEF Lagging
<1>2. ASSUME NEW k \in Secrets, DeliverSecret(k)
      PROVE  IsFiniteSet(Lagging') /\ Cardinality(Lagging') = Cardinality(Lagging) - 1
  <2>1. /\ secret' = secret /\ secretCache[k] # secret[k]
        /\ \A j \in Secrets : secretCache'[j] = IF j = k THEN secret[j] ELSE secretCache[j]
    BY <1>2 DEF DeliverSecret, TypeOK
  <2>2. Lagging' = Lagging \ {k} /\ k \in Lagging
    BY <2>1 DEF Lagging
  <2> QED
    BY <2>2, FS_RemoveElement
<1>3. ASSUME NEW k \in Secrets, NEW c, WriteSecret(k, c)
      PROVE  IsFiniteSet(Lagging') /\ Cardinality(Lagging') <= Cardinality(Lagging) + 1
  <2>1. secretCache' = secretCache /\ \A j \in Secrets : j # k => secret'[j] = secret[j]
    BY <1>3 DEF WriteSecret, TypeOK
  <2>2. Cardinality(Lagging) \in Nat
    BY FS_CardinalityType
  <2>3. CASE secretCache'[k] # secret'[k]
    <3>1. Lagging' = Lagging \cup {k}
      BY <2>1, <2>3 DEF Lagging
    <3>2. /\ IsFiniteSet(Lagging')
          /\ \/ Cardinality(Lagging') = Cardinality(Lagging)
             \/ Cardinality(Lagging') = Cardinality(Lagging) + 1
      BY <3>1, FS_AddElement
    <3> QED
      BY <2>2, <3>2
  <2>4. CASE secretCache'[k] = secret'[k]
    <3>1. Lagging' = Lagging \ {k}
      BY <2>1, <2>4 DEF Lagging
    <3> QED
      BY <2>2, <3>1, FS_RemoveElement
  <2> QED
    BY <2>3, <2>4
<1>4. Restart => IsFiniteSet(Lagging') /\ Cardinality(Lagging') = 0
  <2>1. Restart => Lagging' = {}
    BY DEF Restart, Lagging
  <2> QED
    BY <2>1, FS_EmptySet
<1>5. IsFiniteSet(Lagging')
  <2>1. CASE UNCHANGED <<secret, secretCache>>
    BY <1>1, <2>1
  <2>2. CASE \E k \in Secrets : DeliverSecret(k) \/ \E c \in Contents : WriteSecret(k, c)
    BY <1>2, <1>3, <2>2
  <2>3. CASE Restart
    BY <1>4, <2>3
  <2> QED
    BY <2>1, <2>2, <2>3 DEF Next, Start, Pass, Adopt, AdoptFails, Load, Read, ReadFails, Import,
       ImportFails, Report, ReportFails, Finalize, FinalizeFails, Wake, DeliverSync, Fire,
       Environment, DeleteSync, CreateSync, EditSync, WriteVault, AzureFlips, Tick
<1>6. Cardinality(Lagging) \in Nat /\ Cardinality(Lagging') \in Nat
  BY <1>5, FS_CardinalityType
<1> QED
  BY <1>1, <1>2, <1>3, <1>4, <1>5, <1>6

\* Steps that leave the copies, the cluster's wishes and the allowance alone.
Calm ==
  /\ UNCHANGED <<cache, secret, secretCache>> /\ SpecsKept /\ Allowance' = Allowance
  /\ vault' = vault \/ (worker.step = "import" /\ Mint(worker.target, worker.bundle))

LEMMA CalmSteps ==
  ASSUME TypeOK,
         \/ Pass
         \/ \E s \in Syncs : Start(s) \/ Fire(s, "backoff") \/ Fire(s, "resync")
         \/ AzureFlips \/ Tick
  PROVE  Calm
<1>1. SpecsKept
  BY PassKeepsSpecs DEF Start, Fire, AzureFlips, Tick, SpecsKept
<1>2. spent' = spent \/ Spend("faults") \/ Spend("ticks")
  BY DEF Pass, Adopt, AdoptFails, Load, Read, ReadFails, Import, ImportFails, Report,
     ReportFails, Finalize, FinalizeFails, Start, Fire, AzureFlips, Tick
<1>3. Allowance' = Allowance
  BY <1>2 DEF Allowance, Spend, TypeOK, Bounds
<1>4. UNCHANGED <<cache, secret, secretCache>>
  BY DEF Pass, Adopt, AdoptFails, Load, Read, ReadFails, Import, ImportFails, Report,
     ReportFails, Finalize, FinalizeFails, Start, Fire, AzureFlips, Tick
<1>5. vault' = vault \/ (worker.step = "import" /\ Mint(worker.target, worker.bundle))
  BY DEF Pass, Adopt, AdoptFails, Load, Read, ReadFails, Import, ImportFails, Report,
     ReportFails, Finalize, FinalizeFails, Start, Fire, AzureFlips, Tick
<1> QED
  BY <1>1, <1>3, <1>4, <1>5 DEF Calm

\* Numbers to reckon with.
LEMMA PaidTypes ==
  ASSUME TypeOK
  PROVE  /\ \A n \in Names : vault[n].version \in Nat
         /\ spent.edits \in Nat /\ spent.secretWrites \in Nat /\ spent.vaultWrites \in Nat
         /\ Allowance \in Nat
  BY DEF TypeOK, VaultObject, Bounds, Allowance

\* What a pass takes to the vault feeds the name it goes under.
LEMMA CarriedFeeds ==
  ASSUME TypeOK, CarryInv, worker.step \in {"read", "import"}
  PROVE  /\ worker.sync \in Syncs /\ worker.object.spec \in SpecsOf[worker.sync]
         /\ \E c \in Contents : /\ c.state = "bundle" /\ c.bundle = worker.bundle
                                /\ Feeds(worker.object.spec, c, worker.target)
  BY DEF CarryInv, SpecsGiven, PassCarried, TypeOK, Feeds

\* An import makes one version, and what it imports is owed no more.
LEMMA MintPays ==
  ASSUME TypeOK, CarryInv, NEW n \in Names, worker.step = "import",
         Mint(worker.target, worker.bundle)
  PROVE  \/ vault'[n] = vault[n]
         \/ /\ worker.target = n /\ vault'[n].version = vault[n].version + 1
            /\ ~Mirrors(vault[n], worker.bundle) /\ Mirrors(vault'[n], worker.bundle)
<1>1. vault' = [vault EXCEPT ![worker.target] = ImportedObject(@, worker.bundle)]
  BY DEF Mint
<1>2. CASE worker.target = n
  <2>1. vault'[n] = ImportedObject(vault[n], worker.bundle)
    BY <1>1, <1>2 DEF TypeOK
  <2>2. vault'[n].version = vault[n].version + 1
    BY <2>1 DEF ImportedObject
  <2>3. ~Mirrors(vault[n], worker.bundle) /\ Mirrors(vault'[n], worker.bundle)
    BY <1>2, <2>1, ImportServed DEF Served, CarryInv, PassCarried
  <2> QED
    BY <1>2, <2>2, <2>3
<1>3. CASE worker.target # n
  BY <1>1, <1>3 DEF TypeOK
<1> QED
  BY <1>2, <1>3

\* The mints of an owned name are its resource's, of what that last saw.
LEMMA MintSeen ==
  ASSUME TypeOK, CarryInv, NEW n \in Names, NEW s \in Syncs, OnlyResource(n, s),
         NEW spec \in SpecsOf[s], NEW content \in Contents, Saw(s, spec, content),
         worker.step = "import", Mint(worker.target, worker.bundle)
  PROVE  vault'[n].version + Count(Owed(spec, content, n)')
           = vault[n].version + Count(Owed(spec, content, n))
<1>1. vault[n].version \in Nat
  BY PaidTypes
<1>2. CASE vault'[n] = vault[n]
  BY <1>2 DEF Owed, Count
<1>3. CASE /\ worker.target = n /\ vault'[n].version = vault[n].version + 1
           /\ ~Mirrors(vault[n], worker.bundle) /\ Mirrors(vault'[n], worker.bundle)
  <2>1. worker.sync = s
    BY <1>3, CarriedFeeds DEF OnlyResource
  <2>2. worker.object.spec = spec /\ content.state = "bundle" /\ worker.bundle = content.bundle
    BY <2>1 DEF Saw
  <2>3. Feeds(spec, content, n)
    BY <1>3, <2>2 DEF CarryInv, PassCarried, Feeds
  <2>4. Owed(spec, content, n) /\ ~Owed(spec, content, n)'
    BY <1>3, <2>2, <2>3 DEF Owed
  <2> QED
    BY <1>1, <1>3, <2>4 DEF Count
<1> QED
  BY <1>2, <1>3, MintPays

LEMMA CalmTotal ==
  ASSUME TypeOK, CarryInv, NEW n \in Names, NEW s \in Syncs, OnlyResource(n, s),
         NEW spec \in SpecsOf[s], NEW content \in Contents, Saw(s, spec, content), Calm
  PROVE  Total(n, s, spec, content)' = Total(n, s, spec, content)
<1>1. vault'[n].version + Count(Owed(spec, content, n)')
        = vault[n].version + Count(Owed(spec, content, n))
  <2>1. CASE vault' = vault
    BY <2>1 DEF Owed
  <2> QED
    BY <2>1, MintSeen DEF Calm
<1>2. /\ api'[s].spec = api[s].spec /\ cache'[s].spec = cache[s].spec
      /\ secretCache' = secretCache /\ Lagging' = Lagging
  BY DEF Calm, SpecsKept, Lagging
<1> QED
  BY <1>1, <1>2 DEF Total

\* Another specification or content may be seen where a change was waiting.
LEMMA TotalTypes ==
  ASSUME TypeOK, IsFiniteSet(Lagging), NEW n \in Names, NEW s \in Syncs, NEW spec, NEW content
  PROVE  /\ Total(n, s, spec, content) \in Nat
         /\ Total(n, s, cache[s].spec, secretCache[cache[s].spec.secret])
              <= Total(n, s, spec, content) \/ spec = cache[s].spec
         /\ Total(n, s, spec, secretCache[spec.secret]) <= Total(n, s, spec, content)
         /\ vault[n].version <= Total(n, s, spec, content)
<1>1. Cardinality(Lagging) \in Nat /\ vault[n].version \in Nat
  BY FS_CardinalityType, PaidTypes
<1> QED
  BY <1>1 DEF Total, Count

LEMMA PaidCalm ==
  ASSUME TypeOK, CarryInv, IsFiniteSet(Lagging),
         NEW n \in Names, NEW s \in Syncs, OnlyResource(n, s), PaidByResource(n, s),
         Calm, PassCarries
  PROVE  PaidByResource(n, s)'
<1> PICK spec \in SpecsOf[s], content \in Contents :
           Saw(s, spec, content) /\ Total(n, s, spec, content) <= Allowance
  BY DEF PaidByResource
<1>1. Allowance' = Allowance /\ Allowance \in Nat
  BY PaidTypes DEF Calm
<1>2. ASSUME Saw(s, spec, content)' PROVE PaidByResource(n, s)'
  <2>1. Total(n, s, spec, content)' = Total(n, s, spec, content)
    BY CalmTotal
  <2> QED
    BY <1>1, <1>2, <2>1 DEF PaidByResource
<1>3. ASSUME worker.step # "import", NEW sp \in SpecsOf[s], NEW c \in Contents,
             Saw(s, sp, c)', Total(n, s, sp, c) <= Total(n, s, spec, content)
      PROVE  PaidByResource(n, s)'
  <2>1. /\ vault' = vault /\ api'[s].spec = api[s].spec /\ cache'[s].spec = cache[s].spec
        /\ secretCache' = secretCache /\ Lagging' = Lagging
    BY <1>3 DEF Calm, SpecsKept, Lagging
  <2>2. Owed(sp, c, n)' = Owed(sp, c, n)
    BY <2>1 DEF Owed
  <2>3. Total(n, s, sp, c)' = Total(n, s, sp, c)
    BY <2>1, <2>2 DEF Total
  <2>4. Total(n, s, sp, c) <= Allowance
    BY <1>1, <1>3, TotalTypes
  <2> QED
    BY <1>1, <1>3, <2>3, <2>4 DEF PaidByResource
<1>4. CASE PassEnds
  BY <1>2, <1>4 DEF PassEnds, Saw
<1>5. CASE PassGoesOn
  BY <1>2, <1>5 DEF PassGoesOn, Saw
<1>6. CASE PassBegins
  <2>1. worker.step = "idle"
    BY <1>6 DEF PassBegins
  <2>2. CASE worker'.sync # s \/ spec = cache[s].spec
    BY <1>2, <1>6, <2>2 DEF PassBegins, Saw
  <2>3. CASE worker'.sync = s /\ spec # cache[s].spec
    <3>1. /\ cache[s].spec \in SpecsOf[s]
          /\ secretCache[cache[s].spec.secret] \in Contents
      BY DEF CarryInv, SpecsGiven, TypeOK, SyncObject, Spec
    <3> PICK sp \in SpecsOf[s], c \in Contents : sp = cache[s].spec /\ c = secretCache[sp.secret]
      BY <3>1
    <3>2. Saw(s, sp, c)'
      BY <1>6, <2>3 DEF PassBegins, Saw
    <3> QED
      BY <1>3, <2>1, <2>3, <3>2, TotalTypes
  <2> QED
    BY <2>2, <2>3
<1>7. CASE PassLoads
  <2>1. CASE worker.sync # s
    BY <1>2, <1>7, <2>1 DEF PassLoads, Saw
  <2>2. CASE worker.sync = s
    <3>1. worker.step = "load" /\ worker.object.spec = spec
      BY <1>7, <2>2 DEF PassLoads, Saw
    <3>2. spec \in Spec /\ secretCache[spec.secret] \in Contents
      BY SpecsAssumption DEF TypeOK, Spec
    <3> PICK c \in Contents : c = secretCache[spec.secret]
      BY <3>2
    <3>3. c.state = "bundle"
      BY <1>7, <3>1, <3>2, LoadedSound DEF PassLoads
    <3>4. Saw(s, spec, c)'
      BY <1>7, <3>1, <3>3 DEF PassLoads, Saw
    <3> QED
      BY <1>3, <3>1, <3>4, TotalTypes
  <2> QED
    BY <2>1, <2>2
<1> QED
  BY <1>4, <1>5, <1>6, <1>7 DEF PassCarries

\* A copy of the resource, or of a Secret, is refreshed: what was late is now
\* to be seen.
LEMMA PaidDeliver ==
  ASSUME TypeOK, IsFiniteSet(Lagging), Next, NEW n \in Names, NEW s \in Syncs,
         PaidByResource(n, s),
         \/ \E r \in Syncs : DeliverSync(r)
         \/ \E k \in Secrets : DeliverSecret(k)
  PROVE  PaidByResource(n, s)'
<1> PICK spec \in SpecsOf[s], content \in Contents :
           Saw(s, spec, content) /\ Total(n, s, spec, content) <= Allowance
  BY DEF PaidByResource
<1>1. /\ UNCHANGED <<api, secret, vault, worker, spent>>
      /\ Allowance' = Allowance /\ Owed(spec, content, n)' = Owed(spec, content, n)
  BY DEF DeliverSync, DeliverSecret, Allowance, Owed
<1>2. Saw(s, spec, content)'
  BY <1>1 DEF Saw
<1>3. vault[n].version \in Nat /\ Cardinality(Lagging) \in Nat /\ Allowance \in Nat
  BY PaidTypes, FS_CardinalityType
<1>4. Total(n, s, spec, content)' <= Total(n, s, spec, content)
  <2>1. ASSUME NEW r \in Syncs, DeliverSync(r)
        PROVE  Total(n, s, spec, content)' <= Total(n, s, spec, content)
    <3>1. secretCache' = secretCache /\ Lagging' = Lagging
      BY <2>1 DEF DeliverSync, Lagging
    <3>2. cache'[s] = cache[s] \/ cache'[s] = api[s]
      BY <2>1 DEF DeliverSync, TypeOK
    <3> QED
      BY <1>1, <1>3, <3>1, <3>2 DEF Total, Count
  <2>2. ASSUME NEW k \in Secrets, DeliverSecret(k)
        PROVE  Total(n, s, spec, content)' <= Total(n, s, spec, content)
    <3>1. cache' = cache /\ Cardinality(Lagging') = Cardinality(Lagging) - 1
      BY <2>2, LaggingNext DEF DeliverSecret
    <3> QED
      BY <1>1, <1>3, <3>1 DEF Total, Count
  <2> QED
    BY <2>1, <2>2
<1>5. Total(n, s, spec, content) \in Nat
  BY TotalTypes
<1>6. Total(n, s, spec, content)' \in Int
  <2>1. Cardinality(Lagging') \in Nat
    BY LaggingNext
  <2> QED
    BY <1>1, <1>3, <2>1 DEF Total, Count
<1> QED
  BY <1>1, <1>2, <1>3, <1>4, <1>5, <1>6 DEF PaidByResource

\* A restart refreshes every copy at once.
LEMMA PaidRestart ==
  ASSUME TypeOK, CarryInv, IsFiniteSet(Lagging), Next, NEW n \in Names, NEW s \in Syncs,
         OnlyResource(n, s), PaidByResource(n, s), Restart
  PROVE  PaidByResource(n, s)'
<1> PICK spec \in SpecsOf[s], content \in Contents :
           Saw(s, spec, content) /\ Total(n, s, spec, content) <= Allowance
  BY DEF PaidByResource
<1>1. /\ cache' = api /\ api' = api /\ secretCache' = secret /\ worker' = Idle
      /\ Cardinality(Lagging') = 0
      /\ Spend("restarts")
  BY LaggingNext DEF Restart
<1>2. Allowance' = Allowance
  BY <1>1 DEF Allowance, Spend, TypeOK, Bounds
<1>3. Saw(s, spec, content)'
  BY <1>1, NoSyncAssumption DEF Saw, Idle
<1>4. vault[n].version \in Nat /\ Cardinality(Lagging) \in Nat /\ Allowance \in Nat
  BY PaidTypes, FS_CardinalityType
<1>5. vault'[n].version + Count(Owed(spec, content, n)')
        = vault[n].version + Count(Owed(spec, content, n))
  <2>1. CASE vault' = vault
    BY <2>1 DEF Owed
  <2> QED
    BY <2>1, MintSeen DEF Restart
<1>6. Count(content # secret[spec.secret])
        <= Count(content # secretCache[spec.secret]) + Cardinality(Lagging)
  <2>1. CASE spec.secret \in Lagging
    <3>1. Cardinality(Lagging) # 0
      BY <2>1, FS_EmptySet
    <3> QED
      BY <1>4, <3>1 DEF Count
  <2>2. CASE spec.secret \notin Lagging
    <3>1. spec.secret \in Secrets
      BY SpecsAssumption DEF Spec
    <3> QED
      BY <1>4, <2>2, <3>1 DEF Lagging, Count
  <2> QED
    BY <2>1, <2>2
<1>7. Total(n, s, spec, content)' <= Allowance
  <2>1. Total(n, s, spec, content)'
          = vault[n].version + Count(Owed(spec, content, n)) + Count(spec # api[s].spec) + 0
              + Count(content # secret[spec.secret]) + 0
    BY <1>1, <1>5 DEF Total, Count
  <2> QED
    BY <1>4, <1>6, <2>1 DEF Total, Count
<1> QED
  BY <1>2, <1>3, <1>7 DEF PaidByResource

\* A user's edit, or the write of a Secret, pays for the copy it makes stale.
LEMMA PaidCluster ==
  ASSUME TypeOK, IsFiniteSet(Lagging), Next, NEW n \in Names, NEW s \in Syncs,
         PaidByResource(n, s),
         \/ \E r \in Syncs : Edited(r)
         \/ \E k \in Secrets : \E c \in Contents : WriteSecret(k, c)
  PROVE  PaidByResource(n, s)'
<1> PICK spec \in SpecsOf[s], content \in Contents :
           Saw(s, spec, content) /\ Total(n, s, spec, content) <= Allowance
  BY DEF PaidByResource
<1>1. UNCHANGED <<cache, secretCache, vault>> /\ Owed(spec, content, n)' = Owed(spec, content, n)
  BY DEF Edited, WriteSecret, Owed
<1>2. /\ worker'.step = worker.step /\ worker'.sync = worker.sync
      /\ worker'.object = worker.object /\ worker'.bundle = worker.bundle
  BY DEF Edited, WriteSecret, TypeOK, Worker
<1>3. Saw(s, spec, content)'
  BY <1>2 DEF Saw
<1>4. vault[n].version \in Nat /\ Cardinality(Lagging) \in Nat /\ Allowance \in Nat
  BY PaidTypes, FS_CardinalityType
<1>5. ASSUME NEW r \in Syncs, Edited(r)
      PROVE  Total(n, s, spec, content)' <= Total(n, s, spec, content) + 1
             /\ Allowance' = Allowance + 1
  <2>1. Lagging' = Lagging
    BY <1>5 DEF Edited, Lagging
  <2>2. Allowance' = Allowance + 1
    BY <1>5, PaidTypes DEF Edited, Allowance, TypeOK, Bounds
  <2> QED
    BY <1>1, <1>4, <2>1, <2>2 DEF Total, Count
<1>6. ASSUME NEW k \in Secrets, NEW c \in Contents, WriteSecret(k, c)
      PROVE  Total(n, s, spec, content)' <= Total(n, s, spec, content) + 1
             /\ Allowance' = Allowance + 1
  <2>1. api' = api /\ Cardinality(Lagging') <= Cardinality(Lagging) + 1
    BY <1>6, LaggingNext DEF WriteSecret
  <2>2. Allowance' = Allowance + 1
    BY <1>6, PaidTypes DEF WriteSecret, Spend, Allowance, TypeOK, Bounds
  <2>3. Cardinality(Lagging') \in Nat
    BY LaggingNext
  <2> QED
    BY <1>1, <1>4, <2>1, <2>2, <2>3 DEF Total, Count
<1>7. Total(n, s, spec, content) \in Nat /\ Total(n, s, spec, content)' \in Int
  <2>1. Cardinality(Lagging') \in Nat
    BY LaggingNext
  <2> QED
    BY <1>1, <1>4, <2>1, TotalTypes DEF Total, Count
<1> QED
  BY <1>3, <1>4, <1>5, <1>6, <1>7 DEF PaidByResource

\* A change out of band may be a version and may leave one owed.
LEMMA OutOfBandVersion ==
  ASSUME TypeOK, NEW m \in Names, NEW object \in OutOfBand(m)
  PROVE  object.version \in {vault[m].version, vault[m].version + 1}
<1>1. vault[m] \in VaultObject
  BY DEF TypeOK
<1>2. CASE object = [vault[m] EXCEPT !.exists = FALSE, !.leaf = None, !.digest = None,
                                     !.enabled = FALSE]
  BY <1>1, <1>2 DEF VaultObject
<1>3. CASE object = [vault[m] EXCEPT !.enabled = vault[m].exists /\ ~@]
  BY <1>1, <1>3 DEF VaultObject
<1>4. CASE \E l \in Leaves : object = [exists |-> TRUE, leaf |-> l, digest |-> None,
                                       enabled |-> TRUE, version |-> vault[m].version + 1]
  BY <1>4
<1> QED
  BY <1>2, <1>3, <1>4 DEF OutOfBand

LEMMA ForeignCosts ==
  ASSUME TypeOK, NEW n \in Names, NEW m \in Names, NEW object \in OutOfBand(m),
         WriteVault(m, object)
  PROVE  /\ vault'[n].version \in Nat /\ vault'[n].version <= vault[n].version + 1
         /\ Allowance' = Allowance + 2
<1>1. vault[m].version \in Nat /\ vault[n].version \in Nat
  BY PaidTypes
<1>2. object.version \in {vault[m].version, vault[m].version + 1}
  BY OutOfBandVersion
<1>3. vault'[n] = IF n = m THEN object ELSE vault[n]
  BY DEF WriteVault, TypeOK
<1>4. Allowance' = Allowance + 2
  BY PaidTypes DEF WriteVault, Spend, Allowance, TypeOK, Bounds
<1> QED
  BY <1>1, <1>2, <1>3, <1>4

LEMMA PaidForeign ==
  ASSUME TypeOK, IsFiniteSet(Lagging), NEW n \in Names, NEW s \in Syncs,
         PaidByResource(n, s), NEW m \in Names, NEW object \in OutOfBand(m),
         WriteVault(m, object)
  PROVE  PaidByResource(n, s)'
<1> PICK spec \in SpecsOf[s], content \in Contents :
           Saw(s, spec, content) /\ Total(n, s, spec, content) <= Allowance
  BY DEF PaidByResource
<1>1. UNCHANGED <<api, cache, secretCache, worker>> /\ Lagging' = Lagging
  BY DEF WriteVault, Lagging
<1>2. Saw(s, spec, content)'
  BY <1>1 DEF Saw
<1>3. vault[n].version \in Nat /\ Cardinality(Lagging) \in Nat /\ Allowance \in Nat
  BY PaidTypes, FS_CardinalityType
<1>4. Total(n, s, spec, content)' <= Total(n, s, spec, content) + 2
  BY <1>1, <1>3, ForeignCosts DEF Total, Count
<1>5. Total(n, s, spec, content)' \in Int /\ Total(n, s, spec, content) \in Nat
  BY <1>1, <1>3, ForeignCosts, TotalTypes DEF Total, Count
<1> QED
  BY <1>2, <1>3, <1>4, <1>5, ForeignCosts DEF PaidByResource

\* The same for a name that one Secret feeds: it does not matter whose pass it
\* is, nor what users edit.
LEMMA SecretTotalTypes ==
  ASSUME TypeOK, NEW n \in Names, NEW k \in Secrets, NEW content
  PROVE  /\ SecretTotal(n, k, content) \in Nat
         /\ SecretTotal(n, k, secretCache[k]) <= SecretTotal(n, k, content)
         /\ vault[n].version <= SecretTotal(n, k, content)
<1>1. vault[n].version \in Nat
  BY PaidTypes
<1> QED
  BY <1>1 DEF SecretTotal, Count

\* Steps that leave the Secrets and their copies alone, and no less allowed.
LEMMA SecretPaidQuiet ==
  ASSUME TypeOK, CarryInv, NEW n \in Names, NEW k \in Secrets, OnlySecret(n, k),
         PaidBySecret(n, k), PassCarries, UNCHANGED <<secret, secretCache>>,
         Allowance' \in Nat, Allowance' >= Allowance,
         vault' = vault \/ (worker.step = "import" /\ Mint(worker.target, worker.bundle))
  PROVE  PaidBySecret(n, k)'
<1> PICK content \in Contents :
           SawSecret(n, content) /\ SecretTotal(n, k, content) <= Allowance
  BY DEF PaidBySecret
<1>1. vault[n].version \in Nat /\ Allowance \in Nat /\ SecretTotal(n, k, content) \in Nat
  BY PaidTypes, SecretTotalTypes
<1>2. SecretTotal(n, k, content)' = SecretTotal(n, k, content)
  <2>1. CASE vault'[n] = vault[n]
    BY <2>1 DEF SecretTotal
  <2>2. CASE /\ worker.step = "import" /\ worker.target = n
             /\ vault'[n].version = vault[n].version + 1
             /\ ~Mirrors(vault[n], worker.bundle) /\ Mirrors(vault'[n], worker.bundle)
    BY <1>1, <2>2 DEF SawSecret, SecretTotal, Count
  <2> QED
    BY <2>1, <2>2, MintPays
<1>3. ASSUME SawSecret(n, content)' PROVE PaidBySecret(n, k)'
  BY <1>1, <1>2, <1>3 DEF PaidBySecret
<1>4. CASE PassEnds \/ PassBegins
  BY <1>3, <1>4 DEF PassEnds, PassBegins, SawSecret
<1>5. CASE PassGoesOn
  BY <1>3, <1>5 DEF PassGoesOn, SawSecret
<1>6. CASE PassLoads
  <2> DEFINE spec == worker.object.spec
  <2>1. /\ spec \in SpecsOf[worker.sync] /\ spec \in Spec /\ worker.sync \in Syncs
        /\ secretCache[spec.secret] \in Contents
    BY <1>6 DEF PassLoads, CarryInv, SpecsGiven, TypeOK, SyncObject, Spec
  <2>2. secretCache[spec.secret].state = "bundle"
    BY <1>6, <2>1, LoadedSound DEF PassLoads
  <2>3. CASE worker'.target # n
    BY <1>3, <2>3 DEF SawSecret
  <2>4. CASE worker'.target = n
    <3>1. spec.secret = k
      BY <1>6, <2>1, <2>2, <2>4 DEF PassLoads, OnlySecret, Feeds
    <3> PICK c \in Contents : c = secretCache[k]
      BY <2>1, <3>1
    <3>2. SawSecret(n, c)'
      BY <1>6, <2>2, <3>1 DEF PassLoads, SawSecret
    <3>3. vault' = vault
      BY <1>6 DEF PassLoads
    <3>4. SecretTotal(n, k, c)' = SecretTotal(n, k, c)
      BY <3>3 DEF SecretTotal
    <3>5. SecretTotal(n, k, c) <= Allowance /\ SecretTotal(n, k, c) \in Nat
      BY <1>1, SecretTotalTypes
    <3> QED
      BY <1>1, <3>2, <3>4, <3>5 DEF PaidBySecret
  <2> QED
    BY <2>3, <2>4
<1> QED
  BY <1>4, <1>5, <1>6 DEF PassCarries

LEMMA SecretPaidDeliver ==
  ASSUME TypeOK, NEW n \in Names, NEW k \in Secrets, PaidBySecret(n, k),
         NEW j \in Secrets, DeliverSecret(j)
  PROVE  PaidBySecret(n, k)'
<1> PICK content \in Contents :
           SawSecret(n, content) /\ SecretTotal(n, k, content) <= Allowance
  BY DEF PaidBySecret
<1>1. /\ UNCHANGED <<secret, vault, worker, spent>> /\ Allowance' = Allowance
      /\ secretCache'[k] = secretCache[k] \/ (secretCache'[k] = secret[k] /\ secretCache[k] # secret[k])
  BY DEF DeliverSecret, Allowance, TypeOK
<1>2. vault[n].version \in Nat /\ Allowance \in Nat
  BY PaidTypes
<1>3. SecretTotal(n, k, content)' <= Allowance
  BY <1>1, <1>2 DEF SecretTotal, Count
<1> QED
  BY <1>1, <1>3 DEF PaidBySecret, SawSecret

LEMMA SecretPaidWrite ==
  ASSUME TypeOK, NEW n \in Names, NEW k \in Secrets, PaidBySecret(n, k),
         NEW j \in Secrets, NEW c \in Contents, WriteSecret(j, c)
  PROVE  PaidBySecret(n, k)'
<1> PICK content \in Contents :
           SawSecret(n, content) /\ SecretTotal(n, k, content) <= Allowance
  BY DEF PaidBySecret
<1>1. UNCHANGED <<secretCache, vault, worker>>
  BY DEF WriteSecret
<1>2. vault[n].version \in Nat /\ Allowance \in Nat
  BY PaidTypes
<1>3. Allowance' = Allowance + 1
  BY PaidTypes DEF WriteSecret, Spend, Allowance, TypeOK, Bounds
<1>4. SecretTotal(n, k, content)' <= Allowance + 1
  BY <1>1, <1>2 DEF SecretTotal, Count
<1> QED
  BY <1>1, <1>3, <1>4 DEF PaidBySecret, SawSecret

LEMMA SecretPaidRestart ==
  ASSUME TypeOK, CarryInv, NEW n \in Names, NEW k \in Secrets, PaidBySecret(n, k), Restart
  PROVE  PaidBySecret(n, k)'
<1> PICK content \in Contents :
           SawSecret(n, content) /\ SecretTotal(n, k, content) <= Allowance
  BY DEF PaidBySecret
<1>1. secretCache' = secret /\ secret' = secret /\ worker'.step = "idle" /\ Spend("restarts")
  BY DEF Restart, Idle
<1>2. Allowance' = Allowance
  BY <1>1 DEF Allowance, Spend, TypeOK, Bounds
<1>3. vault[n].version \in Nat /\ Allowance \in Nat
  BY PaidTypes
<1>4. SecretTotal(n, k, content)' <= SecretTotal(n, k, content)
  <2>1. CASE vault'[n] = vault[n]
    BY <1>1, <1>3, <2>1 DEF SecretTotal, Count
  <2>2. CASE /\ worker.step = "import" /\ worker.target = n
             /\ vault'[n].version = vault[n].version + 1
             /\ ~Mirrors(vault[n], worker.bundle) /\ Mirrors(vault'[n], worker.bundle)
    BY <1>1, <1>3, <2>2 DEF SawSecret, SecretTotal, Count
  <2> QED
    BY <2>1, <2>2, MintPays DEF Restart
<1>5. SecretTotal(n, k, content)' <= Allowance
  <2>1. SecretTotal(n, k, content) \in Nat
    BY SecretTotalTypes
  <2>2. SecretTotal(n, k, content)' \in Int
    <3>1. vault'[n].version \in Int
      BY <1>3, MintPays DEF Restart
    <3> QED
      BY <3>1 DEF SecretTotal, Count
  <2> QED
    BY <1>3, <1>4, <2>1, <2>2
<1> QED
  BY <1>1, <1>2, <1>5 DEF PaidBySecret, SawSecret

LEMMA SecretPaidForeign ==
  ASSUME TypeOK, NEW n \in Names, NEW k \in Secrets, PaidBySecret(n, k),
         NEW m \in Names, NEW object \in OutOfBand(m), WriteVault(m, object)
  PROVE  PaidBySecret(n, k)'
<1> PICK content \in Contents :
           SawSecret(n, content) /\ SecretTotal(n, k, content) <= Allowance
  BY DEF PaidBySecret
<1>1. UNCHANGED <<secret, secretCache, worker>>
  BY DEF WriteVault
<1>2. vault[n].version \in Nat /\ Allowance \in Nat
  BY PaidTypes
<1>3. SecretTotal(n, k, content)' <= Allowance + 2
  BY <1>1, <1>2, ForeignCosts DEF SecretTotal, Count
<1> QED
  BY <1>1, <1>2, <1>3, ForeignCosts DEF PaidBySecret, SawSecret

-----------------------------------------------------------------------------
PaidInv ==
  /\ IsFiniteSet(Lagging)
  /\ \A n \in Names : /\ \A s \in Syncs : OnlyResource(n, s) => PaidByResource(n, s)
                      /\ \A k \in Secrets : OnlySecret(n, k) => PaidBySecret(n, k)

LEMMA PaidInit == Init => PaidInv
<1> SUFFICES ASSUME Init PROVE PaidInv
  OBVIOUS
<1>1. TypeOK /\ CarryInv
  BY TypeInit, CarryInit
<1>2. Lagging = {} /\ IsFiniteSet(Lagging) /\ Cardinality(Lagging) = 0 /\ Allowance = 1
  BY LaggingInit DEF Init, Allowance
<1>3. ASSUME NEW n \in Names, NEW s \in Syncs PROVE PaidByResource(n, s)
  <2> DEFINE spec == api[s].spec
             content == secret[spec.secret]
  <2>1. spec \in SpecsOf[s] /\ content \in Contents
    BY <1>1 DEF CarryInv, SpecsGiven, TypeOK, SyncObject, Spec
  <2>2. Saw(s, spec, content)
    BY NoSyncAssumption DEF Init, Idle, Saw
  <2>3. vault[n].version = 0 /\ cache = api /\ secretCache = secret
    BY DEF Init, EmptyVaultObject
  <2>4. Total(n, s, spec, content) <= 1
    BY <1>2, <2>3 DEF Total, Count
  <2> QED
    BY <1>2, <2>1, <2>2, <2>4 DEF PaidByResource
<1>4. ASSUME NEW n \in Names, NEW k \in Secrets PROVE PaidBySecret(n, k)
  <2>1. secret[k] \in Contents /\ secretCache = secret
    BY DEF Init
  <2>2. SawSecret(n, secret[k])
    BY DEF Init, Idle, SawSecret
  <2>3. vault[n].version = 0
    BY DEF Init, EmptyVaultObject
  <2>4. SecretTotal(n, k, secret[k]) <= 1
    BY <2>1, <2>3 DEF SecretTotal, Count
  <2> QED
    BY <1>2, <2>1, <2>2, <2>4 DEF PaidBySecret
<1> QED
  BY <1>2, <1>3, <1>4 DEF PaidInv

LEMMA PaidNext == TypeOK /\ CarryInv /\ PaidInv /\ [Next]_vars => PaidInv'
<1> SUFFICES ASSUME TypeOK, CarryInv, PaidInv, [Next]_vars PROVE PaidInv'
  OBVIOUS
<1>1. CASE UNCHANGED vars
  BY <1>1 DEF vars, PaidInv, Lagging, PaidByResource, Saw, Total, Owed, Allowance, PaidBySecret,
     SawSecret, SecretTotal
<1>2. CASE Next
  <2>1. IsFiniteSet(Lagging')
    BY <1>2, LaggingNext DEF PaidInv
  <2>2. PassCarries
    BY <1>2, CarriesNext
  <2>3. ASSUME NEW r \in Syncs,
               DeleteSync(r) \/ \E spec \in SpecsOf[r] : CreateSync(r, spec) \/ EditSync(r, spec)
        PROVE  Edited(r) /\ UNCHANGED <<secret, secretCache, vault>>
               /\ Allowance' \in Nat /\ Allowance' >= Allowance
    <3>1. Edited(r)
      BY <2>3, EnvironmentEdits DEF CarryInv, SpecsGiven
    <3>2. Allowance' = Allowance + 1
      BY <3>1, PaidTypes DEF Edited, Allowance, TypeOK, Bounds
    <3> QED
      BY <3>1, <3>2, PaidTypes DEF Edited
  <2>4. ASSUME NEW n \in Names, NEW s \in Syncs, OnlyResource(n, s) PROVE PaidByResource(n, s)'
    <3>1. PaidByResource(n, s) /\ IsFiniteSet(Lagging)
      BY <2>4 DEF PaidInv
    <3>2. CASE \/ Pass
               \/ \E r \in Syncs : Start(r) \/ Fire(r, "backoff") \/ Fire(r, "resync")
               \/ AzureFlips \/ Tick
      BY <2>2, <2>4, <3>1, <3>2, CalmSteps, PaidCalm
    <3>3. CASE (\E r \in Syncs : DeliverSync(r)) \/ (\E k \in Secrets : DeliverSecret(k))
      BY <1>2, <3>1, <3>3, PaidDeliver
    <3>4. CASE Restart
      BY <1>2, <2>4, <3>1, <3>4, PaidRestart
    <3>5. CASE \/ \E r \in Syncs : Edited(r)
               \/ \E k \in Secrets : \E c \in Contents : WriteSecret(k, c)
      BY <1>2, <3>1, <3>5, PaidCluster
    <3>6. CASE \E m \in Names : \E object \in OutOfBand(m) : WriteVault(m, object)
      BY <3>1, <3>6, PaidForeign
    <3> QED
      BY <1>2, <2>3, <3>2, <3>3, <3>4, <3>5, <3>6 DEF Next, Wake, Environment
  <2>5. ASSUME NEW n \in Names, NEW k \in Secrets, OnlySecret(n, k) PROVE PaidBySecret(n, k)'
    <3>1. PaidBySecret(n, k) /\ Allowance \in Nat
      BY <2>5, PaidTypes DEF PaidInv
    <3>2. CASE \/ Pass
               \/ \E r \in Syncs : Start(r) \/ Fire(r, "backoff") \/ Fire(r, "resync")
               \/ AzureFlips \/ Tick
      BY <2>2, <2>5, <3>1, <3>2, CalmSteps, SecretPaidQuiet DEF Calm
    <3>3. CASE \E r \in Syncs :
                 \/ DeliverSync(r) \/ DeleteSync(r)
                 \/ \E spec \in SpecsOf[r] : CreateSync(r, spec) \/ EditSync(r, spec)
      <4>1. UNCHANGED <<secret, secretCache, vault>>
        BY <3>3 DEF DeliverSync, DeleteSync, CreateSync, EditSync
      <4>2. Allowance' \in Nat /\ Allowance' >= Allowance
        BY <2>3, <3>1, <3>3 DEF DeliverSync, Allowance
      <4> QED
        BY <2>2, <2>5, <3>1, <4>1, <4>2, SecretPaidQuiet
    <3>4. CASE Restart
      BY <3>1, <3>4, SecretPaidRestart
    <3>5. CASE \E j \in Secrets : DeliverSecret(j) \/ \E c \in Contents : WriteSecret(j, c)
      BY <3>1, <3>5, SecretPaidDeliver, SecretPaidWrite
    <3>6. CASE \E m \in Names : \E object \in OutOfBand(m) : WriteVault(m, object)
      BY <3>1, <3>6, SecretPaidForeign
    <3> QED
      BY <1>2, <3>2, <3>3, <3>4, <3>5, <3>6 DEF Next, Wake, Environment
  <2> QED
    BY <2>1, <2>4, <2>5 DEF PaidInv
<1> QED
  BY <1>1, <1>2

\* Where no two resources put different Secrets under one name, the versions
\* of every Key Vault certificate are paid for by changes, whatever calls
\* fail, answers are lost, copies are stale or restarts intervene.
THEOREM VersionsPaid ==
  ASSUME NamesOwned
  PROVE  Safety => []VersionsPaidFor
<1>1. TypeOK /\ PaidInv => VersionsPaidFor
  <2> SUFFICES ASSUME TypeOK, PaidInv, NEW n \in Names
               PROVE  vault[n].version <= Allowance
    BY DEF VersionsPaidFor, Allowance
  <2>1. vault[n].version \in Nat /\ Allowance \in Nat
    BY PaidTypes
  <2>2. ASSUME NEW s \in Syncs, PaidByResource(n, s) PROVE vault[n].version <= Allowance
    BY <2>1, <2>2, TotalTypes DEF PaidByResource, PaidInv
  <2>3. ASSUME NEW k \in Secrets, PaidBySecret(n, k) PROVE vault[n].version <= Allowance
    BY <2>1, <2>3, SecretTotalTypes DEF PaidBySecret
  <2> QED
    BY <2>2, <2>3 DEF NamesOwned, PaidInv
<1>2. Init => TypeOK /\ CarryInv /\ PaidInv
  BY TypeInit, CarryInit, PaidInit
<1>3. Safety => [](TypeOK /\ CarryInv /\ PaidInv)
  BY <1>2, TypeNext, CarryNext, PaidNext, PTL DEF Safety
<1> QED
  BY <1>1, <1>3, PTL

-----------------------------------------------------------------------------
(***************************************************************************)
(* No wake-up is lost                                                      *)
(*                                                                         *)
(* A resource with no pass in progress and none to come must be accounted   *)
(* for.  A pass gives that only if it stores nothing: whatever it does      *)
(* store wakes the resource again.  So a pass that finds its own report in  *)
(* the status already has to know that the copy it started from and the     *)
(* Secret it loaded are still what the informers show, or that the key has  *)
(* been queued since; and a report that names a new version never is the    *)
(* status already, for the identifiers that statuses name are older.        *)
(***************************************************************************)
\* What Drifted and Accounted say, of the Secret's copy.
CopyOf(s) == secretCache[api[s].spec.secret]

DriftedCopy(s) ==
  CopyOf(s).state = "bundle" /\ TargetName(api[s].spec.name, CopyOf(s).bundle) \in touched

AccountedCopy(s, t) ==
  LET spec == api[s].spec
      status == api[s].status
      content == CopyOf(s)
      target == TargetName(spec.name, content.bundle)
  IN IF LoadError(spec, content) # "Valid"
       THEN status.ready = LoadError(spec, content)
     ELSE IF Validate(content.bundle, t) # "Valid"
       THEN status.ready = Validate(content.bundle, t)
     ELSE /\ Mirrors(vault[target], content.bundle)
          /\ status.name = target
          /\ status.bundle = content.bundle
          /\ status.observed = api[s].generation
          /\ status.ready = IF vault[target].enabled THEN "Synced" ELSE "DisabledInVault"

DoneFor(s) ==
  api[s].exists => /\ ~api[s].deleting /\ api[s].finalizer
                   /\ DriftedCopy(s) \/ \E t \in 0..now : AccountedCopy(s, t)

\* Something will start a pass for s.
Pending(s) == s \in queue \/ timer[s] = "backoff" \/ ~fresh[s]

\* A resource is in a pass, is to have one, or is done for.
Busy(s) == worker.step # "idle" /\ worker.sync = s
AtRest == \A s \in Syncs : Busy(s) \/ Pending(s) \/ DoneFor(s)

\* Whoever reads a name clears its mark, so that of a resource whose name
\* another one shares would not keep: every name has to be one resource's.
OneOwner == \A n \in Names : \E s \in Syncs : OnlyResource(n, s)

\* The copy a pass holds is the resource, while it has its resourceVersion;
\* when it has not, the pass is not the last one.
HeldCopy ==
  worker.step # "idle" =>
    /\ worker.current => api[worker.sync] = worker.object
    /\ ~worker.current => ~fresh[worker.sync] \/ worker.sync \in queue
    /\ worker.step # "finalize" => ~worker.object.deleting
    /\ worker.step \notin {"finalize", "adopt"} => worker.object.finalizer

\* No copy the pass works from has changed since.
Undisturbed == worker.current /\ fresh[worker.sync] /\ worker.sync \notin queue

\* What the Secret's copy holds is then what the pass loaded,
LoadedCopy ==
  worker.step \in {"read", "import"} /\ Undisturbed =>
    LET content == secretCache[worker.object.spec.secret]
    IN LoadError(worker.object.spec, content) = "Valid" /\ worker.bundle = content.bundle

\* and what it reports (by the clock at t, when the vault held this object for
\* the bundle's name and others had overwritten it, or not) follows
Judged(w, t, bundle, target, object, overwritten) ==
  \/ w.result = Validate(bundle, t) /\ w.result # "Valid"
  \/ /\ Validate(bundle, t) = "Valid" /\ Succeeded(w)
     /\ w.bundle = bundle /\ w.target = target
     /\ \/ overwritten
        \/ /\ Mirrors(object, bundle)
           /\ w.result = IF object.enabled THEN "Synced" ELSE "DisabledInVault"

\* from that, from the vault and from a moment of the clock, unless the pass
\* imported or is to come back.
ReportedCopy ==
  worker.step = "report" /\ Undisturbed /\ worker.version = NoVersion
  /\ worker.result # "VaultError" =>
    LET spec == worker.object.spec
        content == secretCache[spec.secret]
        target == TargetName(spec.name, content.bundle)
    IN \/ worker.result = LoadError(spec, content) /\ worker.result # "Valid"
       \/ /\ LoadError(spec, content) = "Valid"
          /\ \E t \in 0..now :
               Judged(worker, t, content.bundle, target, vault[target], target \in touched)

\* A version that an import returned is newer than any a status names.
Known(id, v) == id = NoVersion \/ (id.of \in Names /\ id.number <= v[id.of].version)
VersionsKnown ==
  /\ \A s \in Syncs : Known(api[s].status.version, vault) /\ Known(cache[s].status.version, vault)
  /\ worker.step # "idle" => Known(worker.object.status.version, vault)
  /\ worker.version # NoVersion =>
       /\ worker.step = "report" /\ Succeeded(worker)
       /\ Known(worker.version, vault) /\ worker.version # worker.object.status.version

WakeInv == AtRest /\ HeldCopy /\ LoadedCopy /\ ReportedCopy /\ VersionsKnown

LEMMA WakeInit == Init => WakeInv
<1> SUFFICES ASSUME Init PROVE WakeInv
  OBVIOUS
<1>1. /\ worker.step = "idle" /\ worker.version = NoVersion /\ queue = Syncs
      /\ \A s \in Syncs : api[s].status.version = NoVersion /\ cache[s].status.version = NoVersion
  BY DEF Init, Idle, Created, NoStatus
<1> QED
  BY <1>1 DEF WakeInv, AtRest, Pending, HeldCopy, LoadedCopy, ReportedCopy, VersionsKnown, Known

\* Version numbers only grow, so what is known stays known.
LEMMA VersionsGrow ==
  ASSUME TypeOK, CarryInv, Next
  PROVE  \A n \in Names : /\ vault[n].version \in Nat /\ vault'[n].version \in Nat
                          /\ vault[n].version <= vault'[n].version
<1> SUFFICES ASSUME NEW n \in Names
             PROVE  /\ vault[n].version \in Nat /\ vault'[n].version \in Nat
                    /\ vault[n].version <= vault'[n].version
  OBVIOUS
<1>1. vault[n].version \in Nat
  BY PaidTypes
<1>2. CASE vault'[n] = vault[n]
  BY <1>1, <1>2
<1>3. CASE worker.step = "import" /\ Mint(worker.target, worker.bundle)
  BY <1>1, <1>3, MintPays
<1>4. CASE \E m \in Names : \E object \in OutOfBand(m) : vault' = [vault EXCEPT ![m] = object]
  <2> PICK m \in Names : \E object \in OutOfBand(m) : vault' = [vault EXCEPT ![m] = object]
    BY <1>4
  <2> PICK object \in OutOfBand(m) : vault' = [vault EXCEPT ![m] = object]
    OBVIOUS
  <2>1. object.version \in {vault[m].version, vault[m].version + 1}
    BY OutOfBandVersion
  <2>2. vault'[n] = IF n = m THEN object ELSE vault[n]
    BY DEF TypeOK
  <2> QED
    BY <1>1, <2>1, <2>2
<1> QED
  BY <1>2, <1>3, <1>4, VaultSteps DEF VaultEvents

LEMMA KnownGrows ==
  ASSUME TypeOK, CarryInv, Next, NEW id \in VersionId, Known(id, vault)
  PROVE  Known(id, vault')
<1>1. id.of \in Names => vault[id.of].version <= vault'[id.of].version
  BY VersionsGrow
<1> QED
  BY <1>1, VersionsGrow DEF Known, VersionId

\* A stored status keeps its version, has none, or has the one to report.
LEMMA StatusVersions ==
  ASSUME TypeOK, Next, NEW s \in Syncs
  PROVE  \/ api'[s].status.version = api[s].status.version
         \/ api'[s].status.version = NoVersion
         \/ /\ worker.step = "report"
            /\ api'[s].status.version \in {worker.version, worker.object.status.version}
<1>1. CASE UNCHANGED api
  BY <1>1
<1>2. CASE Pass
  <2> DEFINE o == api[worker.sync]
  <2>1. worker.sync \in Syncs /\ o \in SyncObject
    BY <1>2, PassSteps DEF TypeOK
  <2>2. CASE Store([o EXCEPT !.finalizer = TRUE])
    <3>1. [o EXCEPT !.finalizer = TRUE].status = o.status
      BY <2>1 DEF SyncObject
    <3> QED
      BY <2>1, <2>2, <3>1 DEF Store, TypeOK
  <2>3. CASE Store(Gone(o))
    <3>1. Gone(o).status.version = NoVersion
      BY DEF Gone, NoStatus
    <3> QED
      BY <2>1, <2>3, <3>1 DEF Store, TypeOK
  <2>4. CASE worker.step = "report" /\ Store([o EXCEPT !.status = ReportedStatus(worker)])
    <3>1. [o EXCEPT !.status = ReportedStatus(worker)].status = ReportedStatus(worker)
      BY <2>1 DEF SyncObject
    <3>2. ReportedStatus(worker).version \in {worker.version, worker.object.status.version}
      <4>1. worker.object.status \in Status
        BY <2>4 DEF TypeOK, SyncObject
      <4> QED
        BY <4>1 DEF ReportedStatus, Status
    <3> QED
      BY <2>1, <2>4, <3>1, <3>2 DEF Store, TypeOK
  <2> QED
    BY <1>1, <1>2, <2>2, <2>3, <2>4 DEF Pass, Adopt, AdoptFails, Load, Read, ReadFails, Import,
       ImportFails, Report, ReportFails, StoreStatus, Finalize, FinalizeFails
<1>3. ASSUME NEW r \in Syncs, NEW object, Overwrite(r, object),
             object.status = api[r].status \/ object.status.version = NoVersion
      PROVE  api'[s].status.version \in {api[s].status.version, NoVersion}
  BY <1>3 DEF Overwrite, TypeOK
<1>4. CASE Environment
  <2>1. ASSUME NEW r \in Syncs, DeleteSync(r)
        PROVE  api'[s].status.version \in {api[s].status.version, NoVersion}
    <3> DEFINE object == IF api[r].finalizer THEN [api[r] EXCEPT !.deleting = TRUE]
                                             ELSE Gone(api[r])
    <3>1. api[r] \in SyncObject
      BY DEF TypeOK
    <3>2. object.status = api[r].status \/ object.status.version = NoVersion
      BY <3>1 DEF SyncObject, Gone, NoStatus
    <3> QED
      BY <1>3, <2>1, <3>2 DEF DeleteSync
  <2>2. ASSUME NEW r \in Syncs, NEW spec, CreateSync(r, spec)
        PROVE  api'[s].status.version \in {api[s].status.version, NoVersion}
    <3>1. Created(spec).status.version = NoVersion
      BY DEF Created, NoStatus
    <3> QED
      BY <1>3, <2>2, <3>1 DEF CreateSync
  <2>3. ASSUME NEW r \in Syncs, NEW spec, EditSync(r, spec)
        PROVE  api'[s].status.version \in {api[s].status.version, NoVersion}
    <3>1. [api[r] EXCEPT !.spec = spec, !.generation = @ + 1].status = api[r].status
      BY DEF TypeOK, SyncObject
    <3> QED
      BY <1>3, <2>3, <3>1 DEF EditSync
  <2> QED
    BY <1>1, <1>4, <2>1, <2>2, <2>3 DEF Environment, WriteSecret, WriteVault, AzureFlips, Tick
<1> QED
  BY <1>1, <1>2, <1>4 DEF Next, Start, Wake, DeliverSync, DeliverSecret, Fire, Restart

\* Only an import gives a pass a version.
LEMMA WorkerVersions ==
  ASSUME TypeOK, Next
  PROVE  \/ worker'.version = NoVersion
         \/ /\ worker'.version = worker.version
            /\ worker'.step = worker.step \/ worker.step # "report"
            /\ worker'.result = worker.result \/ worker.step # "report"
         \/ Import
<1>1. worker \in Worker
  BY DEF TypeOK
<1>2. CASE Pass
  <2>1. CASE Adopt \/ Load \/ Read \/ ReadFails \/ ImportFails
    <3>1. worker'.version = worker.version /\ worker.step # "report"
      BY <1>1, <2>1 DEF Adopt, Load, Read, ReadFails, ImportFails, Conclude, Worker
    <3> QED
      BY <3>1
  <2>2. CASE AdoptFails \/ Report \/ ReportFails \/ Finalize \/ FinalizeFails
    BY <2>2 DEF AdoptFails, Report, ReportFails, Finalize, FinalizeFails, Idle
  <2> QED
    BY <1>2, <2>1, <2>2 DEF Pass
<1>3. CASE \E s \in Syncs : Start(s)
  BY <1>1, <1>3 DEF Start, Worker
<1>4. CASE Restart
  BY <1>4 DEF Restart, Idle
<1>5. CASE Wake \/ Environment
  <2>1. UNCHANGED worker \/ \E s : worker' = [worker EXCEPT !.current = @ /\ worker.sync # s]
    BY <1>5 DEF Wake, DeliverSync, DeliverSecret, Fire, Environment, DeleteSync, CreateSync,
       EditSync, WriteSecret, WriteVault, AzureFlips, Tick, Overwrite
  <2> QED
    BY <1>1, <2>1 DEF Worker
<1> QED
  BY <1>2, <1>3, <1>4, <1>5 DEF Next

LEMMA VersionsKnownNext ==
  ASSUME TypeOK, TypeOK', CarryInv, VersionsKnown, Next
  PROVE  VersionsKnown'
<1>1. \A id \in VersionId : Known(id, vault) => Known(id, vault')
  BY KnownGrows
<1>2. Known(NoVersion, vault')
  BY DEF Known
<1>3. /\ \A s \in Syncs : /\ api[s].status.version \in VersionId
                          /\ cache[s].status.version \in VersionId
      /\ worker.step # "idle" => worker.object.status.version \in VersionId
      /\ worker.version \in VersionId
  BY DEF TypeOK, SyncObject, Status, Worker
<1>4. /\ \A s \in Syncs : Known(api'[s].status.version, vault') /\ Known(cache'[s].status.version, vault')
  <2>1. ASSUME NEW s \in Syncs PROVE Known(api'[s].status.version, vault')
    <3>1. CASE api'[s].status.version \in {api[s].status.version, NoVersion}
      BY <1>1, <1>2, <1>3, <3>1 DEF VersionsKnown
    <3>2. CASE /\ worker.step = "report"
               /\ api'[s].status.version \in {worker.version, worker.object.status.version}
      BY <1>1, <1>2, <1>3, <3>2 DEF VersionsKnown
    <3> QED
      BY <3>1, <3>2, StatusVersions
  <2>2. ASSUME NEW s \in Syncs PROVE Known(cache'[s].status.version, vault')
    <3>1. cache'[s].status.version \in {cache[s].status.version, api[s].status.version}
      BY CopiesFollow
    <3> QED
      BY <1>1, <1>3, <3>1 DEF VersionsKnown
  <2> QED
    BY <2>1, <2>2
<1>5. worker'.step # "idle" => Known(worker'.object.status.version, vault')
  <2>1. ASSUME worker'.step # "idle"
        PROVE  \/ worker.step # "idle" /\ worker'.object.status = worker.object.status
               \/ \E s \in Syncs : worker'.object = cache[s]
    BY <2>1, CarriesNext DEF PassCarries, PassEnds, PassBegins, PassLoads, PassGoesOn
  <2> QED
    BY <1>1, <1>3, <2>1 DEF VersionsKnown
<1>6. ASSUME worker'.version # NoVersion
      PROVE  /\ worker'.step = "report" /\ Succeeded(worker')
             /\ Known(worker'.version, vault') /\ worker'.version # worker'.object.status.version
  <2>1. CASE worker'.version = worker.version
    <3>1. /\ worker.step = "report" /\ Succeeded(worker)
          /\ Known(worker.version, vault) /\ worker.version # worker.object.status.version
      BY <1>6, <2>1 DEF VersionsKnown
    <3>2. worker'.step = "report" /\ worker'.result = worker.result
      BY <1>6, <3>1, WorkerVersions DEF Import
    <3>3. worker'.object.status = worker.object.status
      BY <3>1, <3>2, CarriesNext DEF PassCarries, PassEnds, PassBegins, PassLoads, PassGoesOn
    <3> QED
      BY <1>1, <1>3, <2>1, <3>1, <3>2, <3>3 DEF Succeeded
  <2>2. CASE Import
    <3> DEFINE n == worker.target
    <3>1. n \in Names /\ worker.step = "import" /\ Mint(n, worker.bundle)
      BY <2>2 DEF Import, TypeOK
    <3>2. vault'[n].version = vault[n].version + 1
      BY <3>1 DEF Mint, ImportedObject, TypeOK
    <3>3. /\ worker'.step = "report" /\ worker'.object = worker.object
          /\ worker'.version = [of |-> n, number |-> vault'[n].version]
          /\ worker'.result = Outcome(worker.bundle, worker.snap)
      BY <2>2 DEF Import, TypeOK, Worker
    <3>4. Succeeded(worker')
      BY <3>3, OutcomeType DEF Succeeded
    <3>5. Known(worker'.version, vault')
      BY <3>1, <3>2, <3>3, VersionsGrow DEF Known
    <3>6. worker'.version # worker.object.status.version
      <4>1. Known(worker.object.status.version, vault) /\ vault[n].version \in Nat
        BY <3>1, PaidTypes DEF VersionsKnown
      <4> QED
        BY <1>6, <3>2, <3>3, <4>1 DEF Known
    <3> QED
      BY <3>3, <3>4, <3>5, <3>6
  <2> QED
    BY <1>6, <2>1, <2>2, WorkerVersions
<1> QED
  BY <1>4, <1>5, <1>6 DEF VersionsKnown

\* The pass's copy of its resource, and whether it is still the resource.
LEMMA HeldCopyStart ==
  ASSUME TypeOK, FinalizerInv, NEW s \in Syncs, Start(s)
  PROVE  HeldCopy'
<1>1. UNCHANGED <<api, fresh>>
  BY DEF Start
<1>2. CASE ~cache[s].exists
  BY <1>2 DEF Start, HeldCopy
<1>3. CASE cache[s].exists
  <2>1. /\ worker'.object = cache[s] /\ worker'.sync = s /\ worker'.current = fresh[s]
        /\ worker'.step = IF cache[s].deleting THEN "finalize"
                          ELSE IF cache[s].finalizer THEN "load" ELSE "adopt"
    BY <1>3 DEF Start, TypeOK, Worker
  <2>2. cache[s].deleting \in BOOLEAN /\ cache[s].finalizer \in BOOLEAN
    BY DEF TypeOK, SyncObject
  <2> QED
    BY <1>1, <2>1, <2>2 DEF HeldCopy, FinalizerInv, FreshCopies
<1> QED
  BY <1>2, <1>3

LEMMA HeldCopyPass ==
  ASSUME TypeOK, HeldCopy, Pass
  PROVE  HeldCopy'
<1>1. /\ worker.sync \in Syncs /\ worker.object \in SyncObject /\ worker \in Worker
      /\ api[worker.sync] \in SyncObject
  BY PassSteps DEF TypeOK
<1>2. CASE Adopt
  <2>1. /\ worker'.object = [worker.object EXCEPT !.finalizer = TRUE] /\ worker'.step = "load"
        /\ worker'.sync = worker.sync /\ worker'.current = worker.current
    BY <1>1, <1>2 DEF Adopt, Worker
  <2>2. api'[worker.sync] = [api[worker.sync] EXCEPT !.finalizer = TRUE] /\ worker.current
    BY <1>1, <1>2 DEF Adopt, Store, TypeOK
  <2>3. worker'.object.finalizer /\ worker'.object.deleting = worker.object.deleting
    BY <1>1, <2>1 DEF SyncObject
  <2>4. worker'.current /\ api'[worker'.sync] = worker'.object
    <3>1. api[worker.sync] = worker.object /\ worker.step # "idle"
      BY <1>2, <2>2 DEF HeldCopy, Adopt
    <3>2. [api[worker.sync] EXCEPT !.finalizer = TRUE] = worker'.object
      BY <2>1, <3>1
    <3> QED
      BY <2>1, <2>2, <3>2
  <2>5. ~worker'.object.deleting
    BY <1>2, <2>3 DEF HeldCopy, Adopt
  <2> QED
    BY <2>1, <2>3, <2>4, <2>5 DEF HeldCopy
<1>3. CASE Load \/ Read \/ ReadFails \/ Import \/ ImportFails
  <2>1. /\ UNCHANGED <<api, fresh, queue>> /\ worker.step \in {"load", "read", "import"}
        /\ worker'.step \in {"read", "import", "report"}
    BY <1>1, <1>3 DEF Load, Read, ReadFails, Import, ImportFails, Conclude, Worker
  <2>2. /\ worker'.object = worker.object /\ worker'.sync = worker.sync
        /\ worker'.current = worker.current
    <3>1. CASE Read
      BY <1>1, <3>1 DEF Read, Worker
    <3>2. CASE Import
      BY <1>1, <3>2 DEF Import, Worker
    <3>3. CASE Load \/ ReadFails \/ ImportFails
      BY <1>1, <3>3 DEF Load, ReadFails, ImportFails, Conclude, Worker
    <3> QED
      BY <1>3, <3>1, <3>2, <3>3
  <2> QED
    BY <2>1, <2>2 DEF HeldCopy
<1>4. CASE AdoptFails \/ Report \/ ReportFails \/ Finalize \/ FinalizeFails
  BY <1>4 DEF AdoptFails, Report, ReportFails, Finalize, FinalizeFails, Idle, HeldCopy
<1> QED
  BY <1>2, <1>3, <1>4 DEF Pass

LEMMA HeldCopyNext ==
  ASSUME TypeOK, FinalizerInv, HeldCopy, Next
  PROVE  HeldCopy'
<1>1. ASSUME NEW s \in Syncs, Start(s) PROVE HeldCopy'
  BY <1>1, HeldCopyStart
<1>2. CASE Pass
  BY <1>2, HeldCopyPass
<1>3. CASE Restart
  BY <1>3 DEF Restart, Idle, HeldCopy
<1>4. CASE Wake
  <2>1. worker.step # "idle" => worker.sync \in Syncs
    BY DEF TypeOK
  <2>2. /\ UNCHANGED <<api, worker>> /\ queue \subseteq queue'
        /\ \A r \in Syncs : fresh'[r] = fresh[r] \/ r \in queue'
    BY <1>4 DEF Wake, DeliverSync, DeliverSecret, Fire, TypeOK
  <2> QED
    BY <2>1, <2>2 DEF HeldCopy
<1>5. ASSUME NEW s \in Syncs, NEW object, Overwrite(s, object), UNCHANGED queue
      PROVE  HeldCopy'
  <2>1. /\ worker'.step = worker.step /\ worker'.sync = worker.sync
        /\ worker'.object = worker.object
        /\ worker'.current = (worker.current /\ worker.sync # s)
    BY <1>5 DEF Overwrite, TypeOK, Worker
  <2>2. /\ \A r \in Syncs : r # s => api'[r] = api[r] /\ fresh'[r] = fresh[r]
        /\ ~fresh'[s]
    BY <1>5 DEF Overwrite, TypeOK
  <2>3. worker.step # "idle" => worker.sync \in Syncs
    BY DEF TypeOK
  <2> QED
    BY <1>5, <2>1, <2>2, <2>3 DEF HeldCopy
<1>6. CASE Environment
  <2>1. CASE UNCHANGED <<api, fresh, worker, queue>>
    BY <2>1 DEF HeldCopy
  <2> QED
    BY <1>5, <1>6, <2>1 DEF Environment, DeleteSync, CreateSync, EditSync, WriteSecret,
       WriteVault, AzureFlips, Tick
<1> QED
  BY <1>1, <1>2, <1>3, <1>4, <1>6 DEF Next

\* A pass once disturbed stays so, and until then it has the Secret's copy.
LEMMA StillUndisturbed ==
  ASSUME TypeOK, FinalizerInv, HeldCopy, Next,
         worker.step \in {"load", "read", "import", "report"},
         worker'.step \in {"read", "import", "report"}, Undisturbed'
  PROVE  /\ Undisturbed /\ worker'.sync = worker.sync /\ worker'.object = worker.object
         /\ secretCache'[worker.object.spec.secret] = secretCache[worker.object.spec.secret]
<1> DEFINE s == worker.sync
           k == worker.object.spec.secret
<1>1. s \in Syncs /\ worker \in Worker /\ worker.object \in SyncObject
  BY DEF TypeOK
<1>2. CASE Pass
  <2>1. Load \/ Read \/ ReadFails \/ Import \/ ImportFails
    BY <1>2 DEF Pass, Adopt, AdoptFails, Report, ReportFails, Finalize, FinalizeFails, Idle
  <2>2. UNCHANGED <<fresh, queue, secretCache>>
    BY <2>1 DEF Load, Read, ReadFails, Import, ImportFails
  <2>3. /\ worker'.sync = s /\ worker'.object = worker.object
        /\ worker'.current = worker.current
    BY <1>1, <2>1 DEF Load, Read, ReadFails, Import, ImportFails, Conclude, Worker
  <2> QED
    BY <2>2, <2>3 DEF Undisturbed
<1>3. CASE Wake
  <2>1. UNCHANGED worker /\ queue \subseteq queue'
    BY <1>3 DEF Wake, DeliverSync, DeliverSecret, Fire
  <2>2. \A r \in Syncs : fresh'[r] = fresh[r] \/ r \in queue'
    BY <1>3 DEF Wake, DeliverSync, DeliverSecret, Fire, TypeOK
  <2>3. Undisturbed
    BY <1>1, <2>1, <2>2 DEF Undisturbed
  <2>4. CASE secretCache'[k] # secretCache[k]
    <3>1. DeliverSecret(k)
      <4>1. PICK j \in Secrets : DeliverSecret(j)
        BY <1>3, <2>4 DEF Wake, DeliverSync, Fire
      <4>2. secretCache' = [secretCache EXCEPT ![j] = secret[j]]
        BY <4>1 DEF DeliverSecret
      <4>3. k \in Secrets /\ secretCache \in [Secrets -> Contents]
        BY <1>1 DEF TypeOK, SyncObject, Spec
      <4>4. j = k
        BY <2>4, <4>2, <4>3
      <4> QED
        BY <4>1, <4>4
    <3>2. cache[s] = worker.object /\ api[s].exists /\ api[s] = worker.object
      BY <2>3 DEF Undisturbed, FinalizerInv, FreshCopies, PassUnderFinalizer, HeldCopy, TypeOK
    <3>3. s \in SyncsForSecret(k)
      BY <1>1, <3>2 DEF SyncsForSecret
    <3> QED
      BY <2>1, <3>1, <3>3 DEF DeliverSecret, Undisturbed
  <2> QED
    BY <2>1, <2>3, <2>4
<1>4. CASE Environment
  <2>1. UNCHANGED <<queue, secretCache>>
    BY <1>4 DEF Environment, DeleteSync, CreateSync, EditSync, WriteSecret, WriteVault,
       AzureFlips, Tick
  <2>2. CASE UNCHANGED <<fresh, worker>>
    BY <2>1, <2>2 DEF Undisturbed
  <2>3. ASSUME NEW r \in Syncs, NEW object, Overwrite(r, object)
        PROVE  /\ worker'.sync = s /\ worker'.object = worker.object /\ Undisturbed
    <3>1. /\ worker'.sync = s /\ worker'.object = worker.object
          /\ worker'.current = (worker.current /\ s # r)
      BY <1>1, <2>3 DEF Overwrite, Worker
    <3>2. s # r => fresh'[s] = fresh[s]
      BY <1>1, <2>3 DEF Overwrite, TypeOK
    <3> QED
      BY <2>1, <3>1, <3>2 DEF Undisturbed
  <2> QED
    BY <1>4, <2>1, <2>2, <2>3 DEF Environment, DeleteSync, CreateSync, EditSync, WriteSecret,
       WriteVault, AzureFlips, Tick
<1>5. CASE Restart
  BY <1>5 DEF Restart, Idle
<1>6. ASSUME NEW r \in Syncs, Start(r) PROVE FALSE
  BY <1>6 DEF Start
<1> QED
  BY <1>2, <1>3, <1>4, <1>5, <1>6 DEF Next

LEMMA LoadedCopyNext ==
  ASSUME TypeOK, FinalizerInv, HeldCopy, LoadedCopy, Next
  PROVE  LoadedCopy'
<1> SUFFICES ASSUME worker'.step \in {"read", "import"}, Undisturbed'
             PROVE  LET content == secretCache'[worker'.object.spec.secret]
                    IN /\ LoadError(worker'.object.spec, content) = "Valid"
                       /\ worker'.bundle = content.bundle
  BY DEF LoadedCopy
<1>1. PassLoads \/ (PassGoesOn /\ worker.step \in {"read", "import"})
  BY CarriesNext DEF PassCarries, PassEnds, PassBegins, PassGoesOn
<1>2. /\ Undisturbed /\ worker'.object = worker.object
      /\ secretCache'[worker.object.spec.secret] = secretCache[worker.object.spec.secret]
  BY <1>1, StillUndisturbed DEF PassLoads
<1>3. CASE PassLoads
  BY <1>2, <1>3 DEF PassLoads
<1>4. CASE PassGoesOn /\ worker.step \in {"read", "import"}
  BY <1>2, <1>4 DEF PassGoesOn, LoadedCopy
<1> QED
  BY <1>1, <1>3, <1>4

\* A moment of the clock so far stays one.
LEMMA ClockGrows ==
  ASSUME TypeOK, Next
  PROVE  \A t \in 0..now : t \in 0..now'
<1>1. CASE Tick
  <2>1. now \in Nat /\ now' = now + 1
    BY <1>1 DEF Tick, TypeOK
  <2> QED
    BY <2>1
<1>2. CASE ~Tick
  <2>1. UNCHANGED now
    BY <1>2 DEF Next, Pass, Adopt, AdoptFails, Load, Read, ReadFails, Import, ImportFails,
       Report, ReportFails, Finalize, FinalizeFails, Wake, DeliverSync, DeliverSecret, Fire,
       Start, Restart, Environment, DeleteSync, CreateSync, EditSync, WriteSecret, WriteVault,
       AzureFlips
  <2> QED
    BY <2>1
<1> QED
  BY <1>1, <1>2

\* Only a pass at the vault for n forgets that n was touched, or mints there;
\* everybody else who writes there touches it.
LEMMA NameKept ==
  ASSUME TypeOK, Next, NEW n \in Names,
         worker.step \in {"read", "import"} => worker.target # n
  PROVE  /\ n \in touched => n \in touched'
         /\ vault'[n] = vault[n] \/ n \in touched'
<1>1. CASE Read
  BY <1>1 DEF Read
<1>2. CASE Import \/ ImportFails
  <2>1. worker.step = "import" /\ UNCHANGED touched
        /\ (UNCHANGED vault \/ Mint(worker.target, worker.bundle))
    BY <1>2 DEF Import, ImportFails
  <2> QED
    BY <2>1 DEF Mint, TypeOK
<1>3. CASE Pass /\ ~Read /\ ~Import /\ ~ImportFails
  BY <1>3 DEF Pass, Adopt, AdoptFails, Load, ReadFails, Report, ReportFails, Finalize,
     FinalizeFails
<1>4. CASE Restart
  <2>1. UNCHANGED touched
        /\ (UNCHANGED vault \/ (worker.step = "import" /\ Mint(worker.target, worker.bundle)))
    BY <1>4 DEF Restart
  <2> QED
    BY <2>1 DEF Mint, TypeOK
<1>5. CASE Environment
  <2>1. ASSUME NEW m \in Names, NEW object, WriteVault(m, object)
        PROVE  touched \subseteq touched' /\ (vault'[n] = vault[n] \/ n \in touched')
    BY <2>1 DEF WriteVault, TypeOK
  <2> QED
    BY <1>5, <2>1 DEF Environment, DeleteSync, CreateSync, EditSync, WriteSecret, AzureFlips,
       Tick
<1>6. CASE Wake \/ (\E s \in Syncs : Start(s))
  BY <1>6 DEF Wake, DeliverSync, DeliverSecret, Fire, Start
<1> QED
  BY <1>1, <1>2, <1>3, <1>4, <1>5, <1>6 DEF Next

\* What a pass without an import finds to report, once it has loaded.
LEMMA OutcomeEnabled ==
  \A b, o : o \in VaultObject /\ o.exists
              => Outcome(b, o) = IF o.enabled THEN "Synced" ELSE "DisabledInVault"
  BY DEF Outcome, DecideWarning, VaultObject

\* A pass gets to its report from a failed load, from the vault's answer or
\* from an import, and then waits for the write.
ReportWaits ==
  /\ worker.step = "report" /\ worker'.version = worker.version
  /\ worker'.result = worker.result /\ worker'.bundle = worker.bundle
  /\ worker'.target = worker.target

LEMMA ReportBegins ==
  ASSUME TypeOK, Next, worker'.step = "report", worker'.version = NoVersion,
         worker'.result # "VaultError"
  PROVE  Load \/ Read \/ ReportWaits
<1>1. worker \in Worker
  BY DEF TypeOK
<1>2. CASE Pass
  <2>1. CASE Adopt \/ AdoptFails \/ Report \/ ReportFails \/ Finalize \/ FinalizeFails
    <3>1. CASE Adopt
      <4>1. worker' = [worker EXCEPT !.step = "load", !.object.finalizer = TRUE]
        BY <3>1 DEF Adopt
      <4>2. worker'.step = "load"
        BY <1>1, <4>1 DEF Worker
      <4> QED
        BY <4>2
    <3>2. CASE ~Adopt
      BY <2>1, <3>2 DEF AdoptFails, Report, ReportFails, Finalize, FinalizeFails, Idle
    <3> QED
      BY <3>1, <3>2
  <2>2. CASE ReadFails \/ ImportFails
    BY <1>1, <2>2 DEF ReadFails, ImportFails, Conclude, Worker
  <2>3. CASE Import
    <3>1. worker.target \in Names /\ worker'.version.of = worker.target
      BY <1>1, <2>3 DEF Import, TypeOK, Worker
    <3>2. worker'.version.of = None
      BY DEF NoVersion
    <3> QED
      BY <3>1, <3>2, NoneAssumption
  <2> QED
    BY <1>2, <2>1, <2>2, <2>3 DEF Pass
<1>3. ASSUME NEW s \in Syncs, Start(s) PROVE FALSE
  BY <1>1, <1>3 DEF Start, Worker
<1>4. CASE Restart
  BY <1>4 DEF Restart, Idle
<1>5. CASE Wake \/ Environment
  <2>1. UNCHANGED worker \/ \E s : worker' = [worker EXCEPT !.current = @ /\ worker.sync # s]
    BY <1>5 DEF Wake, DeliverSync, DeliverSecret, Fire, Environment, DeleteSync, CreateSync,
       EditSync, WriteSecret, WriteVault, AzureFlips, Tick, Overwrite
  <2> QED
    BY <1>1, <2>1 DEF Worker, ReportWaits
<1> QED
  BY <1>2, <1>3, <1>4, <1>5 DEF Next

LEMMA ReportedCopyNext ==
  ASSUME TypeOK, CarryInv, FinalizerInv, HeldCopy, LoadedCopy, ReportedCopy, Next
  PROVE  ReportedCopy'
<1> SUFFICES ASSUME worker'.step = "report", Undisturbed', worker'.version = NoVersion,
                    worker'.result # "VaultError"
             PROVE  ReportedCopy'
  BY DEF ReportedCopy
<1> DEFINE spec == worker.object.spec
           content == secretCache[spec.secret]
           target == TargetName(spec.name, content.bundle)
<1>1. worker \in Worker
  BY DEF TypeOK
<1>2. worker.step \in {"load", "read", "report"}
  BY ReportBegins DEF Load, Read, ReportWaits
<1>3. /\ Undisturbed /\ worker'.object.spec = spec
      /\ secretCache'[worker'.object.spec.secret] = content
  BY <1>2, StillUndisturbed
<1>4. spec \in Spec /\ content \in Contents
  BY <1>2 DEF TypeOK, SyncObject, Spec
<1>5. CASE Load
  <2>1. worker'.result = LoadError(spec, content) /\ LoadError(spec, content) # "Valid"
    BY <1>1, <1>5 DEF Load, Conclude, Worker
  <2> QED
    BY <1>3, <2>1 DEF ReportedCopy
<1>6. CASE Read
  <2>1. worker.step = "read" /\ UNCHANGED <<vault, now>> /\ now \in Nat
    BY <1>6 DEF Read, TypeOK
  <2>2. LoadError(spec, content) = "Valid" /\ worker.bundle = content.bundle
    BY <1>3, <2>1 DEF LoadedCopy
  <2>3. worker.target = target /\ worker.target \in Names
    BY <2>1, <2>2 DEF CarryInv, PassCarried, TypeOK
  <2>4. /\ worker'.bundle = worker.bundle /\ worker'.target = worker.target
    BY <1>6, ReadShape
  <2>5. now \in 0..now' /\ UNCHANGED vault
    BY <2>1
  <2>6. CASE Validate(worker.bundle, now) # "Valid"
    <3>1. worker'.result = Validate(content.bundle, now)
      BY <1>1, <1>6, <2>2, <2>6 DEF Read, Worker
    <3>2. Judged(worker', now, content.bundle, target, vault'[target], target \in touched')
      BY <2>2, <2>6, <3>1 DEF Judged
    <3> QED
      BY <1>3, <2>2, <2>5, <3>2 DEF ReportedCopy
  <2>7. CASE Validate(worker.bundle, now) = "Valid"
    <3>1. DecideAction(worker.bundle, vault[target]) # "Import"
      BY <1>1, <1>6, <2>3, <2>7 DEF Read, Worker
    <3>2. worker'.result = Outcome(worker.bundle, vault[target])
      BY <1>1, <1>6, <2>3, <2>7, <3>1 DEF Read, Worker
    <3>3. Mirrors(vault[target], worker.bundle)
      BY <3>1, DecideMirrors
    <3>4. worker'.result = IF vault[target].enabled THEN "Synced" ELSE "DisabledInVault"
      BY <2>3, <3>2, <3>3, OutcomeEnabled DEF Mirrors, TypeOK
    <3>5. Succeeded(worker')
      BY <3>4 DEF Succeeded
    <3>6. Judged(worker', now, content.bundle, target, vault'[target], target \in touched')
      BY <2>2, <2>3, <2>4, <2>5, <2>7, <3>3, <3>4, <3>5 DEF Judged
    <3> QED
      BY <1>3, <2>2, <2>5, <3>6 DEF ReportedCopy
  <2> QED
    BY <2>6, <2>7
<1>7. CASE ReportWaits
  <2>1. \/ worker.result = LoadError(spec, content) /\ worker.result # "Valid"
        \/ /\ LoadError(spec, content) = "Valid"
           /\ \E t \in 0..now :
                Judged(worker, t, content.bundle, target, vault[target], target \in touched)
    BY <1>3, <1>7 DEF ReportedCopy, ReportWaits
  <2>2. CASE worker.result = LoadError(spec, content) /\ worker.result # "Valid"
    <3>1. worker'.result = LoadError(spec, content) /\ worker'.result # "Valid"
      BY <1>7, <2>2 DEF ReportWaits
    <3> QED
      BY <1>3, <3>1 DEF ReportedCopy
  <2>3. CASE LoadError(spec, content) = "Valid"
    <3>1. target \in Names
      BY <1>4, <2>3, LoadErrorType
    <3>2. /\ target \in touched => target \in touched'
          /\ vault'[target] = vault[target] \/ target \in touched'
          /\ \A t \in 0..now : t \in 0..now'
      BY <1>7, <3>1, NameKept, ClockGrows DEF ReportWaits
    <3>3. Succeeded(worker) => Succeeded(worker')
      BY <1>7 DEF Succeeded, ReportWaits
    <3>4. PICK t \in 0..now :
                Judged(worker, t, content.bundle, target, vault[target], target \in touched)
      BY <2>1, <2>3
    <3>5. /\ worker'.result = worker.result /\ worker'.bundle = worker.bundle
          /\ worker'.target = worker.target
      BY <1>7 DEF ReportWaits
    <3>6. Judged(worker', t, content.bundle, target, vault'[target], target \in touched')
      BY <3>2, <3>3, <3>4, <3>5 DEF Judged
    <3> QED
      BY <1>3, <2>3, <3>2, <3>6 DEF ReportedCopy
  <2> QED
    BY <2>1, <2>2, <2>3
<1> QED
  BY <1>5, <1>6, <1>7, ReportBegins

\* No other resource's pass is at the vault for the certificate of s.
LEMMA TargetsApart ==
  ASSUME TypeOK, CarryInv, OneOwner, NEW s \in Syncs, ~Busy(s), CopyOf(s).state = "bundle",
         worker.step \in {"read", "import"}
  PROVE  worker.target # TargetName(api[s].spec.name, CopyOf(s).bundle)
<1>1. worker.target \in Names /\ api[s].spec \in SpecsOf[s] /\ CopyOf(s) \in Contents
  BY DEF TypeOK, CarryInv, SpecsGiven, SyncObject, Spec, CopyOf
<1>2. PICK o \in Syncs : OnlyResource(worker.target, o)
  BY <1>1 DEF OneOwner
<1>3. worker.sync = o
  BY <1>2, CarriedFeeds DEF OnlyResource
<1>4. s # o
  BY <1>3 DEF Busy
<1>5. ~Feeds(api[s].spec, CopyOf(s), worker.target)
  BY <1>1, <1>2, <1>4 DEF OnlyResource
<1> QED
  BY <1>5 DEF Feeds

\* What is done for stays so while neither of its copies changes.
LEMMA DoneKept ==
  ASSUME TypeOK, CarryInv, OneOwner, Next, NEW s \in Syncs, ~Busy(s), DoneFor(s),
         api'[s] = api[s], CopyOf(s)' = CopyOf(s)
  PROVE  DoneFor(s)'
<1> DEFINE spec == api[s].spec
           content == CopyOf(s)
           target == TargetName(spec.name, content.bundle)
<1> SUFFICES ASSUME api[s].exists
             PROVE  DriftedCopy(s)' \/ \E t \in 0..now' : AccountedCopy(s, t)'
  BY DEF DoneFor
<1>1. spec \in Spec /\ content \in Contents
  BY DEF TypeOK, SyncObject, Spec, CopyOf
<1>2. content.state = "bundle" /\ target \in Names =>
        /\ target \in touched => target \in touched'
        /\ vault'[target] = vault[target] \/ target \in touched'
  BY NameKept, TargetsApart
<1>3. CASE DriftedCopy(s)
  BY <1>2, <1>3 DEF DriftedCopy, TypeOK
<1>4. CASE \E t \in 0..now : AccountedCopy(s, t)
  <2> PICK t \in 0..now : AccountedCopy(s, t)
    BY <1>4
  <2>1. t \in 0..now'
    BY ClockGrows
  <2>2. CASE LoadError(spec, content) # "Valid"
    <3>1. AccountedCopy(s, t)'
      BY <2>2 DEF AccountedCopy
    <3> QED
      BY <2>1, <3>1
  <2>3. CASE LoadError(spec, content) = "Valid"
    <3>1. content.state = "bundle" /\ target \in Names
      BY <1>1, <2>3, LoadErrorType, LoadedSound
    <3>2. CASE target \in touched'
      BY <3>1, <3>2 DEF DriftedCopy
    <3>3. CASE vault'[target] = vault[target]
      <4>1. AccountedCopy(s, t)'
        BY <2>3, <3>3 DEF AccountedCopy
      <4> QED
        BY <2>1, <4>1
    <3> QED
      BY <1>2, <3>1, <3>2, <3>3
  <2> QED
    BY <2>2, <2>3
<1> QED
  BY <1>3, <1>4 DEF DoneFor

\* What happens to a resource outside its passes leaves it be, starts a pass,
\* leaves one to come, or finds that the resource is gone.
LEMMA RestKept ==
  ASSUME TypeOK, FinalizerInv, Next, NEW s \in Syncs, ~Busy(s), ~Busy(s)', ~Pending(s)'
  PROVE  \/ ~api'[s].exists
         \/ ~Pending(s) /\ api'[s] = api[s] /\ CopyOf(s)' = CopyOf(s)
<1>1. s \notin queue' /\ timer'[s] # "backoff" /\ fresh'[s]
  BY DEF Pending
<1>2. ASSUME NEW r \in Syncs, Start(r)
      PROVE  \/ ~api'[s].exists
             \/ ~Pending(s) /\ api'[s] = api[s] /\ CopyOf(s)' = CopyOf(s)
  <2>1. UNCHANGED <<api, fresh, timer, secretCache>> /\ queue' = queue \ {r}
    BY <1>2 DEF Start
  <2>2. CASE r = s /\ cache[s].exists
    <3>1. worker'.sync = s /\ worker'.step # "idle"
      BY <1>2, <2>2 DEF Start, TypeOK, Worker
    <3> QED
      BY <3>1 DEF Busy
  <2>3. CASE r = s /\ ~cache[s].exists
    BY <1>1, <2>1, <2>3 DEF FinalizerInv, FreshCopies
  <2>4. CASE r # s
    BY <1>1, <2>1, <2>4 DEF Pending, CopyOf
  <2> QED
    BY <2>2, <2>3, <2>4
<1>3. CASE Pass
  <2>1. worker.sync \in Syncs /\ worker.sync # s
    BY <1>3, PassSteps DEF Busy, TypeOK
  <2>2. UNCHANGED <<queue, secretCache>>
    BY <1>3 DEF Pass, Adopt, AdoptFails, Load, Read, ReadFails, Import, ImportFails, Report,
       ReportFails, Finalize, FinalizeFails
  <2>3. UNCHANGED <<api, fresh>> \/ \E object : Store(object)
    BY <1>3 DEF Pass, Adopt, AdoptFails, Load, Read, ReadFails, Import, ImportFails, Report,
       ReportFails, StoreStatus, Finalize, FinalizeFails
  <2>4. UNCHANGED timer \/ \E delay : Requeue(worker.sync, delay)
    BY <1>3 DEF Pass, Adopt, AdoptFails, Load, Read, ReadFails, Import, ImportFails, Report,
       ReportFails, Finalize, FinalizeFails
  <2>5. api'[s] = api[s] /\ fresh'[s] = fresh[s]
    BY <2>1, <2>3 DEF Store, TypeOK
  <2>6. timer'[s] = timer[s]
    BY <2>1, <2>4 DEF Requeue, TypeOK
  <2> QED
    BY <1>1, <2>2, <2>5, <2>6 DEF Pending, CopyOf
<1>4. ASSUME NEW k \in Secrets, DeliverSecret(k)
      PROVE  \/ ~api'[s].exists
             \/ ~Pending(s) /\ api'[s] = api[s] /\ CopyOf(s)' = CopyOf(s)
  <2>1. UNCHANGED <<api, cache, fresh, timer>> /\ queue \subseteq queue'
        /\ SyncsForSecret(k) \subseteq queue'
        /\ secretCache' = [secretCache EXCEPT ![k] = secret[k]]
    BY <1>4 DEF DeliverSecret
  <2>2. CASE api[s].spec.secret = k /\ api[s].exists
    <3>1. cache[s] = api[s]
      BY <1>1, <2>1 DEF FinalizerInv, FreshCopies
    <3>2. s \in SyncsForSecret(k)
      BY <2>2, <3>1 DEF SyncsForSecret
    <3> QED
      BY <1>1, <2>1, <3>2
  <2>3. CASE api[s].spec.secret # k
    <3>1. secretCache'[api[s].spec.secret] = secretCache[api[s].spec.secret]
      BY <2>1, <2>3 DEF TypeOK, SyncObject, Spec
    <3> QED
      BY <1>1, <2>1, <3>1 DEF Pending, CopyOf
  <2> QED
    BY <2>1, <2>2, <2>3
<1>5. ASSUME NEW r \in Syncs,
             DeliverSync(r) \/ Fire(r, "backoff") \/ Fire(r, "resync")
      PROVE  ~Pending(s) /\ api'[s] = api[s] /\ CopyOf(s)' = CopyOf(s)
  <2>1. UNCHANGED <<api, secretCache>> /\ queue' = queue \cup {r}
    BY <1>5 DEF DeliverSync, Fire
  <2>2. r # s /\ s \notin queue
    BY <1>1, <2>1
  <2>3. fresh'[s] = fresh[s] /\ timer'[s] = timer[s]
    BY <1>5, <2>2 DEF DeliverSync, Fire, TypeOK
  <2> QED
    BY <1>1, <2>1, <2>2, <2>3 DEF Pending, CopyOf
<1>6. CASE Restart
  BY <1>1, <1>6 DEF Restart
<1>7. ASSUME NEW r \in Syncs, NEW object, Overwrite(r, object),
             UNCHANGED <<queue, timer, secretCache>>
      PROVE  ~Pending(s) /\ api'[s] = api[s] /\ CopyOf(s)' = CopyOf(s)
  <2>1. r # s
    BY <1>1, <1>7 DEF Overwrite, TypeOK
  <2>2. api'[s] = api[s] /\ fresh'[s] = fresh[s]
    BY <1>7, <2>1 DEF Overwrite, TypeOK
  <2> QED
    BY <1>1, <1>7, <2>2 DEF Pending, CopyOf
<1>8. CASE Environment
  <2>1. CASE UNCHANGED <<api, fresh, queue, timer, secretCache>>
    BY <1>1, <2>1 DEF Pending, CopyOf
  <2> QED
    BY <1>7, <1>8, <2>1 DEF Environment, DeleteSync, CreateSync, EditSync, WriteSecret,
       WriteVault, AzureFlips, Tick
<1> QED
  BY <1>2, <1>3, <1>4, <1>5, <1>6, <1>8 DEF Next, Wake

\* A pass that leaves nothing pending has found its own report in the status.
LEMMA PassEndsAtRest ==
  ASSUME TypeOK, FinalizerInv, HeldCopy, VersionsKnown, Next,
         NEW s \in Syncs, Busy(s), ~Busy(s)', ~Pending(s)'
  PROVE  \/ ~api'[s].exists
         \/ /\ UNCHANGED <<api, secretCache, vault, touched, now>>
            /\ worker.step = "report" /\ worker.result # "VaultError"
            /\ worker.version = NoVersion /\ Undisturbed
            /\ api[s] = worker.object /\ api[s].exists /\ api[s].finalizer /\ ~api[s].deleting
            /\ api[s].status = ReportedStatus(worker)
<1>1. s \notin queue' /\ timer'[s] # "backoff" /\ fresh'[s]
  BY DEF Pending
<1>2. worker \in Worker /\ worker.sync = s /\ worker.step # "idle" /\ worker.object \in SyncObject
  BY DEF TypeOK, Busy
<1>3. CASE Restart
  BY <1>1, <1>3 DEF Restart
<1>4. CASE Pass
  <2>1. CASE Adopt \/ Load \/ Read \/ ReadFails \/ Import \/ ImportFails
    <3>1. worker'.sync = s /\ worker'.step # "idle"
      BY <1>2, <2>1 DEF Adopt, Load, Read, ReadFails, Import, ImportFails, Conclude, Worker
    <3> QED
      BY <3>1 DEF Busy
  <2>2. CASE AdoptFails \/ FinalizeFails \/ ReportFails
    <3>1. timer'[s] = "backoff"
      BY <1>2, <2>2 DEF AdoptFails, FinalizeFails, ReportFails, Requeue, TypeOK
    <3> QED
      BY <1>1, <3>1
  <2>3. CASE Finalize
    <3>1. ~fresh'[s]
      BY <1>2, <2>3 DEF Finalize, Store, TypeOK
    <3> QED
      BY <1>1, <3>1
  <2>4. CASE Report
    <3>1. worker.step = "report" /\ UNCHANGED <<queue, secretCache, vault, touched, now>>
      BY <2>4 DEF Report
    <3>2. worker.result # "VaultError"
      <4>1. timer'[s] = IF timer[s] = "backoff" THEN timer[s]
                        ELSE IF Retryable(worker.result) THEN "backoff" ELSE "resync"
        BY <1>2, <2>4 DEF Report, Requeue, TypeOK
      <4> QED
        BY <1>1, <4>1 DEF Retryable
    <3>3. UNCHANGED <<api, fresh>> /\ (UpdateRefused \/ api[s].status = ReportedStatus(worker))
      <4>1. ASSUME NEW object, Store(object) PROVE ~fresh'[s]
        BY <1>2, <4>1 DEF Store, TypeOK
      <4> QED
        BY <1>1, <1>2, <2>4, <4>1 DEF Report, StoreStatus
    <3>4. api[s].exists /\ api[s].finalizer
      BY <1>2, <3>1 DEF FinalizerInv, PassUnderFinalizer
    <3>5. Undisturbed
      BY <1>1, <1>2, <3>1, <3>3 DEF HeldCopy, Undisturbed, Worker
    <3>6. api[s] = worker.object /\ ~worker.object.deleting
      BY <1>2, <3>1, <3>5 DEF HeldCopy, Undisturbed
    <3>7. api[s].status = ReportedStatus(worker)
      BY <1>2, <3>3, <3>4, <3>5 DEF UpdateRefused, Undisturbed
    <3>8. worker.version = NoVersion
      <4>1. ASSUME worker.version # NoVersion PROVE FALSE
        <5>1. Succeeded(worker) /\ worker.version # worker.object.status.version
          BY <4>1 DEF VersionsKnown
        <5>2. ReportedStatus(worker).version = worker.version
          BY <4>1, <5>1 DEF ReportedStatus
        <5> QED
          BY <3>6, <3>7, <5>1, <5>2
      <4> QED
        BY <4>1
    <3> QED
      BY <3>1, <3>2, <3>3, <3>4, <3>5, <3>6, <3>7, <3>8
  <2> QED
    BY <1>4, <2>1, <2>2, <2>3, <2>4 DEF Pass
<1>5. ASSUME NEW r \in Syncs, Start(r) PROVE FALSE
  BY <1>2, <1>5 DEF Start
<1>6. CASE Wake \/ Environment
  <2>1. UNCHANGED worker \/ \E r : worker' = [worker EXCEPT !.current = @ /\ worker.sync # r]
    BY <1>6 DEF Wake, DeliverSync, DeliverSecret, Fire, Environment, DeleteSync, CreateSync,
       EditSync, WriteSecret, WriteVault, AzureFlips, Tick, Overwrite
  <2>2. worker'.sync = worker.sync /\ worker'.step = worker.step
    BY <1>2, <2>1 DEF Worker
  <2> QED
    BY <2>2 DEF Busy
<1> QED
  BY <1>3, <1>4, <1>5, <1>6 DEF Next

\* And what a pass reports is what its resource is to be accounted for.
LEMMA ReportAccounts ==
  ASSUME TypeOK, ReportedCopy, NEW s \in Syncs, Busy(s),
         worker.step = "report", worker.result # "VaultError", worker.version = NoVersion,
         Undisturbed, api[s] = worker.object, api[s].exists, api[s].finalizer,
         ~api[s].deleting, api[s].status = ReportedStatus(worker)
  PROVE  DoneFor(s)
<1> DEFINE spec == api[s].spec
           content == CopyOf(s)
           target == TargetName(spec.name, content.bundle)
<1>1. spec \in Spec /\ content \in Contents /\ worker.object.status \in Status /\ now \in Nat
  BY DEF TypeOK, SyncObject, Spec, CopyOf
<1>2. api[s].status.ready = worker.result
  BY <1>1 DEF ReportedStatus, Status
<1>3. CASE worker.result = LoadError(spec, content) /\ worker.result # "Valid"
  <2>1. AccountedCopy(s, 0)
    BY <1>2, <1>3 DEF AccountedCopy
  <2> QED
    BY <1>1, <2>1 DEF DoneFor
<1>4. CASE /\ LoadError(spec, content) = "Valid"
           /\ \E t \in 0..now :
                Judged(worker, t, content.bundle, target, vault[target], target \in touched)
  <2> PICK t \in 0..now :
        Judged(worker, t, content.bundle, target, vault[target], target \in touched)
    BY <1>4
  <2>1. CASE worker.result = Validate(content.bundle, t) /\ worker.result # "Valid"
    <3>1. AccountedCopy(s, t)
      BY <1>2, <1>4, <2>1 DEF AccountedCopy
    <3> QED
      BY <3>1 DEF DoneFor
  <2>2. CASE target \in touched
    <3>1. DriftedCopy(s)
      BY <1>1, <1>4, <2>2, LoadedSound DEF DriftedCopy
    <3> QED
      BY <3>1 DEF DoneFor
  <2>3. CASE /\ Validate(content.bundle, t) = "Valid" /\ Succeeded(worker)
             /\ worker.bundle = content.bundle /\ worker.target = target
             /\ Mirrors(vault[target], content.bundle)
             /\ worker.result = IF vault[target].enabled THEN "Synced" ELSE "DisabledInVault"
    <3>1. /\ api[s].status.name = target /\ api[s].status.bundle = content.bundle
          /\ api[s].status.observed = api[s].generation
      BY <2>3 DEF ReportedStatus
    <3>2. AccountedCopy(s, t)
      BY <1>2, <1>4, <2>3, <3>1 DEF AccountedCopy
    <3> QED
      BY <3>2 DEF DoneFor
  <2> QED
    BY <2>1, <2>2, <2>3 DEF Judged
<1> QED
  BY <1>3, <1>4 DEF ReportedCopy, CopyOf

LEMMA AtRestNext ==
  ASSUME TypeOK, CarryInv, FinalizerInv, WakeInv, OneOwner, Next
  PROVE  AtRest'
<1> SUFFICES ASSUME NEW s \in Syncs, ~Busy(s)', ~Pending(s)' PROVE DoneFor(s)'
  BY DEF AtRest
<1>1. CASE ~api'[s].exists
  BY <1>1 DEF DoneFor
<1>2. CASE api'[s].exists /\ ~Busy(s)
  <2>1. ~Pending(s) /\ api'[s] = api[s] /\ CopyOf(s)' = CopyOf(s)
    BY <1>2, RestKept
  <2> QED
    BY <1>2, <2>1, DoneKept DEF WakeInv, AtRest
<1>3. CASE api'[s].exists /\ Busy(s)
  <2>1. /\ UNCHANGED <<api, secretCache, vault, touched, now>>
        /\ worker.step = "report" /\ worker.result # "VaultError"
        /\ worker.version = NoVersion /\ Undisturbed
        /\ api[s] = worker.object /\ api[s].exists /\ api[s].finalizer /\ ~api[s].deleting
        /\ api[s].status = ReportedStatus(worker)
    BY <1>3, PassEndsAtRest DEF WakeInv
  <2>2. DoneFor(s)
    BY <1>3, <2>1, ReportAccounts DEF WakeInv
  <2> QED
    BY <2>1, <2>2 DEF DoneFor, DriftedCopy, AccountedCopy, CopyOf
<1> QED
  BY <1>1, <1>2, <1>3

LEMMA WakeNext ==
  ASSUME OneOwner
  PROVE  /\ TypeOK /\ TypeOK' /\ CarryInv /\ FinalizerInv /\ WakeInv /\ [Next]_vars
         => WakeInv'
<1> SUFFICES ASSUME TypeOK, TypeOK', CarryInv, FinalizerInv, WakeInv, [Next]_vars
             PROVE  WakeInv'
  OBVIOUS
<1>1. CASE Next
  BY <1>1, AtRestNext, HeldCopyNext, LoadedCopyNext, ReportedCopyNext, VersionsKnownNext
     DEF WakeInv
<1>2. CASE UNCHANGED vars
  <2>1. AtRest'
    <3>1. \A s \in Syncs : (Busy(s)' <=> Busy(s)) /\ (Pending(s)' <=> Pending(s))
      BY <1>2 DEF vars, Busy, Pending
    <3>2. \A s \in Syncs : CopyOf(s)' = CopyOf(s) /\ DriftedCopy(s)' = DriftedCopy(s)
      BY <1>2 DEF vars, DriftedCopy, CopyOf
    <3>3. \A s \in Syncs : \A t : AccountedCopy(s, t)' <=> AccountedCopy(s, t)
      BY <1>2 DEF vars, AccountedCopy, CopyOf
    <3>4. \A s \in Syncs : DoneFor(s) => DoneFor(s)'
      BY <1>2, <3>2, <3>3 DEF vars, DoneFor
    <3> QED
      BY <3>1, <3>4 DEF WakeInv, AtRest
  <2>2. HeldCopy' /\ LoadedCopy' /\ VersionsKnown'
    BY <1>2 DEF vars, WakeInv, HeldCopy, LoadedCopy, VersionsKnown, Undisturbed, Known
  <2>3. ReportedCopy'
    BY <1>2 DEF vars, WakeInv, ReportedCopy, Undisturbed
  <2> QED
    BY <2>1, <2>2, <2>3 DEF WakeInv
<1> QED
  BY <1>1, <1>2

\* No wake-up is lost (the status conflicts updateStatus swallows, the keys
\* queued again while a pass runs, the events that coalesce): whatever
\* users, the vault, failures and restarts do, once nothing is pending for a
\* resource it is deleted for good or accounted for, drift aside.
THEOREM WakeUpsKept ==
  ASSUME OneOwner
  PROVE  Safety => []NoLostWakeup
<1>1. TypeOK /\ WakeInv => NoLostWakeup
  <2> SUFFICES ASSUME TypeOK, WakeInv, NEW s \in Syncs, Quiet(s), api[s].exists
               PROVE  /\ ~api[s].deleting /\ api[s].finalizer
                      /\ Drifted(s) \/ \E t \in 0..now : Accounted(s, t)
    BY DEF NoLostWakeup
  <2>1. ~Busy(s) /\ ~Pending(s) /\ CopyOf(s) = secret[api[s].spec.secret]
    BY DEF Quiet, Busy, Pending, CopyOf
  <2>2. DoneFor(s)
    BY <2>1 DEF WakeInv, AtRest
  <2>3. DriftedCopy(s) = Drifted(s)
    BY <2>1 DEF DriftedCopy, Drifted
  <2>4. \A t : AccountedCopy(s, t) <=> Accounted(s, t)
    BY <2>1 DEF AccountedCopy, Accounted
  <2> QED
    BY <2>2, <2>3, <2>4 DEF DoneFor
<1>2. Init => TypeOK /\ CarryInv /\ FinalizerInv /\ WakeInv
  BY TypeInit, CarryInit, FinalizerInit, WakeInit
<1>3. TypeOK /\ CarryInv /\ FinalizerInv /\ WakeInv /\ [Next]_vars
        => (TypeOK /\ CarryInv /\ FinalizerInv /\ WakeInv)'
  BY TypeNext, CarryNext, FinalizerNext, WakeNext
<1> QED
  BY <1>1, <1>2, <1>3, PTL DEF Safety

=============================================================================
