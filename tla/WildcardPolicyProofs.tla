------------------------ MODULE WildcardPolicyProofs ------------------------
(***************************************************************************)
(* Theorems about WildcardPolicy, for every policy, every set of hosts and  *)
(* any number of disturbances.                                             *)
(***************************************************************************)
EXTENDS WildcardPolicy, WildcardPlanProofs

-----------------------------------------------------------------------------
(***************************************************************************)
(* What a pass plans                                                       *)
(***************************************************************************)
Input(spec, hosts, existing) == [Demand(spec, hosts) EXCEPT !.existing = existing]

LEMMA InputFields ==
  ASSUME NEW spec, NEW hosts, NEW existing
  PROVE  LET in == Input(spec, hosts, existing)
         IN /\ in.hosts = hosts /\ in.zones = spec.zones /\ in.max = spec.max
            /\ in.existing = existing /\ in.grouping = spec.grouping /\ in.seed = spec.seed
            /\ in = [hosts |-> in.hosts, zones |-> in.zones, max |-> in.max,
                     existing |-> in.existing, grouping |-> in.grouping, seed |-> in.seed]
BY DEF Input, Demand

LEMMA InputPlannable ==
  ASSUME NEW spec \in Specs, NEW hosts \in SUBSET Hosts, NEW existing
  PROVE  Plannable(Input(spec, hosts, existing)) /\ Input(spec, hosts, existing).max \in Nat
<1> DEFINE in == Input(spec, hosts, existing)
           all == Demand(spec, Hosts)
<1>1. /\ in.hosts = hosts /\ in.zones = spec.zones /\ in.max = spec.max /\ in.seed = spec.seed
      /\ in = [hosts |-> in.hosts, zones |-> in.zones, max |-> in.max,
               existing |-> in.existing, grouping |-> in.grouping, seed |-> in.seed]
  BY InputFields
<1>2. spec.zones \in SUBSET DnsName /\ spec.max \in Nat
  BY SpecsAssumption DEF Spec
<1>3. IsFiniteSet(Hosts) /\ IsFiniteSet(spec.zones) /\ Ranked(Mentioned(all))
  BY RanksAssumption
<1>4. all.hosts = Hosts /\ all.zones = spec.zones /\ all.seed = spec.seed
  BY DEF Demand
<1> HIDE DEF in, all
<1>5. Mentioned(in) \subseteq Mentioned(all)
  BY <1>1, <1>4, MentionedGrows
<1>6. Ranked(Mentioned(in))
  BY <1>3, <1>5 DEF Ranked
<1>7. hosts \in SUBSET DnsName /\ IsFiniteSet(hosts)
  BY <1>3, HostsAssumption, FS_Subset
<1>8. ZonedInput(in)
  BY <1>1, <1>2, <1>7 DEF ZonedInput
<1> QED
  BY <1>1, <1>2, <1>3, <1>6, <1>7, <1>8 DEF Plannable, in

\* Certificates of a plan, by what the API server and the rest of the operator
\* take from them.
Certificate ==
  [name : Names, zone : DnsName, seed : DnsName, names : (SUBSET DnsName) \ {{}, None}]

LEMMA NamedCertificate ==
  ASSUME NEW spec \in Specs, NEW hosts \in SUBSET Hosts, NEW existing,
         NEW r \in Grouped(Input(spec, hosts, existing))
  PROVE  Named(r, Input(spec, hosts, existing)) \in Certificate
<1> DEFINE in == Input(spec, hosts, existing)
<1>1. Plannable(in)
  BY InputPlannable
<1>2. Grouped(in) = Grouped(Demand(spec, hosts))
  BY InputFields, ExistingIgnored DEF Demand
<1>3. NameOf(r, Grouped(in)) \in Names /\ r.names # None
  BY <1>2, NamesAssumption
<1> HIDE DEF in
<1>4. r.zone \in DnsName /\ r.seed \in r.names /\ r.names \in SUBSET DnsName
  BY <1>1, GroupedShape, SeedMentioned DEF in
<1> QED
  BY <1>3, <1>4 DEF Named, Certificate, in

PlanValues == {Plans[pass] : pass \in Passes}

LEMMA PlanOfPass ==
  ASSUME NEW spec \in Specs, NEW hosts \in SUBSET Hosts, NEW existing \in SUBSET Names
  PROVE  /\ PlanFor(spec, hosts, existing) = BuildPlan(Input(spec, hosts, existing))
         /\ PlanFor(spec, hosts, existing) \in PlanValues
<1> DEFINE pass == [spec |-> spec, hosts |-> hosts, existing |-> existing]
<1>1. pass \in Passes
  BY DEF Passes
<1>2. Plans[pass] = BuildPlan([Demand(pass.spec, pass.hosts) EXCEPT !.existing = pass.existing])
  BY <1>1 DEF Plans
<1>3. PlanFor(spec, hosts, existing) = Plans[pass]
  BY DEF PlanFor
<1> QED
  BY <1>1, <1>2, <1>3 DEF Input, PlanValues

\* What every part of the operator relies on in a plan.
Sound(plan) ==
  /\ plan.ok \in BOOLEAN /\ plan.certificates \in SUBSET Certificate
  /\ \A c, d \in plan.certificates : c.name = d.name => c = d
  /\ \A todo \in SUBSET plan.certificates : todo # {} =>
       \E c \in todo : \A d \in todo \ {c} : Before(c, d)

LEMMA PlansSound ==
  ASSUME NEW spec \in Specs, NEW hosts \in SUBSET Hosts, NEW existing \in SUBSET Names
  PROVE  Sound(PlanFor(spec, hosts, existing))
<1> DEFINE in == Input(spec, hosts, existing)
           G == Grouped(in)
           plan == PlanFor(spec, hosts, existing)
<1>1. Plannable(in) /\ Kept(in) \subseteq G
  BY InputPlannable DEF Kept
<1>2. /\ plan.ok = ~Refused(in) /\ plan.ok \in BOOLEAN
      /\ plan.certificates = IF Refused(in) THEN {} ELSE {Named(r, in) : r \in Kept(in)}
  <2>1. plan = BuildPlan(in)
    BY PlanOfPass
  <2> HIDE DEF plan, in
  <2> QED
    BY <2>1, BuildFields
<1>3. \A r \in G : Named(r, in) \in Certificate
  BY NamedCertificate
<1>4. \A r, s \in G : Named(r, in).name = Named(s, in).name => r = s
  BY <1>1, NamesDistinct DEF Named
<1>5. \A r, s : Before(Named(r, in), Named(s, in)) <=> Before(r, s)
  BY DEF Before, SortKey, Named
<1>6. IsFiniteSet(G) /\ Lines(BeforeIn(G), G)
  BY <1>1, GroupedFinite, BeforeLines
<1> HIDE DEF in, G, plan
<1>7. plan.certificates \in SUBSET {Named(r, in) : r \in G}
  BY <1>1, <1>2
<1>8. ASSUME NEW todo \in SUBSET plan.certificates, todo # {}
      PROVE  \E c \in todo : \A d \in todo \ {c} : Before(c, d)
  <2> DEFINE T == {r \in G : Named(r, in) \in todo}
  <2>1. T \in SUBSET G /\ T # {} /\ \A c \in todo : \E r \in T : c = Named(r, in)
    BY <1>7, <1>8
  <2>2. IsFiniteSet(T)
    BY <1>6, <2>1, FS_Subset
  <2>3. Lines(BeforeIn(G), T)
    BY <1>6, <2>1 DEF Lines
  <2> HIDE DEF T
  <2>4. PICK r \in T : \A s \in T \ {r} : <<r, s>> \in BeforeIn(G)
    BY <2>1, <2>2, <2>3, LineHead
  <2>5. \A s \in T \ {r} : Before(Named(r, in), Named(s, in))
    BY <1>5, <2>4 DEF BeforeIn
  <2>6. Named(r, in) \in todo
    BY DEF T
  <2> QED
    BY <2>1, <2>5, <2>6
<1> QED
  BY <1>2, <1>3, <1>4, <1>7, <1>8 DEF Sound, plan

\* A host that was discovered is covered by the plan, or reported as skipped.
LEMMA PlanPromises ==
  ASSUME NEW spec \in Specs, NEW hosts \in SUBSET Hosts, NEW existing \in SUBSET Names,
         PlanFor(spec, hosts, existing).ok, NEW host \in hosts
  PROVE  \/ \E c \in PlanFor(spec, hosts, existing).certificates :
              \E n \in c.names : Covers(n, host)
         \/ \E s \in PlanFor(spec, hosts, existing).skipped : Covers(s.host, host)
<1> DEFINE in == Input(spec, hosts, existing)
           plan == PlanFor(spec, hosts, existing)
<1>1. /\ plan.ok = ~Refused(in)
      /\ plan.skipped = IF Refused(in) THEN {} ELSE SkippedHosts(in)
      /\ plan.certificates = IF Refused(in) THEN {} ELSE {Named(r, in) : r \in Kept(in)}
  <2>1. plan = BuildPlan(in)
    BY PlanOfPass
  <2> HIDE DEF in, plan
  <2> QED
    BY <2>1, BuildFields
<1>2. ZonedInput(in) /\ in.hosts = hosts
  BY InputPlannable, InputFields DEF Plannable
<1> HIDE DEF in
<1>3. host \in Demanded(in)
  BY <1>2 DEF Demanded
<1>4. \/ \E r \in Kept(in) : \E n \in r.names : Covers(n, host)
      \/ \E s \in SkippedHosts(in) : s.host = host \/ Covers(s.host, host)
  BY <1>2, <1>3, PlanAccounts
<1>5. \A r : Named(r, in).names = r.names
  BY DEF Named
<1> HIDE DEF Named
<1> QED
  BY <1>1, <1>4, <1>5 DEF Covers

-----------------------------------------------------------------------------
(***************************************************************************)
(* Types                                                                   *)
(***************************************************************************)
Status == [plan : PlanValues \cup {None}, ready : Reasons, discoveredAt : Nat]
PolicyObject == [exists : BOOLEAN, deleting : BOOLEAN, finalizer : BOOLEAN,
                 spec : Specs, status : Status]
CertObject == ((SUBSET DnsName) \ {{}}) \cup {None}
SyncObject == [target : Targets, deleting : BOOLEAN] \cup {None}
Worker == [step : Steps, object : PolicyObject \cup {None}, hosts : SUBSET Hosts,
           existing : SUBSET Names, plan : PlanValues \cup {None},
           todo : SUBSET Certificate, doomed : SUBSET Names, result : Reasons]

\* What the operator remembers and what the cluster holds.
MemoryType ==
  /\ worker \in Worker
  /\ worker.step # "idle" => worker.object \in PolicyObject
  /\ queued \in BOOLEAN /\ timer \in {"none", "backoff", "resync"}
  /\ unsure \in SUBSET Names /\ stale \in BOOLEAN /\ unseen \in SUBSET Names
ClusterType ==
  /\ policy \in PolicyObject /\ cache \in PolicyObject
  /\ certs \in [Names -> CertObject] /\ certCache \in [Names -> CertObject]
  /\ syncs \in [Names -> SyncObject] /\ syncCache \in [Names -> SyncObject]
  /\ routes \in [Sources -> SUBSET Hosts] /\ routeCache \in [Sources -> SUBSET Hosts]
  /\ watched \in SUBSET Sources
  /\ now \in Nat /\ left \in [Disturbances -> Nat]

\* A pass has a plan from the probe until it has pruned, made from its copy of
\* the policy; what is left of it to ensure, and what is doomed, agree with it.
Planned == {"probe", "cert", "sync", "pruneSyncs", "pruneCerts"}
PlanOfWorker ==
  worker.step \in Planned =>
    /\ worker.plan.ok
    /\ \E existing \in SUBSET Names :
         worker.plan = PlanFor(worker.object.spec, worker.hosts, existing)
TodoInv ==
  /\ worker.step \notin {"cert", "sync"} => worker.todo = {}
  /\ worker.step \in {"cert", "sync"} => worker.todo \subseteq worker.plan.certificates
  /\ worker.step = "sync" => worker.todo # {}
DoomedInv ==
  /\ worker.step \notin {"pruneSyncs", "pruneCerts"} => worker.doomed = {}
  /\ worker.step \in {"pruneSyncs", "pruneCerts"} =>
       /\ worker.doomed \cap PlannedNames(worker.plan) = {}
       /\ ~PruneWithheld(worker.object.spec, worker.plan)

\* What the policy shows agrees with itself and the clock, and an unwatched
\* source has no informer.
StampInv ==
  /\ policy.status.discoveredAt <= now
  /\ policy.deleting => policy.exists /\ policy.finalizer
  /\ \A s \in Sources \ watched : routeCache[s] = {}

TypeInv == MemoryType /\ ClusterType /\ PlanOfWorker /\ TodoInv /\ DoomedInv /\ StampInv

\* The certificate in hand is one of those left, and has an object.
LEMMA CurrentInTodo ==
  ASSUME TypeInv, worker.step \in {"cert", "sync"}, worker.todo # {}
  PROVE  /\ Current \in worker.todo /\ Current \in Certificate
         /\ Current \in worker.plan.certificates
         /\ worker.object \in PolicyObject
<1>1. worker \in Worker /\ worker.object \in PolicyObject
  BY DEF TypeInv, MemoryType
<1>2. worker.hosts \in SUBSET Hosts /\ worker.object.spec \in Specs
  BY <1>1 DEF Worker, PolicyObject
<1>3. PICK existing \in SUBSET Names :
        worker.plan = PlanFor(worker.object.spec, worker.hosts, existing)
  BY DEF TypeInv, PlanOfWorker, Planned
<1>4. Sound(worker.plan)
  BY <1>2, <1>3, PlansSound
<1>5. worker.todo \in SUBSET worker.plan.certificates
  BY DEF TypeInv, TodoInv
<1>6. \E c \in worker.todo : \A d \in worker.todo \ {c} : Before(c, d)
  BY <1>4, <1>5 DEF Sound
<1>7. Current \in worker.todo
  BY <1>6 DEF Current
<1> QED
  BY <1>1, <1>4, <1>5, <1>7 DEF Sound

LEMMA PlanOfWorkerSound ==
  ASSUME TypeInv, worker.step \in Planned
  PROVE  Sound(worker.plan)
<1>1. worker \in Worker /\ worker.object \in PolicyObject
  BY DEF TypeInv, MemoryType, Planned
<1>2. worker.hosts \in SUBSET Hosts /\ worker.object.spec \in Specs
  BY <1>1 DEF Worker, PolicyObject
<1> QED
  BY <1>2, PlansSound DEF TypeInv, PlanOfWorker

LEMMA TypeInit == Init => TypeInv
<1> SUFFICES ASSUME Init PROVE TypeInv
  OBVIOUS
<1>1. PICK scenario \in Scenarios :
        /\ policy = [exists |-> TRUE, deleting |-> FALSE, finalizer |-> FALSE,
                     spec |-> scenario.spec, status |-> NoStatus]
        /\ routes = scenario.routes /\ certManager = scenario.certManager
        /\ left = scenario.left /\ now = 0
  BY DEF Init
<1>2. /\ scenario.spec \in Specs /\ scenario.routes \in [Sources -> SUBSET Hosts]
      /\ scenario.left \in [Disturbances -> Nat]
  BY ScenariosAssumption
<1>3. policy \in PolicyObject /\ cache \in PolicyObject
  BY <1>1, <1>2 DEF Init, PolicyObject, Status, NoStatus, Reasons
<1>4. worker = Idle
  BY DEF Init
<1>5. Idle \in Worker
  BY DEF Idle, Worker, Steps, Reasons
<1>6. MemoryType
  <2>1. queued = TRUE /\ timer = "none" /\ unsure = {} /\ stale = FALSE /\ unseen = {}
    BY DEF Init
  <2> QED
    BY <1>4, <1>5, <2>1 DEF MemoryType, Idle
<1>7. watched \in SUBSET Sources /\ routeCache \in [Sources -> SUBSET Hosts]
      /\ \A s \in Sources \ watched : routeCache[s] = {}
  BY <1>1, <1>2 DEF Init, Sources
<1>8. ClusterType
  BY <1>1, <1>2, <1>3, <1>7 DEF Init, ClusterType, CertObject, SyncObject
<1>9. PlanOfWorker /\ TodoInv /\ DoomedInv
  BY <1>4 DEF Idle, PlanOfWorker, TodoInv, DoomedInv, Planned
<1>10. StampInv
  BY <1>1, <1>7 DEF StampInv, NoStatus
<1> QED
  BY <1>6, <1>8, <1>9, <1>10 DEF TypeInv

-----------------------------------------------------------------------------
(***************************************************************************)
(* Steps, by what becomes of the pass in progress                          *)
(***************************************************************************)
\* Only the controller's own steps touch the pass, and only a restart what is
\* watched.
LEMMA WorkerStays ==
  ASSUME Informers \/ Others \/ \E delay \in {"backoff", "resync"} : Fire(delay)
  PROVE  worker' = worker /\ watched' = watched
BY DEF Informers, Others, Fire, DeliverPolicy, DeliverSync, DeliverCert, DeliverRoutes,
       EditPolicy, DeletePolicy, Collect, ReleaseSync, Tamper, ChangeRoute,
       InstallCertManager, Tick, cluster

Ends == \/ AdoptFails \/ ListingFails \/ PruneFails \/ Report \/ ReportFails
        \/ Finalize \/ FinalizeFails
        \/ Restart

\* A pass that ends is forgotten.
LEMMA WorkerIdles ==
  ASSUME Ends
  PROVE  worker' = Idle
BY DEF Ends, AdoptFails, ListingFails, PruneFails, Report, ReportFails, Finalize,
     FinalizeFails, Restart, Abort

\* A pass that concludes goes to its report with nothing left to ensure.
Concludes ==
  \/ worker.step = "probe" /\ Conclude("CertManagerMissing")
  \/ worker.step = "probe" /\ Conclude("Unset")
  \/ worker.step \in {"cert", "sync"} /\ Conclude("IssuanceFailed")
  \/ worker.step = "pruneCerts" /\ worker.doomed = {} /\ Conclude("Synced")

\* A step of the pass that goes on, and what it does to the pass.
Moves ==
  \/ worker.step = "idle" /\ worker' = worker
  \/ /\ worker.step = "idle"
     /\ \E step \in {"finalize", "list", "adopt"} :
          /\ step = "finalize" => cache.deleting
          /\ step = "list" => cache.exists /\ cache.finalizer /\ ~cache.deleting
          /\ worker' = [worker EXCEPT !.step = step, !.object = cache]
  \/ /\ worker.step = "adopt" /\ ~Conflict /\ policy' = [policy EXCEPT !.finalizer = TRUE]
     /\ worker' = [worker EXCEPT !.step = "list", !.object = policy']
  \/ /\ worker.step = "list"
     /\ worker' = [worker EXCEPT !.step = "plan", !.existing = Generated(syncCache)]
  \/ Discover \/ DiscoverFails
  \/ worker.step = "probe" /\ worker' = [worker EXCEPT !.step = "cert",
                                           !.todo = worker.plan.certificates]
  \/ worker.step = "cert" /\ worker.todo # {} /\ worker' = [worker EXCEPT !.step = "sync"]
  \/ worker.step = "sync" /\ worker' = [worker EXCEPT !.step = "cert", !.todo = @ \ {Current}]
  \/ Concludes
  \/ ListOrphans
  \/ /\ worker.step \in {"pruneSyncs", "pruneCerts"}
     /\ \E n \in worker.doomed : worker' = [worker EXCEPT !.doomed = @ \ {n}]
  \/ /\ worker.step = "pruneSyncs"
     /\ worker' = [worker EXCEPT !.step = "pruneCerts",
                     !.doomed = Generated(certCache) \ PlannedNames(worker.plan)]

LEMMA WorkerMoves ==
  ASSUME Next
  PROVE  \/ worker' = worker /\ watched' = watched
         \/ worker' = Idle
         \/ Moves /\ watched' = watched
<1>1. CASE Start
  BY <1>1 DEF Start, Moves, cluster
<1>2. CASE Adopt
  BY <1>2 DEF Adopt, Moves, cluster
<1>3. CASE ListExisting
  BY <1>3 DEF ListExisting, Moves, cluster
<1>4. CASE Discover \/ DiscoverFails
  BY <1>4 DEF Discover, DiscoverFails, Moves, cluster
<1>5. CASE Probe
  BY <1>5 DEF Probe, Moves, Concludes, cluster
<1>6. CASE ProbeFails
  BY <1>6 DEF ProbeFails, Moves, Concludes, cluster
<1>7. CASE EnsureCert
  BY <1>7 DEF EnsureCert, Moves, cluster
<1>8. CASE EnsureSync
  BY <1>8 DEF EnsureSync, Moves, cluster
<1>9. CASE EnsureFails
  BY <1>9 DEF EnsureFails, Moves, Concludes, cluster
<1>10. CASE ListOrphans
  BY <1>10 DEF ListOrphans, Moves, cluster
<1>11. ASSUME NEW n \in Names, PruneSync(n) \/ PruneCert(n)
       PROVE  Moves /\ watched' = watched
  BY <1>11 DEF PruneSync, PruneCert, Moves, cluster
<1>12. CASE ListCertificates
  BY <1>12 DEF ListCertificates, Moves, cluster
<1>13. CASE Pruned
  BY <1>13 DEF Pruned, Moves, Concludes, cluster
<1>14. CASE Ends
  BY <1>14, WorkerIdles
<1>15. CASE Informers \/ Others \/ \E delay \in {"backoff", "resync"} : Fire(delay)
  BY <1>15, WorkerStays
<1> QED
  BY <1>1, <1>2, <1>3, <1>4, <1>5, <1>6, <1>7, <1>8, <1>9, <1>10, <1>11, <1>12, <1>13,
     <1>14, <1>15 DEF Next, Pass, Ends

-----------------------------------------------------------------------------
(***************************************************************************)
(* Steps, by what becomes of the policy and the objects                    *)
(***************************************************************************)
PolicyMoves ==
  \/ policy' = policy
  \/ worker.step = "adopt" /\ ~Conflict /\ policy' = [policy EXCEPT !.finalizer = TRUE]
  \/ worker.step = "report" /\ ~Conflict /\ policy' = [policy EXCEPT !.status = ReportedStatus]
  \/ /\ worker.step = "finalize" /\ ~Conflict /\ worker' = Idle /\ cache' = cache
     /\ policy' = Released
  \/ /\ policy.exists /\ ~policy.deleting /\ worker' = worker /\ cache' = cache
     /\ \/ \E spec \in Specs : policy' = [policy EXCEPT !.spec = spec]
        \/ policy.finalizer /\ policy' = [policy EXCEPT !.deleting = TRUE]
        \/ ~policy.finalizer /\ policy' = [policy EXCEPT !.exists = FALSE, !.status = NoStatus]

LEMMA PolicySteps ==
  ASSUME Next
  PROVE  PolicyMoves
<1>1. CASE Adopt \/ AdoptFails
  BY <1>1 DEF Adopt, AdoptFails, PolicyMoves
<1>2. CASE Report \/ ReportFails
  BY <1>2 DEF Report, ReportFails, StoreStatus, PolicyMoves
<1>3. CASE Finalize \/ FinalizeFails
  BY <1>3 DEF Finalize, FinalizeFails, Released, Abort, PolicyMoves, copies
<1>4. CASE \/ Start \/ ListExisting \/ Discover \/ DiscoverFails \/ Probe
           \/ ProbeFails \/ ListingFails \/ EnsureCert
           \/ EnsureSync \/ EnsureFails \/ ListOrphans \/ ListCertificates \/ Pruned
           \/ PruneFails
  BY <1>4 DEF Start, ListExisting, Discover, DiscoverFails, Probe, ProbeFails,
       ListingFails, EnsureCert, EnsureSync, EnsureFails, ListOrphans, ListCertificates,
       Pruned, PruneFails, PolicyMoves
<1>5. ASSUME NEW n \in Names,
             \/ PruneSync(n) \/ PruneCert(n) \/ DeliverSync(n) \/ DeliverCert(n)
             \/ Collect(n) \/ ReleaseSync(n) \/ Tamper(n)
      PROVE  policy' = policy
  BY <1>5 DEF PruneSync, PruneCert, DeliverSync, DeliverCert, Collect, ReleaseSync, Tamper
<1>6. CASE \/ DeliverPolicy \/ InstallCertManager \/ Tick \/ Restart
           \/ \E s \in Sources : DeliverRoutes(s)
           \/ \E s \in Sources, h \in Hosts : ChangeRoute(s, h)
           \/ \E delay \in {"backoff", "resync"} : Fire(delay)
  BY <1>6 DEF DeliverPolicy, InstallCertManager, Tick, Restart, DeliverRoutes, ChangeRoute,
       Fire, PolicyMoves
<1>7. CASE DeletePolicy \/ \E spec \in Specs : EditPolicy(spec)
  BY <1>7 DEF DeletePolicy, EditPolicy, PolicyMoves, copies
<1> QED
  BY <1>1, <1>2, <1>3, <1>4, <1>5, <1>6, <1>7 DEF Next, Pass, Informers, Others, PolicyMoves

\* The informer's copy is either left alone or made current.
LEMMA CacheSteps ==
  ASSUME Next
  PROVE  \/ cache' = cache
         \/ cache' = policy /\ policy' = policy /\ (worker' = worker \/ worker' = Idle)
<1>1. CASE Pass \/ Start
  BY <1>1 DEF Pass, Start, Adopt, AdoptFails, ListExisting, Discover, DiscoverFails,
       Probe, ProbeFails, ListingFails, EnsureCert, EnsureSync, EnsureFails, ListOrphans,
       PruneSync, PruneCert, ListCertificates, Pruned, PruneFails, Report, ReportFails,
       Finalize, FinalizeFails, copies
<1>2. CASE Informers
  BY <1>2 DEF Informers, DeliverPolicy, DeliverSync, DeliverCert, DeliverRoutes
<1>3. CASE Others \/ \E delay \in {"backoff", "resync"} : Fire(delay)
  BY <1>3 DEF Others, EditPolicy, DeletePolicy, Collect, ReleaseSync, Tamper, ChangeRoute,
       InstallCertManager, Tick, Fire, copies
<1>4. CASE Restart
  BY <1>4 DEF Restart
<1> QED
  BY <1>1, <1>2, <1>3, <1>4 DEF Next

CertMoves ==
  \/ certs' = certs
  \/ /\ worker.step = "cert" /\ worker.todo # {}
     /\ certs' = [certs EXCEPT ![Current.name] = Current.names]
  \/ \E n \in Names : certs' = [certs EXCEPT ![n] = None]

SyncMoves ==
  \/ syncs' = syncs
  \/ /\ worker.step = "sync" /\ worker.todo # {}
     /\ syncs' = [syncs EXCEPT ![Current.name] = SyncFrom(syncCache[Current.name])]
  \/ \E n \in Names : \/ syncs' = [syncs EXCEPT ![n] = Deleted(@)]
                      \/ syncs' = [syncs EXCEPT ![n] = None]

LEMMA ObjectSteps ==
  ASSUME Next, TypeInv
  PROVE  CertMoves /\ SyncMoves
<1>1. CASE \/ Start \/ Adopt \/ AdoptFails \/ ListExisting \/ Discover
           \/ DiscoverFails \/ Probe \/ ProbeFails \/ ListingFails
           \/ ListOrphans \/ ListCertificates \/ Pruned \/ Report \/ ReportFails
           \/ Finalize \/ FinalizeFails
  BY <1>1 DEF Start, Adopt, AdoptFails, ListExisting, Discover, DiscoverFails, Probe,
       ProbeFails, ListingFails, ListOrphans, ListCertificates, Pruned, Report,
       ReportFails, Finalize, FinalizeFails, objects, CertMoves, SyncMoves
<1>2. CASE EnsureCert
  BY <1>2 DEF EnsureCert, CertMoves, SyncMoves
<1>3. CASE EnsureSync
  <2>1. worker.step = "sync" /\ worker.todo # {}
    BY <1>3 DEF EnsureSync, TypeInv, TodoInv
  <2> QED
    BY <1>3, <2>1 DEF EnsureSync, CertMoves, SyncMoves
<1>4. CASE EnsureFails
  BY <1>4 DEF EnsureFails, WriteFails, CertMoves, SyncMoves
<1>5. ASSUME NEW n \in Names, PruneSync(n) \/ PruneCert(n)
      PROVE  CertMoves /\ SyncMoves
  BY <1>5 DEF PruneSync, PruneCert, CertMoves, SyncMoves
<1>6. CASE PruneFails
  <2>1. worker.doomed \subseteq Names
    BY DEF TypeInv, MemoryType, Worker
  <2> QED
    BY <1>6, <2>1 DEF PruneFails, CertMoves, SyncMoves
<1>7. CASE Informers \/ \E delay \in {"backoff", "resync"} : Fire(delay)
  BY <1>7 DEF Informers, DeliverPolicy, DeliverSync, DeliverCert, DeliverRoutes, Fire,
       objects, CertMoves, SyncMoves
<1>8. ASSUME NEW n \in Names, Collect(n) \/ ReleaseSync(n) \/ Tamper(n)
      PROVE  CertMoves /\ SyncMoves
  BY <1>8 DEF Collect, ReleaseSync, Tamper, CertMoves, SyncMoves
<1>9. CASE \/ Restart \/ InstallCertManager \/ Tick \/ DeletePolicy
           \/ \E spec \in Specs : EditPolicy(spec)
           \/ \E s \in Sources, h \in Hosts : ChangeRoute(s, h)
  BY <1>9 DEF Restart, InstallCertManager, Tick, DeletePolicy, EditPolicy, ChangeRoute,
       objects, CertMoves, SyncMoves
<1> QED
  BY <1>1, <1>2, <1>3, <1>4, <1>5, <1>6, <1>7, <1>8, <1>9 DEF Next, Pass, Others

\* A write makes an event, which only a delivery or a restart takes away.
LEMMA PolicyEventSteps ==
  ASSUME Next, stale \in BOOLEAN
  PROVE  (PolicyEvents /\ cache' = cache) \/ DeliverPolicy \/ Restart
<1>1. UNCHANGED <<policy, stale>> => PolicyEvents
  BY DEF PolicyEvents
<1>2. CASE \/ Adopt \/ AdoptFails \/ Report \/ ReportFails \/ Finalize \/ FinalizeFails
  BY <1>1, <1>2 DEF Adopt, AdoptFails, Report, ReportFails, StoreStatus, Finalize, FinalizeFails,
       copies
<1>3. CASE \/ Start \/ ListExisting \/ Discover \/ DiscoverFails \/ Probe
           \/ ProbeFails \/ ListingFails \/ EnsureCert
           \/ EnsureSync \/ EnsureFails \/ ListOrphans \/ ListCertificates \/ Pruned
           \/ PruneFails
  BY <1>1, <1>3 DEF Start, ListExisting, Discover, DiscoverFails, Probe, ProbeFails,
       ListingFails, EnsureCert, EnsureSync, EnsureFails, ListOrphans, ListCertificates,
       Pruned, PruneFails, copies
<1>4. ASSUME NEW n \in Names,
             \/ PruneSync(n) \/ PruneCert(n) \/ DeliverSync(n) \/ DeliverCert(n)
             \/ Collect(n) \/ ReleaseSync(n) \/ Tamper(n)
      PROVE  PolicyEvents /\ cache' = cache
  BY <1>1, <1>4 DEF PruneSync, PruneCert, DeliverSync, DeliverCert, Collect, ReleaseSync, Tamper,
       copies
<1>5. CASE \/ InstallCertManager \/ Tick \/ \E s \in Sources : DeliverRoutes(s)
           \/ \E s \in Sources, h \in Hosts : ChangeRoute(s, h)
           \/ \E delay \in {"backoff", "resync"} : Fire(delay)
  BY <1>1, <1>5 DEF InstallCertManager, Tick, DeliverRoutes, ChangeRoute, Fire, copies
<1>6. CASE DeletePolicy \/ \E spec \in Specs : EditPolicy(spec)
  BY <1>1, <1>6 DEF DeletePolicy, EditPolicy, copies
<1> QED
  BY <1>2, <1>3, <1>4, <1>5, <1>6 DEF Next, Pass, Informers, Others

LEMMA SyncEventSteps ==
  ASSUME Next
  PROVE  (SyncEvents /\ syncCache' = syncCache) \/ Restart \/ \E n \in Names : DeliverSync(n)
<1>1. UNCHANGED <<syncs, unseen>> => SyncEvents
  BY DEF SyncEvents
<1>2. CASE Start \/ Pass
  BY <1>1, <1>2 DEF Start, Pass, Adopt, AdoptFails, ListExisting, Discover, DiscoverFails,
       Probe, ProbeFails, ListingFails, EnsureCert, EnsureSync, EnsureFails, ListOrphans,
       PruneSync, PruneCert, ListCertificates, Pruned, PruneFails, Report, ReportFails,
       Finalize, FinalizeFails, objects, copies
<1>3. CASE DeliverPolicy \/ (\E n \in Names : DeliverCert(n)) \/ \E s \in Sources : DeliverRoutes(s)
  BY <1>1, <1>3 DEF DeliverPolicy, DeliverCert, DeliverRoutes, objects
<1>4. CASE Others \/ \E delay \in {"backoff", "resync"} : Fire(delay)
  BY <1>1, <1>4 DEF Others, EditPolicy, DeletePolicy, Collect, ReleaseSync, Tamper, ChangeRoute,
       InstallCertManager, Tick, Fire, objects, copies
<1> QED
  BY <1>2, <1>3, <1>4 DEF Next, Informers

-----------------------------------------------------------------------------
(***************************************************************************)
(* The types are kept                                                      *)
(***************************************************************************)
LEMMA PolicyKept ==
  ASSUME TypeInv, Next
  PROVE  policy' \in PolicyObject /\ cache' \in PolicyObject
<1>1. policy \in PolicyObject /\ cache \in PolicyObject
  BY DEF TypeInv, ClusterType
<1>2. policy' \in PolicyObject
  <2>1. CASE worker.step = "report" /\ ~Conflict /\ policy' = [policy EXCEPT !.status = ReportedStatus]
    <3>1. worker \in Worker /\ worker.object = policy /\ now \in Nat
      BY <2>1 DEF Conflict, TypeInv, MemoryType, ClusterType
    <3>2. ReportedStatus \in Status
      BY <1>1, <3>1 DEF ReportedStatus, Worker, Status, PolicyObject
    <3> QED
      BY <1>1, <2>1, <3>2 DEF PolicyObject
  <2>2. CASE policy' = Released
    BY <1>1, <2>2 DEF Released, PolicyObject, Status, NoStatus, Reasons
  <2>3. CASE policy' = [policy EXCEPT !.exists = FALSE, !.status = NoStatus]
    BY <1>1, <2>3 DEF PolicyObject, Status, NoStatus, Reasons
  <2>4. CASE \/ policy' = policy \/ policy' = [policy EXCEPT !.finalizer = TRUE]
             \/ policy' = [policy EXCEPT !.deleting = TRUE]
             \/ \E spec \in Specs : policy' = [policy EXCEPT !.spec = spec]
    BY <1>1, <2>4 DEF PolicyObject
  <2> QED
    BY <2>1, <2>2, <2>3, <2>4, PolicySteps DEF PolicyMoves
<1> QED
  BY <1>1, <1>2, CacheSteps

LEMMA ObjectsKept ==
  ASSUME TypeInv, Next
  PROVE  certs' \in [Names -> CertObject] /\ syncs' \in [Names -> SyncObject]
<1>1. /\ certs \in [Names -> CertObject] /\ syncs \in [Names -> SyncObject]
      /\ syncCache \in [Names -> SyncObject]
  BY DEF TypeInv, ClusterType
<1>2. certs' \in [Names -> CertObject]
  <2>1. CASE /\ worker.step = "cert" /\ worker.todo # {}
             /\ certs' = [certs EXCEPT ![Current.name] = Current.names]
    <3>1. Current.name \in Names /\ Current.names \in CertObject
      BY <2>1, CurrentInTodo DEF Certificate, CertObject
    <3> QED
      BY <1>1, <2>1, <3>1
  <2>2. CASE certs' = certs \/ \E n \in Names : certs' = [certs EXCEPT ![n] = None]
    BY <1>1, <2>2 DEF CertObject
  <2> QED
    BY <2>1, <2>2, ObjectSteps DEF CertMoves
<1>3. syncs' \in [Names -> SyncObject]
  <2>1. CASE /\ worker.step = "sync" /\ worker.todo # {}
             /\ syncs' = [syncs EXCEPT ![Current.name] = SyncFrom(syncCache[Current.name])]
    <3>1. Current.name \in Names /\ worker.object.spec \in Specs
      BY <2>1, CurrentInTodo DEF Certificate, PolicyObject
    <3>2. worker.object.spec.target \in Targets
      BY <3>1, SpecsAssumption DEF Spec
    <3>3. syncCache[Current.name] = None \/ syncCache[Current.name].deleting \in BOOLEAN
      BY <1>1, <3>1 DEF SyncObject
    <3>4. SyncFrom(syncCache[Current.name]) \in SyncObject
      BY <3>2, <3>3 DEF SyncFrom, SyncObject
    <3> QED
      BY <1>1, <2>1, <3>1, <3>4
  <2>2. ASSUME NEW n \in Names, syncs' = [syncs EXCEPT ![n] = Deleted(@)]
        PROVE  syncs' \in [Names -> SyncObject]
    <3>1. Deleted(syncs[n]) \in SyncObject
      BY <1>1 DEF Deleted, SyncObject
    <3> QED
      BY <1>1, <2>2, <3>1
  <2>3. CASE syncs' = syncs \/ \E n \in Names : syncs' = [syncs EXCEPT ![n] = None]
    BY <1>1, <2>3 DEF SyncObject
  <2> QED
    BY <2>1, <2>2, <2>3, ObjectSteps DEF SyncMoves
<1> QED
  BY <1>2, <1>3

\* What informers of objects and routes show is what was there.
LEMMA CopiesKept ==
  ASSUME TypeInv, Next
  PROVE  /\ certCache' \in [Names -> CertObject] /\ syncCache' \in [Names -> SyncObject]
         /\ routes' \in [Sources -> SUBSET Hosts] /\ routeCache' \in [Sources -> SUBSET Hosts]
         /\ watched' \in SUBSET Sources
         /\ \A s \in Sources \ watched' : routeCache'[s] = {}
<1>1. /\ certs \in [Names -> CertObject] /\ certCache \in [Names -> CertObject]
      /\ syncs \in [Names -> SyncObject] /\ syncCache \in [Names -> SyncObject]
      /\ routes \in [Sources -> SUBSET Hosts] /\ routeCache \in [Sources -> SUBSET Hosts]
      /\ watched \in SUBSET Sources /\ \A s \in Sources \ watched : routeCache[s] = {}
  BY DEF TypeInv, ClusterType, StampInv
<1>2. CASE \/ Start \/ Pass \/ \E delay \in {"backoff", "resync"} : Fire(delay)
  <2>1. UNCHANGED <<certCache, syncCache, routes, routeCache, watched>>
    BY <1>2 DEF Start, Pass, Adopt, AdoptFails, ListExisting, Discover, DiscoverFails,
         Probe, ProbeFails, ListingFails, EnsureCert, EnsureSync, EnsureFails,
         ListOrphans, PruneSync, PruneCert, ListCertificates, Pruned, PruneFails, Report,
         ReportFails, Finalize, FinalizeFails, Fire, copies, cluster
  <2> QED
    BY <1>1, <2>1
<1>3. CASE DeliverPolicy \/ \E n \in Names : DeliverSync(n) \/ DeliverCert(n)
  BY <1>1, <1>3 DEF DeliverPolicy, DeliverSync, DeliverCert, cluster
<1>4. ASSUME NEW s \in Sources, DeliverRoutes(s)
      PROVE  /\ UNCHANGED <<certCache, syncCache, routes, watched>>
             /\ routeCache' \in [Sources -> SUBSET Hosts]
             /\ \A t \in Sources \ watched : routeCache'[t] = {}
  BY <1>1, <1>4 DEF DeliverRoutes, cluster
<1>5. CASE Restart
  <2>1. PICK kinds \in SUBSET GatewayKinds : watched' = {"ingress"} \cup kinds
    BY <1>5 DEF Restart
  <2>2. watched' \in SUBSET Sources
    BY <2>1 DEF Sources
  <2>3. routeCache' = [s \in Sources |-> IF s \in watched' THEN routes[s] ELSE {}]
    BY <1>5 DEF Restart
  <2> QED
    BY <1>1, <1>5, <2>2, <2>3 DEF Restart
<1>6. CASE \/ DeletePolicy \/ InstallCertManager \/ Tick
           \/ \E spec \in Specs : EditPolicy(spec)
           \/ \E n \in Names : Collect(n) \/ ReleaseSync(n) \/ Tamper(n)
  <2>1. UNCHANGED <<certCache, syncCache, routes, routeCache, watched>>
    BY <1>6 DEF EditPolicy, DeletePolicy, Collect, ReleaseSync, Tamper, InstallCertManager,
         Tick, copies, cluster
  <2> QED
    BY <1>1, <2>1
<1>7. ASSUME NEW s \in Sources, NEW h \in Hosts, ChangeRoute(s, h)
      PROVE  /\ UNCHANGED <<certCache, syncCache, routeCache, watched>>
             /\ routes' \in [Sources -> SUBSET Hosts]
  BY <1>1, <1>7 DEF ChangeRoute, copies
<1> QED
  BY <1>1, <1>2, <1>3, <1>4, <1>5, <1>6, <1>7 DEF Next, Informers, Others

LEMMA ClockKept ==
  ASSUME TypeInv, Next
  PROVE  now' \in Nat /\ now <= now' /\ left' \in [Disturbances -> Nat]
<1>1. now \in Nat /\ left \in [Disturbances -> Nat]
  BY DEF TypeInv, ClusterType
<1>2. \/ UNCHANGED left
      \/ \E kind \in Disturbances : Spend(kind)
  BY DEF Next, Start, Pass, Informers, Others, Adopt, AdoptFails, ListExisting, Discover,
       DiscoverFails, Probe, ProbeFails, ListingFails, EnsureCert, EnsureSync,
       EnsureFails, WriteFails, ListOrphans, PruneSync, PruneCert, ListCertificates,
       Pruned, PruneFails, Report, ReportFails, Finalize, FinalizeFails, Fire, Restart,
       DeliverPolicy, DeliverSync, DeliverCert, DeliverRoutes, EditPolicy, DeletePolicy,
       Collect, ReleaseSync, Tamper, ChangeRoute, InstallCertManager, Tick, Disturbances
<1>3. left' \in [Disturbances -> Nat]
  BY <1>1, <1>2 DEF Spend
<1>4. now' = now \/ now' = now + 1
  BY DEF Next, Start, Pass, Informers, Others, Adopt, AdoptFails, ListExisting, Discover,
       DiscoverFails, Probe, ProbeFails, ListingFails, EnsureCert, EnsureSync,
       EnsureFails, ListOrphans, PruneSync, PruneCert, ListCertificates, Pruned,
       PruneFails, Report, ReportFails, Finalize, FinalizeFails, Fire, Restart,
       DeliverPolicy, DeliverSync, DeliverCert, DeliverRoutes, EditPolicy, DeletePolicy,
       Collect, ReleaseSync, Tamper, ChangeRoute, InstallCertManager, Tick, cluster
<1> QED
  BY <1>1, <1>3, <1>4

\* The pass in progress, whatever the step makes of it.
PassType ==
  /\ worker \in Worker
  /\ worker.step # "idle" => worker.object \in PolicyObject
  /\ PlanOfWorker /\ TodoInv /\ DoomedInv

LEMMA IdlePass ==
  ASSUME worker' = Idle
  PROVE  PassType'
<1>1. Idle \in Worker
  BY DEF Idle, Worker, Steps, Reasons
<1> QED
  BY <1>1 DEF PassType, PlanOfWorker, TodoInv, DoomedInv, Planned, Idle

LEMMA DiscoverKeeps ==
  ASSUME TypeInv, Discover
  PROVE  PassType'
<1> DEFINE spec == worker.object.spec
           hosts == Discovered(spec)
           plan == PlanFor(spec, hosts, worker.existing)
<1>1. /\ worker \in Worker /\ worker.object \in PolicyObject /\ worker.step = "plan"
      /\ worker.todo = {} /\ worker.doomed = {}
  BY DEF Discover, TypeInv, MemoryType, TodoInv, DoomedInv
<1>2. spec \in Specs /\ worker.existing \in SUBSET Names
  BY <1>1 DEF Worker, PolicyObject
<1>3. hosts \in SUBSET Hosts
  BY DEF Discovered, TypeInv, ClusterType
<1>4. plan \in PlanValues
  BY <1>2, <1>3, PlanOfPass
<1> HIDE DEF hosts, plan
<1>5. \/ /\ spec.sound /\ plan.ok
         /\ worker' = [worker EXCEPT !.step = "probe", !.hosts = hosts, !.plan = plan,
                                     !.existing = {}]
      \/ worker' = [worker EXCEPT !.step = "report", !.result = "ConfigInvalid",
                                  !.existing = {}]
  BY DEF Discover, hosts, plan
<1>6. CASE /\ spec.sound /\ plan.ok
           /\ worker' = [worker EXCEPT !.step = "probe", !.hosts = hosts, !.plan = plan,
                                       !.existing = {}]
  <2>1. worker' \in Worker
    BY <1>1, <1>3, <1>4, <1>6 DEF Worker, Steps
  <2>2. /\ worker'.step = "probe" /\ worker'.hosts = hosts /\ worker'.plan = plan
        /\ worker'.object = worker.object /\ worker'.todo = {} /\ worker'.doomed = {}
    BY <1>1, <1>6 DEF Worker
  <2>3. plan = PlanFor(worker'.object.spec, worker'.hosts, worker.existing)
    BY <2>2 DEF plan
  <2>4. PlanOfWorker'
    BY <1>2, <1>6, <2>2, <2>3 DEF PlanOfWorker
  <2> QED
    BY <1>1, <2>1, <2>2, <2>4 DEF PassType, TodoInv, DoomedInv
<1>7. CASE worker' = [worker EXCEPT !.step = "report", !.result = "ConfigInvalid",
                                    !.existing = {}]
  BY <1>1, <1>7 DEF Worker, Steps, Reasons, PassType, PlanOfWorker, TodoInv, DoomedInv, Planned
<1> QED
  BY <1>5, <1>6, <1>7

\* A failed discovery goes to the report, whatever the pass had seen.
LEMMA DiscoverFailsSteps ==
  ASSUME TypeInv, DiscoverFails
  PROVE  /\ worker \in Worker /\ worker.step = "plan"
         /\ worker' = [worker EXCEPT !.step = "report", !.result = "VaultError",
                                     !.existing = {}]
         /\ worker'.step = "report" /\ worker'.result = "VaultError"
<1>1. worker.step = "plan" /\ worker \in Worker
  BY DEF DiscoverFails, TypeInv, MemoryType
<1>2. worker' = [worker EXCEPT !.step = "report", !.result = "VaultError", !.existing = {}]
  BY DEF DiscoverFails
<1> QED
  BY <1>1, <1>2 DEF Worker

LEMMA DiscoverFailsKeeps ==
  ASSUME TypeInv, DiscoverFails
  PROVE  PassType'
<1>1. worker.object \in PolicyObject /\ worker.todo = {} /\ worker.doomed = {}
  BY DiscoverFailsSteps DEF TypeInv, MemoryType, TodoInv, DoomedInv
<1> QED
  BY <1>1, DiscoverFailsSteps DEF Worker, Steps, Reasons, PassType, PlanOfWorker, TodoInv,
       DoomedInv, Planned

LEMMA ConcludesKeeps ==
  ASSUME TypeInv, Concludes
  PROVE  PassType'
<1>1. worker \in Worker /\ worker.object \in PolicyObject
  BY DEF Concludes, TypeInv, MemoryType
<1>2. worker.doomed = {}
  BY DEF Concludes, TypeInv, DoomedInv
<1>3. \E reason \in Reasons :
        worker' = [worker EXCEPT !.step = "report", !.result = reason, !.todo = {}]
  BY DEF Concludes, Conclude, Reasons
<1> QED
  BY <1>1, <1>2, <1>3 DEF Worker, Steps, PassType, PlanOfWorker, TodoInv, DoomedInv, Planned

LEMMA ListOrphansKeeps ==
  ASSUME TypeInv, ListOrphans
  PROVE  PassType'
<1> DEFINE orphans == Generated(syncCache) \ PlannedNames(worker.plan)
<1>1. /\ worker \in Worker /\ worker.object \in PolicyObject /\ worker.step = "cert"
      /\ worker.todo = {} /\ worker.doomed = {}
  BY DEF ListOrphans, TypeInv, MemoryType, DoomedInv
<1>2. PlanOfWorker
  BY DEF TypeInv
<1>3. orphans \in SUBSET Names
  BY DEF Generated, TypeInv, ClusterType
<1>4. watched' = watched
  BY DEF ListOrphans, cluster
<1>5. \/ /\ ~PruneWithheld(worker.object.spec, worker.plan)
         /\ worker' = [worker EXCEPT !.step = "pruneSyncs", !.doomed = orphans]
      \/ \E reason \in Reasons : worker' = [worker EXCEPT !.step = "report", !.result = reason]
  BY DEF ListOrphans, Reasons
<1>6. orphans \cap PlannedNames(worker.plan) = {}
  OBVIOUS
<1> HIDE DEF orphans
<1>7. CASE /\ ~PruneWithheld(worker.object.spec, worker.plan)
           /\ worker' = [worker EXCEPT !.step = "pruneSyncs", !.doomed = orphans]
  <2>1. worker' \in Worker
    BY <1>1, <1>3, <1>7 DEF Worker, Steps
  <2>2. /\ worker'.step = "pruneSyncs" /\ worker'.hosts = worker.hosts
        /\ worker'.plan = worker.plan /\ worker'.object = worker.object
        /\ worker'.todo = {} /\ worker'.doomed = orphans
    BY <1>1, <1>7 DEF Worker
  <2>3. PlanOfWorker'
    BY <1>1, <1>2, <2>2 DEF PlanOfWorker, Planned
  <2>4. DoomedInv'
    BY <1>4, <1>6, <1>7, <2>2 DEF DoomedInv, PruneWithheld
  <2> QED
    BY <1>1, <2>1, <2>2, <2>3, <2>4 DEF PassType, TodoInv
<1>8. CASE \E reason \in Reasons : worker' = [worker EXCEPT !.step = "report", !.result = reason]
  BY <1>1, <1>8 DEF Worker, Steps, PassType, PlanOfWorker, TodoInv, DoomedInv, Planned
<1> QED
  BY <1>5, <1>7, <1>8

LEMMA MovesKeep ==
  ASSUME TypeInv, Moves, watched' = watched, policy' \in PolicyObject
  PROVE  PassType'
<1>1. worker \in Worker /\ (worker.step # "idle" => worker.object \in PolicyObject)
  BY DEF TypeInv, MemoryType
<1>2. PlanOfWorker /\ TodoInv /\ DoomedInv
  BY DEF TypeInv
<1>3. CASE worker.step = "idle" /\ worker' = worker
  BY <1>1, <1>2, <1>3 DEF PassType, PlanOfWorker, TodoInv, DoomedInv, Planned
<1>4. ASSUME worker.step = "idle", NEW step \in {"finalize", "list", "adopt"},
             worker' = [worker EXCEPT !.step = step, !.object = cache]
      PROVE  PassType'
  <2>1. cache \in PolicyObject
    BY DEF TypeInv, ClusterType
  <2>2. worker' \in Worker
    BY <1>1, <1>4, <2>1 DEF Worker, Steps
  <2> QED
    BY <1>1, <1>2, <1>4, <2>1, <2>2
    DEF Worker, PassType, PlanOfWorker, TodoInv, DoomedInv, Planned
<1>5. CASE worker.step = "adopt" /\ worker' = [worker EXCEPT !.step = "list", !.object = policy']
  <2>1. worker' \in Worker
    BY <1>1, <1>5 DEF Worker, Steps
  <2> QED
    BY <1>1, <1>2, <1>5, <2>1 DEF Worker, PassType, PlanOfWorker, TodoInv, DoomedInv, Planned
<1>6. CASE /\ worker.step = "list"
           /\ worker' = [worker EXCEPT !.step = "plan", !.existing = Generated(syncCache)]
  <2>1. Generated(syncCache) \in SUBSET Names
    BY DEF Generated, TypeInv, ClusterType
  <2>2. worker' \in Worker
    BY <1>1, <1>6, <2>1 DEF Worker, Steps
  <2> QED
    BY <1>1, <1>2, <1>6, <2>2 DEF Worker, PassType, PlanOfWorker, TodoInv, DoomedInv, Planned
<1>7. CASE /\ worker.step = "probe"
           /\ worker' = [worker EXCEPT !.step = "cert", !.todo = worker.plan.certificates]
  <2>1. worker.plan.certificates \in SUBSET Certificate
    BY <1>7, PlanOfWorkerSound DEF Sound, Planned
  <2>2. worker' \in Worker
    BY <1>1, <1>7, <2>1 DEF Worker, Steps
  <2> QED
    BY <1>1, <1>2, <1>7, <2>2 DEF Worker, PassType, PlanOfWorker, TodoInv, DoomedInv, Planned
<1>8. CASE worker.step = "cert" /\ worker.todo # {} /\ worker' = [worker EXCEPT !.step = "sync"]
  <2>1. worker' \in Worker
    BY <1>1, <1>8 DEF Worker, Steps
  <2> QED
    BY <1>1, <1>2, <1>8, <2>1 DEF Worker, PassType, PlanOfWorker, TodoInv, DoomedInv, Planned
<1>9. CASE worker.step = "sync" /\ worker' = [worker EXCEPT !.step = "cert", !.todo = @ \ {Current}]
  <2>1. worker.todo \ {Current} \in SUBSET Certificate
    BY <1>1 DEF Worker
  <2>2. worker' \in Worker
    BY <1>1, <1>9, <2>1 DEF Worker, Steps
  <2> QED
    BY <1>1, <1>2, <1>9, <2>2 DEF Worker, PassType, PlanOfWorker, TodoInv, DoomedInv, Planned
<1>10. ASSUME worker.step \in {"pruneSyncs", "pruneCerts"}, NEW n \in worker.doomed,
              worker' = [worker EXCEPT !.doomed = @ \ {n}]
       PROVE  PassType'
  <2>1. worker' \in Worker
    BY <1>1, <1>10 DEF Worker
  <2>2. DoomedInv'
    BY <1>1, <1>2, <1>10 DEF Worker, DoomedInv, PruneWithheld
  <2> QED
    BY <1>1, <1>2, <1>10, <2>1, <2>2 DEF Worker, PassType, PlanOfWorker, TodoInv, Planned
<1>11. CASE /\ worker.step = "pruneSyncs"
            /\ worker' = [worker EXCEPT !.step = "pruneCerts",
                            !.doomed = Generated(certCache) \ PlannedNames(worker.plan)]
  <2> DEFINE doomed == Generated(certCache) \ PlannedNames(worker.plan)
  <2>1. doomed \in SUBSET Names /\ doomed \cap PlannedNames(worker.plan) = {}
    BY DEF Generated, TypeInv, ClusterType
  <2> HIDE DEF doomed
  <2>2. worker' = [worker EXCEPT !.step = "pruneCerts", !.doomed = doomed]
    BY <1>11 DEF doomed
  <2>3. worker' \in Worker
    BY <1>1, <2>1, <2>2 DEF Worker, Steps
  <2>4. /\ worker'.step = "pruneCerts" /\ worker'.doomed = doomed /\ worker'.plan = worker.plan
        /\ worker'.object = worker.object
    BY <1>1, <2>2 DEF Worker
  <2>5. DoomedInv'
    BY <1>2, <1>11, <2>1, <2>4 DEF DoomedInv, PruneWithheld
  <2> QED
    BY <1>1, <1>2, <1>11, <2>2, <2>3, <2>5 DEF Worker, PassType, PlanOfWorker, TodoInv, Planned
<1> QED
  BY <1>3, <1>4, <1>5, <1>6, <1>7, <1>8, <1>9, <1>10, <1>11, DiscoverKeeps,
       DiscoverFailsKeeps, ConcludesKeeps, ListOrphansKeeps DEF Moves

LEMMA PassKept ==
  ASSUME TypeInv, Next
  PROVE  PassType'
<1>1. CASE worker' = worker /\ watched' = watched
  <2>1. worker \in Worker /\ (worker.step # "idle" => worker.object \in PolicyObject)
    BY DEF TypeInv, MemoryType
  <2> QED
    BY <1>1, <2>1 DEF PassType, TypeInv, PlanOfWorker, TodoInv, DoomedInv, Planned, PruneWithheld
<1> QED
  BY <1>1, WorkerMoves, IdlePass, MovesKeep, PolicyKept

LEMMA ScheduleKept ==
  ASSUME TypeInv, Next
  PROVE  /\ queued' \in BOOLEAN /\ timer' \in {"none", "backoff", "resync"}
         /\ unsure' \in SUBSET Names
         /\ stale' \in BOOLEAN /\ unseen' \in SUBSET Names
<1>1. /\ queued \in BOOLEAN /\ timer \in {"none", "backoff", "resync"}
      /\ unsure \in SUBSET Names /\ cache \in PolicyObject /\ policy \in PolicyObject
  BY DEF TypeInv, MemoryType, ClusterType
<1>2. queued' \in BOOLEAN
  BY <1>1 DEF PolicyObject, Next, Start, Pass, Informers, Others, Adopt, AdoptFails,
       ListExisting, Discover, DiscoverFails, Probe, ProbeFails, ListingFails, EnsureCert,
       EnsureSync, EnsureFails, ListOrphans, PruneSync, PruneCert, ListCertificates,
       Pruned, PruneFails, Report, ReportFails, Finalize, FinalizeFails, Fire, Restart,
       DeliverPolicy, DeliverSync, DeliverCert, DeliverRoutes, EditPolicy, DeletePolicy,
       Collect, ReleaseSync, Tamper, ChangeRoute, InstallCertManager, Tick, Abort,
       schedule
<1>3. timer' \in {"none", "backoff", "resync"}
  BY <1>1 DEF Next, Start, Pass, Informers, Others, Adopt, AdoptFails, ListExisting,
       Discover, DiscoverFails, Probe, ProbeFails, ListingFails, EnsureCert, EnsureSync,
       EnsureFails, ListOrphans, PruneSync, PruneCert, ListCertificates, Pruned,
       PruneFails, Report, ReportFails, Finalize, FinalizeFails, Fire, Restart,
       DeliverPolicy, DeliverSync, DeliverCert, DeliverRoutes, EditPolicy, DeletePolicy,
       Collect, ReleaseSync, Tamper, ChangeRoute, InstallCertManager, Tick, Abort,
       Requeue, schedule
<1>4. unsure' \in SUBSET Names
  <2>1. CASE EnsureCert
    <3>1. Current.name \in Names
      BY <2>1, CurrentInTodo DEF EnsureCert, Certificate
    <3> QED
      BY <1>1, <2>1, <3>1 DEF EnsureCert
  <2>2. CASE ~EnsureCert
    BY <1>1, <2>2 DEF Next, Start, Pass, Informers, Others, Adopt, AdoptFails,
         ListExisting, Discover, DiscoverFails, Probe, ProbeFails, ListingFails,
         EnsureSync, EnsureFails, ListOrphans, PruneSync, PruneCert, ListCertificates,
         Pruned, PruneFails, Report, ReportFails, Finalize, FinalizeFails, Fire, Restart,
         DeliverPolicy, DeliverSync, DeliverCert, DeliverRoutes, EditPolicy, DeletePolicy,
         Collect, ReleaseSync, Tamper, ChangeRoute, InstallCertManager, Tick, objects
  <2> QED
    BY <2>1, <2>2
<1>5. stale' \in BOOLEAN
  BY PolicyEventSteps DEF TypeInv, MemoryType, PolicyEvents, DeliverPolicy, Restart
<1>6. unseen' \in SUBSET Names
  BY SyncEventSteps DEF TypeInv, MemoryType, SyncEvents, DeliverSync, Restart
<1> QED
  BY <1>2, <1>3, <1>4, <1>5, <1>6

LEMMA StampKept ==
  ASSUME TypeInv, Next
  PROVE  StampInv'
<1>1. /\ policy \in PolicyObject /\ now \in Nat /\ now' \in Nat /\ now <= now'
      /\ policy.status.discoveredAt <= now
      /\ policy.deleting => policy.exists /\ policy.finalizer
  BY ClockKept DEF TypeInv, ClusterType, StampInv
<1>2. policy.status.discoveredAt \in Nat
  BY <1>1 DEF PolicyObject, Status
<1>3. /\ policy'.status.discoveredAt <= now'
      /\ policy'.deleting => policy'.exists /\ policy'.finalizer
  <2>1. CASE worker.step = "report" /\ ~Conflict /\ policy' = [policy EXCEPT !.status = ReportedStatus]
    <3>1. ReportedStatus.discoveredAt = now \/ ReportedStatus.discoveredAt = policy.status.discoveredAt
      BY <2>1 DEF ReportedStatus, Conflict
    <3> QED
      BY <1>1, <1>2, <2>1, <3>1 DEF PolicyObject
  <2>2. CASE policy' = Released
    BY <1>1, <2>2 DEF Released, PolicyObject, NoStatus
  <2>3. CASE ~policy.deleting /\ policy' = [policy EXCEPT !.exists = FALSE, !.status = NoStatus]
    BY <1>1, <2>3 DEF PolicyObject, NoStatus
  <2>4. CASE \/ policy' = policy \/ policy' = [policy EXCEPT !.finalizer = TRUE]
             \/ policy.finalizer /\ policy.exists /\ policy' = [policy EXCEPT !.deleting = TRUE]
             \/ \E spec \in Specs : policy' = [policy EXCEPT !.spec = spec]
    BY <1>1, <1>2, <2>4 DEF PolicyObject
  <2> QED
    BY <2>1, <2>2, <2>3, <2>4, PolicySteps DEF PolicyMoves
<1> QED
  BY <1>3, CopiesKept DEF StampInv

LEMMA TypeStep ==
  ASSUME TypeInv, [Next]_vars
  PROVE  TypeInv'
<1>1. CASE Next
  <2>1. PassType'
    BY <1>1, PassKept
  <2>2. MemoryType'
    BY <1>1, <2>1, ScheduleKept DEF PassType, MemoryType
  <2>3. ClusterType'
    BY <1>1, PolicyKept, ObjectsKept, CopiesKept, ClockKept DEF ClusterType
  <2> QED
    BY <1>1, <2>1, <2>2, <2>3, StampKept DEF TypeInv, PassType
<1>2. CASE UNCHANGED vars
  <2>1. MemoryType' /\ ClusterType' /\ StampInv'
    BY <1>2 DEF vars, TypeInv, MemoryType, ClusterType, StampInv
  <2>2. PlanOfWorker' /\ TodoInv' /\ DoomedInv'
    BY <1>2 DEF vars, TypeInv, PlanOfWorker, TodoInv, DoomedInv, PruneWithheld, PlanFor
  <2> QED
    BY <2>1, <2>2 DEF TypeInv
<1> QED
  BY <1>1, <1>2

LEMMA TypeInvHolds == Safety => []TypeInv
BY TypeInit, TypeStep, PTL DEF Safety

\* The operator's memory, its copies and the cluster have their types in every
\* state; a pass beyond its probe has a plan that was accepted, and works only
\* on that plan's certificates, and prunes none of them.
THEOREM TypeCorrect == Safety => []TypeOK
<1>1. TypeInv => TypeOK
  <2> SUFFICES ASSUME TypeInv PROVE TypeOK
    OBVIOUS
  <2>1. /\ policy \in PolicyObject /\ worker \in Worker /\ now \in Nat
        /\ certs \in [Names -> CertObject] /\ syncs \in [Names -> SyncObject]
    BY DEF TypeInv, MemoryType, ClusterType
  <2>2. /\ policy.spec \in Specs /\ policy.status.ready \in Reasons
        /\ policy.status.discoveredAt \in 0..now
        /\ policy.deleting => policy.exists /\ policy.finalizer
    BY <2>1 DEF PolicyObject, Status, TypeInv, StampInv
  <2>3. \A n \in Names : /\ certs[n] = None \/ certs[n] \in (SUBSET DnsName) \ {{}}
                         /\ syncs[n] = None \/ syncs[n].target \in Targets
    BY <2>1 DEF CertObject, SyncObject
  <2>4. \A s \in Sources : s \notin watched => routeCache[s] = {}
    BY DEF TypeInv, StampInv
  <2>5. worker.step \in Steps /\ stale \in BOOLEAN /\ unseen \subseteq Names
    BY <2>1 DEF Worker, TypeInv, MemoryType
  <2> QED
    BY <2>2, <2>3, <2>4, <2>5
    DEF TypeOK, TypeInv, PlanOfWorker, Planned, TodoInv, DoomedInv
<1> QED
  BY <1>1, TypeInvHolds, PTL

-----------------------------------------------------------------------------
(***************************************************************************)
(* Every pass that creates works for a policy that will be cleaned up      *)
(***************************************************************************)
\* What the informer shows of finalizer and deletion is never too good to be
\* true, and what a pass was started for still holds while it runs.
TrustInv ==
  /\ cache.exists /\ cache.finalizer /\ ~cache.deleting => policy.exists /\ policy.finalizer
  /\ cache.deleting => policy.deleting \/ ~policy.exists
  /\ worker.step = "finalize" => /\ ~cache.exists \/ cache.deleting
                                 /\ policy.deleting \/ ~policy.exists
  /\ PassUnderFinalizer

\* A policy is let go only by the pass that finalizes it, or by a user while
\* it has no finalizer, and a deletion is never taken back.
LEMMA PolicyStands ==
  ASSUME TypeInv, Next
  PROVE  /\ policy.exists /\ policy.finalizer =>
              \/ policy'.exists /\ policy'.finalizer
              \/ worker.step = "finalize" /\ worker' = Idle /\ cache' = cache
         /\ policy.deleting \/ ~policy.exists => policy'.deleting \/ ~policy'.exists
<1>1. policy \in PolicyObject
  BY DEF TypeInv, ClusterType
<1> QED
  BY <1>1, PolicySteps DEF PolicyMoves, PolicyObject, Released, Conflict

\* Where a pass is after a step, by where it was.
LEMMA StepsFrom ==
  ASSUME TypeInv, Next
  PROVE  /\ worker'.step = "finalize" =>
              worker.step = "finalize" \/ (worker.step = "idle" /\ cache.deleting)
         /\ worker'.step \notin {"idle", "adopt", "finalize"} =>
              \/ worker.step \notin {"idle", "adopt", "finalize"}
              \/ cache.exists /\ cache.finalizer /\ ~cache.deleting
              \/ policy'.exists /\ policy'.finalizer
<1>1. worker \in Worker /\ policy \in PolicyObject
  BY DEF TypeInv, MemoryType, ClusterType
<1>2. CASE worker' = worker \/ worker' = Idle
  BY <1>2 DEF Idle
<1>3. CASE Discover \/ DiscoverFails \/ ListOrphans \/ Concludes
  BY <1>1, <1>3 DEF Worker, Discover, DiscoverFails, ListOrphans, Concludes, Conclude
<1>4. CASE /\ worker.step = "adopt" /\ ~Conflict /\ policy' = [policy EXCEPT !.finalizer = TRUE]
           /\ worker' = [worker EXCEPT !.step = "list", !.object = policy']
  BY <1>1, <1>4 DEF Worker, PolicyObject, Conflict
<1> QED
  BY <1>1, <1>2, <1>3, <1>4, WorkerMoves DEF Moves, Worker

LEMMA TrustStep ==
  ASSUME TypeInv, TrustInv, [Next]_vars
  PROVE  TrustInv'
<1>1. CASE UNCHANGED vars
  BY <1>1 DEF vars, TrustInv, PassUnderFinalizer
<1>2. CASE Next
  <2>1. \/ cache' = cache
        \/ cache' = policy /\ policy' = policy /\ (worker' = worker \/ worker' = Idle)
    BY <1>2, CacheSteps
  <2>2. /\ cache'.exists /\ cache'.finalizer /\ ~cache'.deleting =>
             policy'.exists /\ policy'.finalizer
        /\ cache'.deleting => policy'.deleting \/ ~policy'.exists
    BY <1>2, <2>1, PolicyStands DEF TrustInv, TypeInv, StampInv
  <2>3. worker'.step = "finalize" => /\ ~cache'.exists \/ cache'.deleting
                                     /\ policy'.deleting \/ ~policy'.exists
    BY <1>2, <2>1, PolicyStands, StepsFrom DEF TrustInv, Idle
  <2>4. PassUnderFinalizer'
    BY <1>2, PolicyStands, StepsFrom DEF TrustInv, PassUnderFinalizer, Idle
  <2> QED
    BY <2>2, <2>3, <2>4 DEF TrustInv
<1> QED
  BY <1>1, <1>2

LEMMA TrustHolds == Safety => []TrustInv
<1>1. Init => TrustInv
  BY DEF Init, Idle, TrustInv, PassUnderFinalizer
<1> QED
  BY <1>1, TypeInvHolds, TrustStep, PTL DEF Safety

\* From listing what exists to the status write a pass works for a policy that
\* is at the API server and carries the finalizer, however stale the copy it
\* was started from: the finalizer is there before anything is created, and
\* only a pass of its own takes it away.
THEOREM NothingWithoutFinalizer == Safety => []PassUnderFinalizer
BY TrustHolds, PTL DEF TrustInv

-----------------------------------------------------------------------------
(***************************************************************************)
(* Pruning never takes what covers a discovered host                       *)
(***************************************************************************)
\* What the pass still has to write the Certificates of.
Unwritten == IF worker.step = "sync" THEN worker.todo \ {Current} ELSE worker.todo

\* Up to the end of its pruning, the Certificates a pass has been through are
\* as it wants them, except those in doubt.
EnsuredInv ==
  worker.step \in {"cert", "sync", "pruneSyncs", "pruneCerts"} =>
    \A c \in worker.plan.certificates \ Unwritten :
      certs[c.name] = c.names \/ c.name \in unsure

\* What may happen to a Certificate in a step.
CertEvents ==
  \/ certs' = certs /\ unsure \cap PlannedNames(worker.plan) \subseteq unsure'
  \/ EnsureCert
  \/ /\ worker.step = "pruneCerts" /\ unsure' = unsure
     /\ \E n \in worker.doomed : certs' = [certs EXCEPT ![n] = None]
  \/ worker.step = "cert" /\ worker'.step = "report"
  \/ /\ worker' = worker
     /\ \/ ~policy.exists
        \/ \E n \in Names : certs' = [certs EXCEPT ![n] = None] /\ unsure' = unsure \cup {n}

LEMMA CertSteps ==
  ASSUME TypeInv, Next
  PROVE  CertEvents
<1>1. CASE \/ Start \/ Adopt \/ ListExisting \/ Discover \/ DiscoverFails \/ Probe
           \/ ProbeFails \/ ListingFails
           \/ EnsureSync \/ ListOrphans \/ ListCertificates \/ Pruned
  <2>1. certs' = certs /\ unsure \cap PlannedNames(worker.plan) \subseteq unsure'
    BY <1>1 DEF Start, Adopt, ListExisting, Discover, DiscoverFails, Probe, ProbeFails,
         ListingFails, EnsureSync, ListOrphans, ListCertificates, Pruned, objects
  <2> QED
    BY <2>1 DEF CertEvents
<1>2. CASE EnsureCert
  BY <1>2 DEF CertEvents
<1>3. CASE EnsureFails
  <2>1. worker.step = "sync" => UNCHANGED <<certs, unsure>>
    BY <1>3 DEF EnsureFails
  <2>2. worker.step \in {"cert", "sync"} /\ worker'.step = "report"
    BY <1>3 DEF EnsureFails, Conclude, TypeInv, MemoryType, Worker
  <2> QED
    BY <2>1, <2>2 DEF CertEvents
<1>4. ASSUME NEW n \in Names, PruneSync(n) \/ PruneCert(n)
      PROVE  CertEvents
  BY <1>4 DEF PruneSync, PruneCert, CertEvents
<1>5. CASE Ends
  <2>1. CASE PruneFails
    BY <2>1 DEF PruneFails, CertEvents
  <2>2. CASE ~PruneFails
    <3>1. UNCHANGED <<certs, unsure>>
      BY <1>5, <2>2 DEF Ends, AdoptFails, ListingFails, Report, ReportFails, Finalize,
           FinalizeFails, Restart, objects
    <3> QED
      BY <3>1 DEF CertEvents
  <2> QED
    BY <2>1, <2>2
<1>6. CASE Informers \/ \E delay \in {"backoff", "resync"} : Fire(delay)
  BY <1>6 DEF Informers, DeliverPolicy, DeliverSync, DeliverCert, DeliverRoutes, Fire,
       objects, CertEvents
<1>7. ASSUME NEW n \in Names, Collect(n) \/ ReleaseSync(n) \/ Tamper(n)
      PROVE  CertEvents
  BY <1>7 DEF Collect, ReleaseSync, Tamper, CertEvents
<1>8. CASE \/ InstallCertManager \/ Tick \/ DeletePolicy
           \/ \E spec \in Specs : EditPolicy(spec)
           \/ \E s \in Sources, h \in Hosts : ChangeRoute(s, h)
  BY <1>8 DEF InstallCertManager, Tick, DeletePolicy, EditPolicy, ChangeRoute,
       objects, CertEvents
<1> QED
  BY <1>1, <1>2, <1>3, <1>4, <1>5, <1>6, <1>7, <1>8 DEF Next, Pass, Others, Ends

\* A step that goes on with the same plan leaves no more to write than before,
\* but for the Certificate it has just written.
LEMMA UnwrittenSteps ==
  ASSUME TypeInv, Next, worker'.step \in {"cert", "sync", "pruneSyncs", "pruneCerts"}
  PROVE  \/ worker.step = "probe" /\ worker'.plan.certificates \subseteq Unwritten'
         \/ /\ worker.step \in {"cert", "sync", "pruneSyncs", "pruneCerts"}
            /\ worker'.plan = worker.plan
            /\ \/ EnsureCert /\ Unwritten' = Unwritten \ {Current}
               \/ ~EnsureCert /\ Unwritten' = Unwritten
<1>1. worker \in Worker /\ TodoInv /\ worker' \in Worker /\ TodoInv'
  BY PassKept DEF TypeInv, MemoryType, PassType
<1>2. CASE EnsureCert
  <2>1. /\ worker.step = "cert" /\ worker'.step = "sync" /\ worker'.plan = worker.plan
        /\ worker'.todo = worker.todo
    BY <1>1, <1>2 DEF EnsureCert, Worker
  <2>2. Current' = Current
    BY <2>1 DEF Current
  <2> QED
    BY <1>2, <2>1, <2>2 DEF Unwritten
<1>3. CASE worker' = worker /\ ~EnsureCert
  BY <1>3 DEF Unwritten, Current
<1>4. CASE ~EnsureCert /\ worker' # worker
  <2>1. Moves
    BY <1>4, WorkerMoves DEF Idle
  <2>2. CASE Discover \/ DiscoverFails \/ Concludes
    BY <1>1, <2>2, DiscoverFailsSteps DEF Discover, Concludes, Conclude, Worker
  <2>3. CASE ListOrphans
    BY <1>1, <1>4, <2>3 DEF ListOrphans, Unwritten, Worker
  <2>4. CASE worker.step = "probe" /\ worker' = [worker EXCEPT !.step = "cert",
                                                   !.todo = worker.plan.certificates]
    BY <1>1, <2>4 DEF Unwritten, Worker
  <2>5. CASE worker.step = "cert" /\ worker.todo # {} /\ worker' = [worker EXCEPT !.step = "sync"]
    <3>1. EnsureCert
      BY <1>1, <2>5 DEF Worker, Next, Start, Pass, Informers, Others, Adopt, AdoptFails,
           ListExisting, Discover, DiscoverFails, Probe, ProbeFails, ListingFails,
           EnsureSync, EnsureFails, ListOrphans, PruneSync, PruneCert, ListCertificates,
           Pruned, PruneFails, Report, ReportFails, Finalize, FinalizeFails, Fire,
           Restart, DeliverPolicy, DeliverSync, DeliverCert, DeliverRoutes, EditPolicy,
           DeletePolicy, Collect, ReleaseSync, Tamper, ChangeRoute, InstallCertManager,
           Tick, Abort, Conclude, Idle
    <3> QED
      BY <1>4, <3>1
  <2>6. CASE worker.step = "sync" /\ worker' = [worker EXCEPT !.step = "cert", !.todo = @ \ {Current}]
    BY <1>1, <1>4, <2>6 DEF Unwritten, Worker
  <2>7. CASE worker.step \in {"pruneSyncs", "pruneCerts"}
    BY <1>1, <1>4, <2>1, <2>7 DEF Moves, Discover, DiscoverFails, ListOrphans, Concludes,
         Conclude, Unwritten, Worker, TodoInv
  <2>8. CASE worker.step \in {"idle", "adopt", "list"}
    BY <1>1, <2>1, <2>8, <1>4 DEF Moves, Discover, DiscoverFails, ListOrphans, Concludes,
         Conclude, Worker
  <2> QED
    BY <2>1, <2>2, <2>3, <2>4, <2>5, <2>6, <2>7, <2>8 DEF Moves
<1> QED
  BY <1>2, <1>3, <1>4

LEMMA EnsuredStep ==
  ASSUME TypeInv, TrustInv, EnsuredInv, [Next]_vars
  PROVE  EnsuredInv'
<1>1. CASE UNCHANGED vars
  BY <1>1 DEF vars, EnsuredInv, Unwritten, Current
<1>2. CASE Next /\ worker'.step \in {"cert", "sync", "pruneSyncs", "pruneCerts"}
  <2>1. CASE worker.step = "probe" /\ worker'.plan.certificates \subseteq Unwritten'
    BY <2>1 DEF EnsuredInv
  <2>2. ASSUME /\ worker.step \in {"cert", "sync", "pruneSyncs", "pruneCerts"}
               /\ worker'.plan = worker.plan,
               \/ EnsureCert /\ Unwritten' = Unwritten \ {Current}
               \/ ~EnsureCert /\ Unwritten' = Unwritten,
               NEW c \in worker.plan.certificates \ Unwritten'
        PROVE  certs'[c.name] = c.names \/ c.name \in unsure'
    <3>1. Sound(worker.plan) /\ certs \in [Names -> CertObject] /\ unsure \in SUBSET Names
      BY <2>2, PlanOfWorkerSound DEF Planned, TypeInv, ClusterType, MemoryType
    <3>2. c.name \in Names
      BY <3>1 DEF Sound, Certificate
    <3>3. c \notin Unwritten => certs[c.name] = c.names \/ c.name \in unsure
      BY <2>2 DEF EnsuredInv
    <3>4. CASE EnsureCert
      <4>1. /\ Current \in worker.plan.certificates /\ Current.name \in Names
            /\ certs' = certs \/ certs' = [certs EXCEPT ![Current.name] = Current.names]
            /\ unsure' = IF certs'[Current.name] = Current.names THEN unsure \ {Current.name}
                                                                ELSE unsure \cup {Current.name}
        BY <3>4, CurrentInTodo DEF EnsureCert, Certificate
      <4>2. c = Current \/ (c \notin Unwritten /\ c.name # Current.name)
        BY <2>2, <3>1, <3>4, <4>1 DEF Sound
      <4> QED
        BY <3>1, <3>2, <3>3, <4>1, <4>2
    <3>5. CASE ~EnsureCert
      <4>1. c \notin Unwritten /\ c.name \in PlannedNames(worker.plan)
        BY <2>2, <3>5 DEF PlannedNames
      <4>2. policy.exists
        BY <2>2 DEF TrustInv, PassUnderFinalizer
      <4>3. worker.step = "pruneCerts" => c.name \notin worker.doomed
        BY <2>2 DEF TypeInv, DoomedInv, PlannedNames
      <4> QED
        BY <1>2, <3>1, <3>2, <3>3, <3>5, <4>1, <4>2, <4>3, CertSteps DEF CertEvents, Idle
    <3> QED
      BY <3>4, <3>5
  <2> QED
    BY <1>2, <2>1, <2>2, UnwrittenSteps DEF EnsuredInv
<1>3. CASE worker'.step \notin {"cert", "sync", "pruneSyncs", "pruneCerts"}
  BY <1>3 DEF EnsuredInv
<1> QED
  BY <1>1, <1>2, <1>3

LEMMA EnsuredHolds == Safety => []EnsuredInv
<1>1. Init => EnsuredInv
  BY DEF Init, Idle, EnsuredInv
<1> QED
  BY <1>1, TypeInvHolds, TrustHolds, EnsuredStep, PTL DEF Safety

LEMMA PruneStep ==
  ASSUME TypeInv, EnsuredInv, [Next]_vars, worker.step = "pruneCerts", worker' # worker,
         NEW h \in Promised(worker), Covered(h)
  PROVE  Covered(h)'
<1>1. Next
  BY DEF vars
<1>2. /\ worker \in Worker /\ worker.object.spec \in Specs /\ worker.plan.ok
      /\ certs \in [Names -> CertObject] /\ routes \in [Sources -> SUBSET Hosts]
  BY DEF TypeInv, MemoryType, ClusterType, PolicyObject, PlanOfWorker, Planned
<1>3. PICK existing \in SUBSET Names :
        worker.plan = PlanFor(worker.object.spec, worker.hosts, existing)
  BY DEF TypeInv, PlanOfWorker, Planned
<1>4. h \in worker.hosts
  <2>1. {k \in GatewayKinds \ watched : worker.object.spec.discovery[k] = "on"} = {}
    BY DEF TypeInv, DoomedInv, PruneWithheld
  <2> QED
    BY <2>1 DEF Promised
<1>5. PICK c \in worker.plan.certificates : \E d \in c.names : Covers(d, h)
  <2>1. worker.hosts \in SUBSET Hosts
    BY <1>2 DEF Worker
  <2>2. \/ \E c \in worker.plan.certificates : \E d \in c.names : Covers(d, h)
        \/ \E s \in worker.plan.skipped : Covers(s.host, h)
    BY <1>2, <1>3, <1>4, <2>1, PlanPromises
  <2> QED
    BY <2>2 DEF Promised
<1>6. c.name \notin unsure
  BY <1>5 DEF Promised
<1>7. Unwritten = {}
  BY DEF Unwritten, TypeInv, TodoInv
<1>8. certs[c.name] = c.names
  BY <1>6, <1>7 DEF EnsuredInv
<1>9. c.name \in Names /\ c.names # None
  BY PlanOfWorkerSound DEF Sound, Certificate, Planned
<1>10. certs' = certs \/ \E n \in worker.doomed : certs' = [certs EXCEPT ![n] = None]
  BY <1>1, CertSteps DEF CertEvents, EnsureCert
<1>11. c.name \notin worker.doomed
  BY DEF TypeInv, DoomedInv, PlannedNames
<1>12. CASE \E n \in worker.doomed : certs' = [certs EXCEPT ![n] = None]
  <2>1. certs'[c.name] = c.names
    BY <1>2, <1>8, <1>9, <1>11, <1>12
  <2> QED
    BY <1>5, <1>9, <2>1 DEF Covered
<1>13. CASE certs' = certs
  BY <1>13 DEF Covered
<1> QED
  BY <1>10, <1>12, <1>13

\* Pruning takes no Certificate that is the last to cover a host the pass
\* discovered, or a host of a source the policy requires and the operator
\* cannot watch: what the pass has ensured stands, or is in doubt.
THEOREM PruningIsSafe == Safety => PruneKeepsCoverage
<1>1. TypeInv /\ EnsuredInv /\ [Next]_vars =>
        [worker.step = "pruneCerts" /\ worker' # worker =>
           \A h \in Promised(worker) : Covered(h) => Covered(h)']_vars
  BY PruneStep
<1> QED
  BY <1>1, TypeInvHolds, EnsuredHolds, PTL DEF Safety, PruneKeepsCoverage

-----------------------------------------------------------------------------
(***************************************************************************)
(* No wake-up is lost                                                      *)
(***************************************************************************)
\* Nothing has happened to the policy or to what it generated since the
\* operator last looked, and nobody has asked it to look again.
Calm == ~queued /\ ~stale /\ unseen = {}

\* A copy without an event to come is current.
CopiesInv ==
  /\ ~stale => cache = policy
  /\ \A n \in Names \ unseen : syncCache[n] = syncs[n]

\* What the operator would plan now, by the copies it has of the routes.
CopiedPlan(spec) == PlanFor(spec, Discovered(spec), Generated(syncs))

\* What a sync resource is to be, a deletion under way aside.
Asked(spec, object) ==
  [target |-> spec.target, deleting |-> object # None /\ object.deleting]

\* The objects are what a policy of this spec asks for by this plan, and its
\* status says so: SettledExcept, with deletions still under way.
Done(spec, needed, withheld, certificates, resources, doubt, plan, ready) ==
  LET names == PlannedNames(needed)
  IN IF ~spec.sound \/ ~needed.ok THEN ready = "ConfigInvalid"
     ELSE /\ plan = needed
          /\ \A c \in needed.certificates :
               /\ c.name \in doubt \/ certificates[c.name] = c.names
               /\ resources[c.name] = Asked(spec, resources[c.name])
          /\ spec.prune /\ ~withheld =>
               /\ \A n \in Generated(resources) \ names : resources[n].deleting
               /\ Generated(certificates) \ doubt \subseteq names
          /\ ready = IF spec.prune /\ withheld /\ ~(Generated(resources) \subseteq names)
                       THEN "PruneWithheld" ELSE "Synced"

DoneFor(spec, plan, ready) ==
  Done(spec, CopiedPlan(spec), PruneWithheld(spec, CopiedPlan(spec)),
       certs, syncs, unsure, plan, ready)

\* In the calm a pass works from the policy as it is, plans what is needed,
HeldInv ==
  worker.step # "idle" /\ Calm =>
    /\ worker.object = policy
    /\ worker.step # "finalize" => policy.exists
PlanInv ==
  Calm =>
    /\ worker.step = "plan" => worker.existing = Generated(syncs)
    /\ worker.step \in Planned =>
         policy.spec.sound /\ worker.plan = CopiedPlan(policy.spec)

\* finds the sync resources it has been through as they are to be,
WrittenInv ==
  Calm /\ worker.step \in Planned \ {"probe"} =>
    \A c \in worker.plan.certificates \ worker.todo :
      syncs[c.name] = Asked(policy.spec, syncs[c.name])

\* and what it is to prune gone, being deleted or still on its list.
OrphanInv ==
  Calm =>
    /\ worker.step = "pruneSyncs" =>
         \A n \in Generated(syncs) \ PlannedNames(worker.plan) :
           n \in worker.doomed \/ syncs[n].deleting
    /\ worker.step = "pruneCerts" =>
         /\ \A n \in Generated(syncs) \ PlannedNames(worker.plan) : syncs[n].deleting
         /\ Generated(certs) \ unsure \subseteq PlannedNames(worker.plan) \cup worker.doomed

\* So what it reports is true, unless it is to come back or waits for
\* cert-manager, and stays true at rest.
ReportInv ==
  /\ Calm /\ policy.exists /\ worker.step = "report"
  /\ worker.result \notin Retried \cup {"CertManagerMissing"}
  => /\ DoneFor(policy.spec, worker.plan, worker.result)
     /\ worker.result # "ConfigInvalid" => worker.plan # None
RestInv ==
  /\ Calm /\ worker.step = "idle" /\ timer # "backoff"
  /\ policy.exists /\ ~policy.deleting /\ ~Awaiting
  => DoneFor(policy.spec, policy.status.plan, policy.status.ready)

WakeInv ==
  /\ CopiesInv /\ HeldInv /\ PlanInv /\ WrittenInv /\ OrphanInv
  /\ ReportInv /\ RestInv

\* A key that waits is taken by a pass, or dropped by a restart.
LEMMA QueueSteps ==
  ASSUME Next, queued, ~queued'
  PROVE  Start \/ Restart
BY DEF Next, Pass, Informers, Others, Adopt, AdoptFails, ListExisting, Discover,
     DiscoverFails, Probe, ProbeFails, ListingFails, EnsureCert, EnsureSync, EnsureFails,
     ListOrphans, PruneSync, PruneCert, ListCertificates, Pruned, PruneFails, Report,
     ReportFails, Finalize, FinalizeFails, Fire, DeliverPolicy, DeliverSync, DeliverCert,
     DeliverRoutes, EditPolicy, DeletePolicy, Collect, ReleaseSync, Tamper, ChangeRoute,
     InstallCertManager, Tick, Abort, schedule

\* What an informer shows of the routes changes with an event, and with a restart.
LEMMA RouteSteps ==
  ASSUME Next
  PROVE  \/ UNCHANGED <<routeCache, watched>>
         \/ Restart
         \/ UNCHANGED watched /\ \E s \in Sources : DeliverRoutes(s)
<1>1. CASE Start \/ Pass
  BY <1>1 DEF Start, Pass, Adopt, AdoptFails, ListExisting, Discover, DiscoverFails,
       Probe, ProbeFails, ListingFails, EnsureCert, EnsureSync, EnsureFails, ListOrphans,
       PruneSync, PruneCert, ListCertificates, Pruned, PruneFails, Report, ReportFails,
       Finalize, FinalizeFails, copies, cluster
<1>2. CASE Informers
  BY <1>2 DEF Informers, DeliverPolicy, DeliverSync, DeliverCert, DeliverRoutes, cluster
<1>3. CASE Others \/ \E delay \in {"backoff", "resync"} : Fire(delay)
  BY <1>3 DEF Others, EditPolicy, DeletePolicy, Collect, ReleaseSync, Tamper, ChangeRoute,
       InstallCertManager, Tick, Fire, copies, cluster
<1> QED
  BY <1>1, <1>2, <1>3 DEF Next

\* A step into the calm, other than the start of a pass or of the operator,
\* comes from the calm, and writes nothing that makes an event.
LEMMA CalmSteps ==
  ASSUME TypeInv, CopiesInv, Next, Calm', ~Start, ~Restart
  PROVE  /\ Calm /\ cache = policy /\ syncCache = syncs
         /\ UNCHANGED <<policy, cache, syncs, syncCache, watched>>
         /\ policy.exists => UNCHANGED routeCache
<1>1. ~queued
  BY QueueSteps DEF Calm
<1>2. ~DeliverPolicy /\ \A n \in Names : ~DeliverSync(n)
  BY DEF Calm, DeliverPolicy, DeliverSync
<1>3. ~stale /\ UNCHANGED <<policy, cache>>
  BY <1>2, PolicyEventSteps DEF Calm, PolicyEvents, TypeInv, MemoryType
<1>4. unseen = {} /\ (\A n \in Names : syncs'[n] = syncs[n]) /\ syncCache' = syncCache
  BY <1>2, SyncEventSteps DEF Calm, SyncEvents
<1>5. /\ syncs \in [Names -> SyncObject] /\ syncs' \in [Names -> SyncObject]
      /\ syncCache \in [Names -> SyncObject]
  BY ObjectsKept DEF TypeInv, ClusterType
<1>6. syncs' = syncs
  BY <1>4, <1>5
<1>7. cache = policy /\ syncCache = syncs
  BY <1>3, <1>4, <1>5 DEF CopiesInv
<1>8. UNCHANGED watched /\ (policy.exists => UNCHANGED routeCache)
  BY <1>7, RouteSteps DEF Calm, DeliverRoutes
<1> QED
  BY <1>1, <1>3, <1>4, <1>6, <1>7, <1>8 DEF Calm

\* A restart leaves the calm, unless the policy is gone.
LEMMA CalmRestart ==
  ASSUME Restart, Calm'
  PROVE  ~policy'.exists /\ worker' = Idle
BY DEF Restart, Calm

LEMMA CopiesStep ==
  ASSUME TypeInv, CopiesInv, [Next]_vars
  PROVE  CopiesInv'
<1>1. CASE UNCHANGED vars
  BY <1>1 DEF vars, CopiesInv
<1>2. CASE Next
  <2>1. ~stale' => cache' = policy'
    BY <1>2, PolicyEventSteps
    DEF CopiesInv, PolicyEvents, DeliverPolicy, Restart, TypeInv, MemoryType
  <2>2. ASSUME NEW n \in Names \ unseen'
        PROVE  syncCache'[n] = syncs'[n]
    <3>1. CASE SyncEvents /\ syncCache' = syncCache
      BY <2>2, <3>1 DEF SyncEvents, CopiesInv
    <3>2. CASE Restart
      BY <3>2 DEF Restart
    <3>3. ASSUME NEW m \in Names, DeliverSync(m)
          PROVE  syncCache'[n] = syncs'[n]
      BY <2>2, <3>3 DEF DeliverSync, CopiesInv, TypeInv, ClusterType
    <3> QED
      BY <1>2, <3>1, <3>2, <3>3, SyncEventSteps
  <2> QED
    BY <2>1, <2>2 DEF CopiesInv
<1> QED
  BY <1>1, <1>2

\* The steps by which a pass goes on.
Goes ==
  \/ Adopt \/ ListExisting \/ Discover \/ DiscoverFails \/ Probe \/ ProbeFails \/ EnsureCert
  \/ EnsureSync
  \/ EnsureFails \/ ListOrphans \/ (\E n \in Names : PruneSync(n) \/ PruneCert(n))
  \/ ListCertificates \/ Pruned

LEMMA PassSteps ==
  ASSUME Next
  PROVE  Start \/ Goes \/ Ends \/ worker' = worker
BY WorkerStays DEF Next, Pass, Goes, Ends

\* A pass that goes on keeps its copy of the policy, but for the finalizer it
\* adds, and never turns to letting the policy go.
LEMMA GoesHolds ==
  ASSUME TypeInv, Goes
  PROVE  /\ worker.step \notin {"idle", "finalize"}
         /\ worker'.object = worker.object \/ worker'.object = policy'
BY DEF Goes, TypeInv, MemoryType, Worker, Adopt, ListExisting, Discover, DiscoverFails,
     Probe, ProbeFails, EnsureCert, EnsureSync, EnsureFails, ListOrphans, PruneSync,
     PruneCert, ListCertificates, Pruned, Conclude

LEMMA HeldStep ==
  ASSUME TypeInv, CopiesInv, HeldInv, [Next]_vars
  PROVE  HeldInv'
<1> SUFFICES ASSUME worker'.step # "idle", Calm'
             PROVE  worker'.object = policy' /\ (worker'.step # "finalize" => policy'.exists)
  BY DEF HeldInv
<1>1. CASE UNCHANGED vars
  BY <1>1 DEF vars, HeldInv, Calm
<1>2. CASE Next /\ Start
  <2>1. cache = policy /\ UNCHANGED policy
    BY <1>2 DEF Start, Calm, CopiesInv
  <2>2. worker.step = "idle" /\ cache.exists /\ worker'.object = cache
    BY <1>2 DEF Start, TypeInv, MemoryType, Worker
  <2> QED
    BY <2>1, <2>2
<1>3. CASE Next /\ ~Start
  <2>1. ~Restart /\ ~Ends
    BY WorkerIdles DEF Ends, Idle
  <2>2. Calm /\ UNCHANGED policy
    BY <1>3, <2>1, CalmSteps
  <2>3. CASE worker' = worker
    BY <2>2, <2>3 DEF HeldInv
  <2>4. CASE Goes
    BY <2>2, <2>4, GoesHolds DEF HeldInv
  <2> QED
    BY <1>3, <2>1, <2>3, <2>4, PassSteps
<1> QED
  BY <1>1, <1>2, <1>3

\* What would be planned stays, while the copies of the routes and the sync
\* resources do.
LEMMA CopiedPlanStays ==
  ASSUME UNCHANGED <<policy, syncs, routeCache, watched>>
  PROVE  CopiedPlan(policy.spec)' = CopiedPlan(policy.spec)
BY DEF CopiedPlan, Discovered, Generated, PlanFor

\* A calm step of a pass, or beside one, leaves what it works from as it is.
LEMMA PassCalm ==
  ASSUME TypeInv, CopiesInv, HeldInv, Next, Calm',
         worker'.step \notin {"idle", "finalize"}, ~Start
  PROVE  /\ Calm /\ cache = policy /\ syncCache = syncs
         /\ worker.step \notin {"idle", "finalize"} /\ worker.object = policy /\ policy.exists
         /\ UNCHANGED <<policy, cache, syncs, syncCache, routeCache, watched>>
         /\ Goes \/ worker' = worker
<1>1. ~Ends /\ ~Restart
  BY WorkerIdles DEF Ends, Idle
<1>2. /\ Calm /\ cache = policy /\ syncCache = syncs
      /\ UNCHANGED <<policy, cache, syncs, syncCache, watched>>
      /\ policy.exists => UNCHANGED routeCache
  BY <1>1, CalmSteps
<1>3. Goes \/ worker' = worker
  BY <1>1, PassSteps
<1>4. worker.step \notin {"idle", "finalize"}
  BY <1>3, GoesHolds
<1> QED
  BY <1>2, <1>3, <1>4 DEF HeldInv

\* A pass that has just started has read nothing but the policy.
LEMMA StartSteps ==
  ASSUME TypeInv, Start
  PROVE  worker'.step \in {"idle", "finalize", "list", "adopt"}
BY DEF Start, TypeInv, MemoryType, Worker

LEMMA PlanStep ==
  ASSUME TypeInv, CopiesInv, HeldInv, PlanInv, [Next]_vars
  PROVE  PlanInv'
<1>1. CASE UNCHANGED vars
  BY <1>1, CopiedPlanStays DEF vars, PlanInv, Calm, Generated
<1>2. ASSUME Next, Calm', worker'.step \in Planned \cup {"plan"}
      PROVE  /\ worker'.step = "plan" => worker'.existing = Generated(syncs)'
             /\ worker'.step \in Planned =>
                  policy'.spec.sound /\ worker'.plan = CopiedPlan(policy.spec)'
  <2>1. ~Start
    BY <1>2, StartSteps DEF Planned
  <2>2. /\ Calm /\ syncCache = syncs /\ worker.object = policy
        /\ UNCHANGED <<policy, syncs, routeCache, watched>>
        /\ Goes \/ worker' = worker
    BY <1>2, <2>1, PassCalm DEF Planned
  <2>3. CopiedPlan(policy.spec)' = CopiedPlan(policy.spec) /\ Generated(syncs)' = Generated(syncs)
    BY <2>2, CopiedPlanStays DEF Generated
  <2>4. worker \in Worker
    BY DEF TypeInv, MemoryType
  <2>5. /\ worker.step = "plan" => worker.existing = Generated(syncs)
        /\ worker.step \in Planned => policy.spec.sound /\ worker.plan = CopiedPlan(policy.spec)
    BY <2>2 DEF PlanInv
  <2>6. CASE ListExisting
    BY <2>2, <2>3, <2>4, <2>6 DEF ListExisting, Worker, Planned
  <2>7. CASE Discover
    <3>1. PlanFor(worker.object.spec, Discovered(worker.object.spec), worker.existing)
            = CopiedPlan(policy.spec)
      BY <2>2, <2>5, <2>7 DEF Discover, CopiedPlan
    <3>2. /\ worker'.step = "probe" /\ worker'.plan = CopiedPlan(policy.spec)
          /\ worker.object.spec.sound
      BY <1>2, <2>4, <2>7, <3>1 DEF Discover, Worker, Planned
    <3> QED
      BY <2>2, <2>3, <3>2
  <2>8. CASE ~ListExisting /\ ~Discover
    <3>1. \/ worker' = worker
          \/ worker'.step \in Planned /\ worker.step \in Planned /\ worker'.plan = worker.plan
      <4>1. CASE worker' = worker
        BY <4>1
      <4>2. CASE \/ Adopt \/ DiscoverFails \/ Probe \/ ProbeFails \/ ListOrphans
                 \/ ListCertificates \/ Pruned
        BY <1>2, <2>4, <4>2, DiscoverFailsSteps DEF Worker, Planned, Adopt, Probe,
             ProbeFails, ListOrphans, ListCertificates, Pruned, Conclude
      <4>3. CASE EnsureCert \/ EnsureSync \/ EnsureFails
        BY <1>2, <2>4, <4>3 DEF Worker, Planned, EnsureCert, EnsureSync, EnsureFails, Conclude
      <4>4. CASE \E n \in Names : PruneSync(n) \/ PruneCert(n)
        BY <1>2, <2>4, <4>4 DEF Worker, Planned, PruneSync, PruneCert
      <4> QED
        BY <2>2, <2>8, <4>1, <4>2, <4>3, <4>4 DEF Goes
    <3> QED
      BY <2>2, <2>3, <2>5, <3>1 DEF Planned
  <2> QED
    BY <2>6, <2>7, <2>8
<1> QED
  BY <1>1, <1>2 DEF PlanInv

\* A pass that goes on with its plan has less left to ensure only by ensuring it.
LEMMA TodoSteps ==
  ASSUME TypeInv, Goes, worker'.step \in Planned \ {"probe"}
  PROVE  \/ worker'.todo = worker.plan.certificates /\ worker'.plan = worker.plan
         \/ EnsureSync /\ worker'.todo = worker.todo \ {Current} /\ worker'.plan = worker.plan
                       /\ worker.step = "sync"
         \/ /\ worker'.todo = worker.todo /\ worker'.plan = worker.plan
            /\ worker.step \in Planned \ {"probe"}
<1> USE DEF Planned, Conclude
<1>1. worker \in Worker
  BY DEF TypeInv, MemoryType
<1>2. CASE EnsureSync
  BY <1>1, <1>2 DEF EnsureSync, Worker
<1>3. CASE EnsureCert
  BY <1>1, <1>3 DEF EnsureCert, Worker
<1>4. CASE Probe
  BY <1>1, <1>4 DEF Probe, Worker
<1>5. CASE ListOrphans \/ ListCertificates
  BY <1>1, <1>5 DEF ListOrphans, ListCertificates, Worker
<1>6. CASE \E n \in Names : PruneSync(n) \/ PruneCert(n)
  BY <1>1, <1>6 DEF PruneSync, PruneCert, Worker
<1>7. CASE Adopt \/ ListExisting \/ Discover
  BY <1>1, <1>7 DEF Adopt, ListExisting, Discover, Worker
<1>8. CASE DiscoverFails \/ ProbeFails \/ EnsureFails \/ Pruned
  BY <1>1, <1>8, DiscoverFailsSteps DEF ProbeFails, EnsureFails, Pruned, Worker
<1> QED
  BY <1>2, <1>3, <1>4, <1>5, <1>6, <1>7, <1>8 DEF Goes

LEMMA WrittenStep ==
  ASSUME TypeInv, CopiesInv, HeldInv, WrittenInv, [Next]_vars
  PROVE  WrittenInv'
<1>1. CASE UNCHANGED vars
  BY <1>1 DEF vars, WrittenInv, Calm, Asked
<1>2. ASSUME Next, Calm', worker'.step \in Planned \ {"probe"},
             NEW c \in worker'.plan.certificates \ worker'.todo
      PROVE  syncs'[c.name] = Asked(policy.spec, syncs[c.name])'
  <2>1. ~Start
    BY <1>2, StartSteps DEF Planned
  <2>2. /\ Calm /\ syncCache = syncs /\ worker.object = policy
        /\ UNCHANGED <<policy, syncs>> /\ (Goes \/ worker' = worker)
    BY <1>2, <2>1, PassCalm DEF Planned
  <2>3. Asked(policy.spec, syncs[c.name])' = Asked(policy.spec, syncs[c.name])
    BY <2>2 DEF Asked
  <2>4. ASSUME c \in worker.plan.certificates \ worker.todo, worker.step \in Planned \ {"probe"}
        PROVE  syncs[c.name] = Asked(policy.spec, syncs[c.name])
    BY <2>2, <2>4 DEF WrittenInv
  <2>5. CASE EnsureSync /\ c = Current
    <3>1. /\ worker.step = "sync" /\ worker.todo # {} /\ Current.name \in Names
          /\ syncs \in [Names -> SyncObject]
      BY <2>5, CurrentInTodo DEF EnsureSync, TypeInv, TodoInv, ClusterType, Certificate
    <3>2. SyncFrom(syncCache[c.name]) = Asked(policy.spec, syncs[c.name])
      BY <2>2 DEF SyncFrom, Asked
    <3>3. \/ syncCache[c.name] = SyncFrom(syncCache[c.name])
          \/ syncs' = [syncs EXCEPT ![c.name] = SyncFrom(syncCache[c.name])]
      BY <2>5 DEF EnsureSync, Unchanged
    <3> QED
      BY <2>2, <2>3, <2>5, <3>1, <3>2, <3>3
  <2>6. CASE ~(EnsureSync /\ c = Current)
    <3>1. c \in worker.plan.certificates \ worker.todo /\ worker.step \in Planned \ {"probe"}
      BY <1>2, <2>2, <2>6, TodoSteps DEF Planned
    <3> QED
      BY <2>2, <2>3, <2>4, <3>1
  <2> QED
    BY <2>5, <2>6
<1> QED
  BY <1>1, <1>2 DEF WrittenInv

\* Certificates are created, and doubts about them put aside, only by a pass
\* that ensures them or lists them.
LEMMA DoubtSteps ==
  ASSUME TypeInv, Next, ~EnsureCert, ~EnsureFails
  PROVE  /\ \A n \in Names : certs'[n] = certs[n] \/ certs'[n] = None
         /\ ListCertificates \/ unsure \subseteq unsure'
<1>1. certs \in [Names -> CertObject]
  BY DEF TypeInv, ClusterType
<1>2. CASE \/ Start \/ Adopt \/ ListExisting \/ Discover \/ DiscoverFails \/ Probe
           \/ ProbeFails \/ ListingFails \/ EnsureSync
           \/ ListOrphans \/ Pruned \/ AdoptFails \/ Report \/ ReportFails \/ Finalize
           \/ FinalizeFails \/ Restart
  BY <1>2 DEF Start, Adopt, ListExisting, Discover, DiscoverFails, Probe, ProbeFails,
       ListingFails, EnsureSync, ListOrphans, Pruned, AdoptFails, Report, ReportFails,
       Finalize, FinalizeFails, Restart, objects
<1>3. CASE ListCertificates
  BY <1>3 DEF ListCertificates
<1>4. CASE PruneFails
  BY <1>1, <1>4 DEF PruneFails
<1>5. ASSUME NEW n \in Names,
             \/ PruneSync(n) \/ PruneCert(n) \/ Collect(n) \/ ReleaseSync(n) \/ Tamper(n)
      PROVE  (\A m \in Names : certs'[m] = certs[m] \/ certs'[m] = None) /\ unsure \subseteq unsure'
  BY <1>1, <1>5 DEF PruneSync, PruneCert, Collect, ReleaseSync, Tamper
<1>6. CASE Informers \/ \E delay \in {"backoff", "resync"} : Fire(delay)
  BY <1>6 DEF Informers, DeliverPolicy, DeliverSync, DeliverCert, DeliverRoutes, Fire, objects
<1>7. CASE \/ InstallCertManager \/ Tick \/ DeletePolicy
           \/ \E spec \in Specs : EditPolicy(spec)
           \/ \E s \in Sources, h \in Hosts : ChangeRoute(s, h)
  BY <1>7 DEF InstallCertManager, Tick, DeletePolicy, EditPolicy, ChangeRoute, objects
<1> QED
  BY <1>2, <1>3, <1>4, <1>5, <1>6, <1>7 DEF Next, Pass, Others

\* A pruning takes what it goes through off its list, and off the cluster.
LEMMA OrphanStep ==
  ASSUME TypeInv, CopiesInv, HeldInv, OrphanInv, [Next]_vars
  PROVE  OrphanInv'
<1>1. CASE UNCHANGED vars
  BY <1>1 DEF vars, OrphanInv, Calm, Generated
<1>2. ASSUME Next, Calm', worker'.step \in {"pruneSyncs", "pruneCerts"}
      PROVE  /\ ~Start /\ Calm /\ syncCache = syncs /\ UNCHANGED syncs
             /\ Goes \/ worker' = worker
             /\ Generated(syncs)' = Generated(syncs)
  BY <1>2, StartSteps, PassCalm DEF Generated
<1>3. /\ worker \in Worker /\ syncs \in [Names -> SyncObject] /\ certs \in [Names -> CertObject]
      /\ syncCache \in [Names -> SyncObject] /\ certCache \in [Names -> CertObject]
      /\ certs' \in [Names -> CertObject]
  BY <1>1, ObjectsKept DEF TypeInv, MemoryType, ClusterType, vars
<1>4. ASSUME Next, Calm', worker'.step = "pruneSyncs",
             NEW n \in Generated(syncs)' \ PlannedNames(worker.plan)'
      PROVE  n \in worker'.doomed \/ syncs'[n].deleting
  <2>1. n \in Generated(syncs) /\ n \in Names
    BY <1>2, <1>3, <1>4 DEF Generated
  <2>2. CASE ListOrphans
    BY <1>2, <1>3, <1>4, <2>1, <2>2 DEF ListOrphans, PlannedNames, Worker
  <2>3. ASSUME NEW m \in Names, PruneSync(m)
        PROVE  n \in worker'.doomed \/ syncs'[n].deleting
    <3>1. n \in worker.doomed \/ syncs[n].deleting
      BY <1>2, <1>3, <1>4, <2>1, <2>3 DEF PruneSync, OrphanInv, PlannedNames, Worker
    <3>2. n = m => syncs[n].deleting
      BY <1>2, <1>3, <1>4, <2>1, <2>3 DEF PruneSync, Deleted, Generated, SyncObject
    <3> QED
      BY <1>2, <1>3, <1>4, <2>3, <3>1, <3>2 DEF PruneSync, Worker
  <2>4. CASE worker' = worker
    BY <1>2, <1>4, <2>1, <2>4 DEF OrphanInv, PlannedNames
  <2> QED
    BY <1>2, <1>3, <1>4, <2>2, <2>3, <2>4 DEF Goes, Worker, Adopt, ListExisting, Discover,
         DiscoverFails, Probe, ProbeFails, EnsureCert, EnsureSync, EnsureFails, PruneCert,
         ListCertificates, Pruned, Conclude
<1>5. ASSUME Next, Calm', worker'.step = "pruneCerts"
      PROVE  /\ \A n \in Generated(syncs)' \ PlannedNames(worker.plan)' : syncs'[n].deleting
             /\ Generated(certs)' \ unsure' \subseteq PlannedNames(worker.plan)' \cup worker'.doomed
  <2>1. CASE ListCertificates
    <3>1. /\ worker.doomed = {} /\ worker.step = "pruneSyncs" /\ worker'.plan = worker.plan
          /\ worker'.doomed = Generated(certCache) \ PlannedNames(worker.plan)
          /\ {n \in Names : certs[n] # None /\ certCache[n] = None} \subseteq unsure'
          /\ certs' = certs
      BY <1>3, <2>1 DEF ListCertificates, Worker
    <3>2. PlannedNames(worker.plan)' = PlannedNames(worker.plan)
      BY <3>1 DEF PlannedNames
    <3>3. \A n \in Generated(syncs)' \ PlannedNames(worker.plan)' : syncs'[n].deleting
      BY <1>2, <1>5, <3>1, <3>2 DEF OrphanInv
    <3>4. Generated(certs)' \ unsure' \subseteq Generated(certCache)
      BY <1>3, <3>1 DEF Generated
    <3> QED
      BY <3>1, <3>2, <3>3, <3>4
  <2>2. CASE worker.step = "pruneCerts" /\ worker'.plan = worker.plan /\ ~ListCertificates
    <3>1. PlannedNames(worker.plan)' = PlannedNames(worker.plan)
      BY <2>2 DEF PlannedNames
    <3>2. /\ \A n \in Generated(syncs) \ PlannedNames(worker.plan) : syncs[n].deleting
          /\ Generated(certs) \ unsure \subseteq PlannedNames(worker.plan) \cup worker.doomed
      BY <1>2, <1>5, <2>2 DEF OrphanInv
    <3>3. /\ \A n \in Names : certs'[n] = certs[n] \/ certs'[n] = None
          /\ unsure \subseteq unsure'
      BY <1>5, <2>2, DoubtSteps DEF EnsureCert, EnsureFails
    <3>4. Generated(certs)' \ unsure' \subseteq Generated(certs) \ unsure
      BY <1>3, <3>3 DEF Generated
    <3>5. \/ worker'.doomed = worker.doomed
          \/ \E n \in worker.doomed : /\ worker'.doomed = worker.doomed \ {n}
                                      /\ certs'[n] = None
      BY <1>2, <1>3, <1>5, <2>2 DEF Goes, Worker, Adopt, ListExisting, Discover,
           DiscoverFails, Probe, ProbeFails, EnsureCert, EnsureSync, EnsureFails,
           PruneSync, PruneCert, ListOrphans, Pruned, Conclude
    <3>6. \A n \in Generated(certs)' : certs'[n] # None
      BY <1>3 DEF Generated
    <3> QED
      BY <1>2, <1>5, <3>1, <3>2, <3>4, <3>5, <3>6
  <2> QED
    BY <1>2, <1>3, <1>5, <2>1, <2>2 DEF Goes, Worker, Adopt, ListExisting, Discover,
         DiscoverFails, Probe, ProbeFails, EnsureCert, EnsureSync, EnsureFails, PruneSync,
         PruneCert, ListOrphans, Pruned, Conclude, ListCertificates
<1> QED
  BY <1>1, <1>4, <1>5 DEF OrphanInv

LEMMA PlanThere ==
  ASSUME NEW spec \in Specs, NEW hosts \in SUBSET Hosts, NEW existing \in SUBSET Names
  PROVE  PlanFor(spec, hosts, existing) # None
<1> DEFINE pass == [spec |-> spec, hosts |-> hosts, existing |-> existing]
<1>1. pass \in Passes
  BY DEF Passes
<1>2. pass.spec = spec /\ pass.hosts = hosts /\ pass.existing = existing
  OBVIOUS
<1> HIDE DEF pass
<1> QED
  BY <1>1, <1>2, PlansAssumption

\* A plan made now names objects there are, and is one.
LEMMA CopiedPlanSound ==
  ASSUME TypeInv, NEW spec \in Specs
  PROVE  Sound(CopiedPlan(spec)) /\ CopiedPlan(spec) # None
<1>1. Discovered(spec) \in SUBSET Hosts
  BY DEF Discovered, TypeInv, ClusterType
<1>2. Generated(syncs) \in SUBSET Names
  BY DEF Generated, TypeInv, ClusterType
<1> QED
  BY <1>1, <1>2, PlansSound, PlanThere DEF CopiedPlan

\* What is done stays done while nobody makes an event: a Certificate that is
\* deleted meanwhile is in doubt.
LEMMA DoneStays ==
  ASSUME TypeInv, Next, policy.exists, worker.step \in {"idle", "report"}, ~Restart,
         UNCHANGED <<policy, syncs, routeCache, watched>>,
         NEW plan, NEW ready, DoneFor(policy.spec, plan, ready)
  PROVE  Done(policy.spec, CopiedPlan(policy.spec), PruneWithheld(policy.spec, CopiedPlan(policy.spec)),
              certs', syncs', unsure', plan, ready)
<1> DEFINE needed == CopiedPlan(policy.spec)
<1>1. /\ policy.spec \in Specs
      /\ certs \in [Names -> CertObject] /\ certs' \in [Names -> CertObject]
  BY ObjectsKept DEF TypeInv, ClusterType, PolicyObject
<1>2. \A c \in needed.certificates : c.name \in Names
  BY <1>1, CopiedPlanSound DEF Sound, Certificate
<1>3. unsure \subseteq unsure'
  BY DoubtSteps DEF EnsureCert, EnsureFails, ListCertificates
<1>4. \A n \in Names : certs'[n] = certs[n] \/ n \in unsure'
  BY <1>1, CertSteps DEF CertEvents, EnsureCert
<1>5. Generated(certs') \ unsure' \subseteq Generated(certs) \ unsure
  BY <1>1, <1>3, <1>4 DEF Generated
<1> HIDE DEF needed
<1> QED
  BY <1>2, <1>3, <1>4, <1>5 DEF needed, DoneFor, Done

\* What done means after a step that leaves the policy and the copies alone.
LEMMA DoneNext ==
  ASSUME UNCHANGED <<policy, syncs, routeCache, watched>>
  PROVE  /\ DoneFor(policy.spec, worker.plan, worker.result)' <=>
              Done(policy.spec, CopiedPlan(policy.spec),
                   PruneWithheld(policy.spec, CopiedPlan(policy.spec)),
                   certs', syncs', unsure', worker'.plan, worker'.result)
         /\ DoneFor(policy.spec, policy.status.plan, policy.status.ready)' <=>
              Done(policy.spec, CopiedPlan(policy.spec),
                   PruneWithheld(policy.spec, CopiedPlan(policy.spec)),
                   certs', syncs', unsure', policy.status.plan, policy.status.ready)
<1>1. CopiedPlan(policy.spec)' = CopiedPlan(policy.spec)
  BY CopiedPlanStays
<1>2. PruneWithheld(policy.spec, CopiedPlan(policy.spec))'
        = PruneWithheld(policy.spec, CopiedPlan(policy.spec))
  BY <1>1 DEF PruneWithheld
<1> QED
  BY <1>1, <1>2 DEF DoneFor

\* A pass reports on its whole plan, unless something failed or was missing.
LEMMA ReportsFrom ==
  ASSUME TypeInv, Goes, worker'.step = "report",
         worker'.result \notin Retried \cup {"CertManagerMissing"}
  PROVE  Discover \/ ListOrphans \/ Pruned
<1>1. worker \in Worker
  BY DEF TypeInv, MemoryType
<1>2. ~DiscoverFails /\ ~Probe /\ ~ProbeFails /\ ~EnsureFails
  BY <1>1 DEF DiscoverFails, Probe, ProbeFails, EnsureFails, Conclude, Worker, Retried
<1>3. /\ ~Adopt /\ ~ListExisting /\ ~EnsureCert /\ ~EnsureSync /\ ~ListCertificates
      /\ \A n \in Names : ~PruneSync(n) /\ ~PruneCert(n)
  BY <1>1 DEF Adopt, ListExisting, EnsureCert, EnsureSync, ListCertificates, PruneSync, PruneCert,
     Worker
<1> QED
  BY <1>2, <1>3 DEF Goes

LEMMA ReportStep ==
  ASSUME TypeInv, EnsuredInv, CopiesInv, HeldInv, PlanInv, WrittenInv, OrphanInv, ReportInv,
         [Next]_vars
  PROVE  ReportInv'
<1> DEFINE needed == CopiedPlan(policy.spec)
           withheld == PruneWithheld(policy.spec, needed)
           DoneThen == Done(policy.spec, needed, withheld, certs', syncs', unsure',
                            worker'.plan, worker'.result)
<1>1. CASE UNCHANGED vars
  BY <1>1, DoneNext DEF vars, ReportInv, Calm, DoneFor
<1>2. ASSUME Next, Calm', worker'.step = "report", policy'.exists,
             worker'.result \notin Retried \cup {"CertManagerMissing"}
      PROVE  /\ DoneFor(policy.spec, worker.plan, worker.result)'
             /\ worker'.result # "ConfigInvalid" => worker'.plan # None
  <2>1. ~Start /\ ~Restart
    BY <1>2, StartSteps, CalmRestart DEF Idle
  <2>2. /\ Calm /\ syncCache = syncs /\ worker.object = policy /\ policy.exists
        /\ UNCHANGED <<policy, syncs, routeCache, watched>> /\ (Goes \/ worker' = worker)
    BY <1>2, <2>1, PassCalm
  <2>3. /\ worker \in Worker /\ policy.spec \in Specs
        /\ worker.step = "plan" => worker.existing = Generated(syncs)
        /\ worker.step \in Planned => /\ policy.spec.sound /\ worker.plan = needed
                                      /\ worker.plan.ok /\ worker.plan # None
    BY <2>2, CopiedPlanSound
    DEF TypeInv, MemoryType, ClusterType, PolicyObject, PlanInv, PlanOfWorker
  <2>4. DoneFor(policy.spec, worker.plan, worker.result)' <=> DoneThen
    BY <2>2, DoneNext
  <2>5. CASE worker' = worker
    <3>1. /\ DoneFor(policy.spec, worker.plan, worker.result)
          /\ worker.result # "ConfigInvalid" => worker.plan # None
      BY <1>2, <2>2, <2>5 DEF ReportInv
    <3>2. Done(policy.spec, needed, withheld, certs', syncs', unsure', worker.plan, worker.result)
      BY <1>2, <2>1, <2>2, <2>5, <3>1, DoneStays
    <3> QED
      BY <2>4, <2>5, <3>1, <3>2
  <2>6. CASE Discover
    <3>1. PlanFor(worker.object.spec, Discovered(worker.object.spec), worker.existing) = needed
      BY <2>2, <2>3, <2>6 DEF Discover, CopiedPlan
    <3>2. worker'.result = "ConfigInvalid" /\ ~(policy.spec.sound /\ needed.ok)
      BY <1>2, <2>2, <2>3, <2>6, <3>1 DEF Discover, Worker
    <3> HIDE DEF needed, withheld
    <3> QED
      BY <2>4, <3>2 DEF Done
  <2>7. CASE ListOrphans
    <3>1. /\ worker.step = "cert" /\ worker.todo = {} /\ UNCHANGED <<certs, unsure>>
          /\ worker'.plan = worker.plan
          /\ worker'.result =
               IF policy.spec.prune /\ Generated(syncs) \ PlannedNames(needed) # {}
                 THEN "PruneWithheld" ELSE "Synced"
          /\ policy.spec.prune => withheld
      BY <1>2, <2>2, <2>3, <2>7 DEF ListOrphans, Worker, objects, Planned
    <3>2. \A c \in needed.certificates : certs[c.name] = c.names \/ c.name \in unsure
      BY <2>3, <3>1 DEF EnsuredInv, Unwritten, Planned
    <3>3. \A c \in needed.certificates : syncs[c.name] = Asked(policy.spec, syncs[c.name])
      BY <2>2, <2>3, <3>1 DEF WrittenInv, Planned
    <3> HIDE DEF needed, withheld
    <3> QED
      BY <2>2, <2>3, <2>4, <3>1, <3>2, <3>3 DEF Done, Planned
  <2>8. CASE Pruned
    <3>1. /\ worker.step = "pruneCerts" /\ worker.doomed = {} /\ UNCHANGED <<certs, unsure>>
          /\ worker'.plan = worker.plan /\ worker'.result = "Synced" /\ worker.todo = {}
      BY <2>3, <2>8 DEF Pruned, Conclude, Worker, objects, TypeInv, TodoInv
    <3>2. ~withheld
      BY <2>2, <2>3, <3>1 DEF TypeInv, DoomedInv, Planned
    <3>3. \A c \in needed.certificates : certs[c.name] = c.names \/ c.name \in unsure
      BY <2>3, <3>1 DEF EnsuredInv, Unwritten, Planned
    <3>4. \A c \in needed.certificates : syncs[c.name] = Asked(policy.spec, syncs[c.name])
      BY <2>2, <2>3, <3>1 DEF WrittenInv, Planned
    <3>5. /\ \A n \in Generated(syncs) \ PlannedNames(needed) : syncs[n].deleting
          /\ Generated(certs) \ unsure \subseteq PlannedNames(needed)
      BY <2>2, <2>3, <3>1 DEF OrphanInv, Planned
    <3> HIDE DEF needed, withheld
    <3> QED
      BY <2>2, <2>3, <2>4, <3>1, <3>2, <3>3, <3>4, <3>5 DEF Done, Planned, Generated
  <2> QED
    BY <1>2, <2>2, <2>5, <2>6, <2>7, <2>8, ReportsFrom
<1> QED
  BY <1>1, <1>2 DEF ReportInv

\* A pass that ends calmly, with nothing to come back for, has reported, and
\* the policy shows the report already.
LEMMA CalmEnds ==
  ASSUME TypeInv, CopiesInv, HeldInv, Next, Calm', Ends, timer' # "backoff", policy'.exists
  PROVE  /\ Report /\ worker.step = "report" /\ policy.status = ReportedStatus
         /\ worker.result \notin Retried
<1>1. ~Restart
  BY CalmRestart
<1>2. ~AdoptFails /\ ~ListingFails /\ ~PruneFails /\ ~ReportFails /\ ~FinalizeFails
  BY DEF AdoptFails, ListingFails, PruneFails, ReportFails, FinalizeFails, Abort, Requeue
<1>3. ~Finalize
  BY DEF Finalize, Released, TypeInv, ClusterType, PolicyObject
<1>4. Report /\ worker.step = "report" /\ worker.result \notin Retried
  BY <1>1, <1>2, <1>3 DEF Ends, Report, Requeue
<1>5. Calm /\ UNCHANGED policy /\ policy \in PolicyObject
  BY <1>1, <1>4, CalmSteps DEF Report, Start, TypeInv, ClusterType
<1>6. ~Conflict
  BY <1>4, <1>5 DEF HeldInv, Conflict
<1>7. policy' = [policy EXCEPT !.status = ReportedStatus]
  BY <1>4, <1>6 DEF Report, StoreStatus
<1>8. policy.status = ReportedStatus
  BY <1>5, <1>7 DEF PolicyObject
<1> QED
  BY <1>4, <1>8

\* Beside a pass that rests, a delayed requeue only comes due.
LEMMA TimerSteps ==
  ASSUME Next, worker.step = "idle"
  PROVE  timer' = timer \/ queued' = TRUE \/ Restart
BY DEF Next, Start, Pass, Informers, Others, Adopt, AdoptFails, ListExisting, Discover,
     DiscoverFails, Probe, ProbeFails, ListingFails, EnsureCert, EnsureSync, EnsureFails,
     ListOrphans, PruneSync, PruneCert, ListCertificates, Pruned, PruneFails, Report,
     ReportFails, Finalize, FinalizeFails, Fire, DeliverPolicy, DeliverSync, DeliverCert,
     DeliverRoutes, EditPolicy, DeletePolicy, Collect, ReleaseSync, Tamper, ChangeRoute,
     InstallCertManager, Tick, schedule

LEMMA GoesOn ==
  ASSUME TypeInv, Goes
  PROVE  worker'.step # "idle"
BY DiscoverFailsSteps
DEF Goes, TypeInv, MemoryType, Worker, Adopt, ListExisting, Discover, Probe, ProbeFails,
   EnsureCert, EnsureSync, EnsureFails, ListOrphans, PruneSync, PruneCert, ListCertificates,
   Pruned, Conclude

LEMMA RestStep ==
  ASSUME TypeInv, CopiesInv, HeldInv, ReportInv, RestInv, [Next]_vars
  PROVE  RestInv'
<1> DEFINE spec == policy.spec
           needed == CopiedPlan(spec)
           withheld == PruneWithheld(spec, needed)
<1>1. CASE UNCHANGED vars
  BY <1>1, DoneNext DEF vars, RestInv, Calm, DoneFor, Awaiting
<1>2. ASSUME Next, Calm', worker'.step = "idle", timer' # "backoff", policy'.exists,
             ~policy'.deleting, ~Awaiting'
      PROVE  DoneFor(policy.spec, policy.status.plan, policy.status.ready)'
  <2>1. ~Restart
    BY <1>2, CalmRestart
  <2>2. ~Start
    <3>1. ASSUME Start PROVE FALSE
      <4>1. cache = policy /\ UNCHANGED policy
        BY <1>2, <3>1 DEF Start, Calm, CopiesInv
      <4> QED
        BY <1>2, <3>1, <4>1 DEF Start, TypeInv, MemoryType, Worker
    <3> QED
      BY <3>1
  <2>3. /\ Calm /\ policy.exists
        /\ UNCHANGED <<policy, syncs, routeCache, watched>>
    BY <1>2, <2>1, <2>2, CalmSteps
  <2>4. DoneFor(policy.spec, policy.status.plan, policy.status.ready)' <=>
          Done(spec, needed, withheld, certs', syncs', unsure',
               policy.status.plan, policy.status.ready)
    BY <2>3, DoneNext
  <2>5. CASE worker.step = "idle"
    <3>1. timer' = timer
      BY <1>2, <2>1, <2>5, TimerSteps DEF Calm
    <3>2. DoneFor(policy.spec, policy.status.plan, policy.status.ready)
      BY <1>2, <2>3, <2>5, <3>1 DEF RestInv, Awaiting
    <3> QED
      BY <1>2, <2>1, <2>3, <2>4, <2>5, <3>2, DoneStays
  <2>6. CASE worker.step # "idle"
    <3>1. Ends
      BY <1>2, <2>2, <2>6, PassSteps, GoesOn
    <3>2. /\ worker.step = "report" /\ policy.status = ReportedStatus
          /\ worker.result \notin Retried
      BY <1>2, <3>1, CalmEnds
    <3>3. policy.status.ready = worker.result /\ worker.result # "CertManagerMissing"
      BY <1>2, <2>3, <3>2 DEF ReportedStatus, Awaiting, Retried
    <3>4. /\ DoneFor(spec, worker.plan, worker.result)
          /\ worker.result # "ConfigInvalid" => worker.plan # None
      BY <2>3, <3>2, <3>3 DEF ReportInv
    <3>5. worker.result # "ConfigInvalid" => policy.status.plan = worker.plan
      BY <3>2, <3>4 DEF ReportedStatus
    <3>6. DoneFor(spec, policy.status.plan, policy.status.ready)
      <4> HIDE DEF needed, withheld
      <4>1. Done(spec, needed, withheld, certs, syncs, unsure, worker.plan, worker.result)
        BY <3>4 DEF DoneFor, needed, withheld
      <4>2. Done(spec, needed, withheld, certs, syncs, unsure, policy.status.plan, worker.result)
        BY <3>5, <4>1 DEF Done
      <4> QED
        BY <3>3, <4>2 DEF DoneFor, needed, withheld
    <3> QED
      BY <1>2, <2>1, <2>3, <2>4, <3>2, <3>6, DoneStays
  <2> QED
    BY <2>5, <2>6
<1> QED
  BY <1>1, <1>2 DEF RestInv

LEMMA WakeHolds == Safety => []WakeInv
<1>1. Init => WakeInv
  BY DEF Init, Idle, WakeInv, CopiesInv, HeldInv, PlanInv, WrittenInv, OrphanInv, ReportInv,
     RestInv, Calm, Planned
<1>2. TypeInv /\ EnsuredInv /\ WakeInv /\ [Next]_vars => WakeInv'
  BY CopiesStep, HeldStep, PlanStep, WrittenStep, OrphanStep, ReportStep, RestStep DEF WakeInv
<1> QED
  BY <1>1, <1>2, TypeInvHolds, EnsuredHolds, PTL DEF Safety

\* When the copies of the routes are current too, what the operator would plan
\* is what the policy asks for.
LEMMA QuietPlan ==
  ASSUME \A s \in watched : routeCache[s] = routes[s]
  PROVE  TruePlan = CopiedPlan(policy.spec)
<1>1. Discovered(policy.spec) = TrueHosts
  BY DEF Discovered, TrueHosts
<1> QED
  BY <1>1 DEF TruePlan, CopiedPlan

LEMMA QuietSettled ==
  ASSUME TypeInv, RestInv, Quiet, policy.exists, ~policy.deleting, ~Awaiting
  PROVE  SettledExcept(unsure)
<1> DEFINE needed == CopiedPlan(policy.spec)
           withheld == PruneWithheld(policy.spec, needed)
<1>1. Done(policy.spec, needed, withheld, certs, syncs, unsure,
           policy.status.plan, policy.status.ready)
  BY DEF Quiet, RestInv, Calm, DoneFor
<1>2. TruePlan = needed
  BY QuietPlan DEF Quiet
<1>3. /\ policy.spec \in Specs /\ syncs \in [Names -> SyncObject]
      /\ \A n \in Generated(syncs) : ~syncs[n].deleting
  BY DEF TypeInv, ClusterType, PolicyObject, Quiet
<1>4. \A c \in needed.certificates : c.name \in Names
  BY <1>3, CopiedPlanSound DEF Sound, Certificate
<1>5. \A n \in Names : syncs[n] = Asked(policy.spec, syncs[n]) =>
                         syncs[n] = [target |-> policy.spec.target, deleting |-> FALSE]
  BY <1>3 DEF Asked, Generated, SyncObject
<1> HIDE DEF needed, withheld
<1>6. CASE ~policy.spec.sound \/ ~needed.ok
  BY <1>1, <1>2, <1>6 DEF Done, SettledExcept
<1>7. CASE policy.spec.sound /\ needed.ok
  <2>1. withheld = PruneWithheld(policy.spec, TruePlan)
    BY <1>2 DEF withheld, needed
  <2>2. /\ policy.status.plan = TruePlan
        /\ \A c \in TruePlan.certificates :
             /\ c.name \in unsure \/ certs[c.name] = c.names
             /\ syncs[c.name] = [target |-> policy.spec.target, deleting |-> FALSE]
    BY <1>1, <1>2, <1>4, <1>5, <1>7 DEF Done
  <2>3. policy.spec.prune /\ ~withheld =>
          Generated(syncs) \cup (Generated(certs) \ unsure) \subseteq PlannedNames(TruePlan)
    BY <1>1, <1>2, <1>3, <1>7 DEF Done
  <2>4. policy.status.ready =
          IF policy.spec.prune /\ withheld /\ ~(Generated(syncs) \subseteq PlannedNames(TruePlan))
            THEN "PruneWithheld" ELSE "Synced"
    BY <1>1, <1>2, <1>7 DEF Done
  <2> QED
    BY <1>2, <1>7, <2>1, <2>2, <2>3, <2>4 DEF SettledExcept
<1> QED
  BY <1>6, <1>7

\* However events, passes, failures and restarts interleave, when the operator
\* has nothing to do and no event is under way the cluster is what the policy
\* asks for and the status says so, except what no event tells.
THEOREM WakeUpsKept == Safety => []NoLostWakeup
<1>1. TypeInv /\ WakeInv => NoLostWakeup
  BY QuietSettled DEF WakeInv, NoLostWakeup
<1> QED
  BY <1>1, TypeInvHolds, WakeHolds, PTL

=============================================================================
