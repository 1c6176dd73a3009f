--------------------------- MODULE WildcardPolicy ---------------------------
(***************************************************************************)
(* The WildcardCertificatePolicy controller                                *)
(* (internal/controller/wildcardpolicy_controller.go) with host discovery   *)
(* (internal/infra/kube/hostsource.go) and the certificate writer           *)
(* (internal/infra/kube/certmanager.go): one policy, the cert-manager       *)
(* Certificates and sync resources it generates, and the cluster's routes.  *)
(*                                                                         *)
(* Everything a pass reads comes from informer caches, everything it writes *)
(* goes to the API server, one call at a time, so the cluster, the          *)
(* informers and a restart come between any two calls.  A write made from a *)
(* copy that is not what the API server has is refused.                     *)
(***************************************************************************)
EXTENDS WildcardPlan

CONSTANTS
  Hosts,          \* hosts that may be routed
  GatewayKinds,   \* the Gateway API kinds hosts are discovered from
  Specs,          \* the specs a user may give the policy
  Targets,        \* what a sync resource copies of the spec: vault, sync policy
  Names,          \* Key Vault names the specs and hosts lead to
  None,           \* an absent object
  Scenarios       \* how a behaviour starts, and the bounds of what befalls it

Sources == {"ingress"} \cup GatewayKinds

\* WildcardCertificatePolicySpec.  sound: the vault URL resolves and is
\* permitted, and the namespace selector parses.
Spec == [zones : SUBSET DnsName, max : Nat, grouping : Groupings, seed : BOOLEAN,
         discovery : [Sources -> {"unset", "on", "off"}], prune : BOOLEAN,
         target : Targets, sound : BOOLEAN]

ASSUME SpecsAssumption == Specs \subseteq Spec
ASSUME HostsAssumption == Hosts \subseteq DnsName
ASSUME SourcesAssumption == GatewayKinds \subseteq {"httpRoutes", "gateways"}

\* What a pass can be asked for, whatever exists and whatever the cap: finitely
\* many names, told apart by the string order, and objects for all of them.
Demand(spec, hosts) ==
  [hosts |-> hosts, zones |-> spec.zones, max |-> spec.max, existing |-> {},
   grouping |-> spec.grouping, seed |-> spec.seed]

ASSUME RanksAssumption ==
  \A spec \in Specs : /\ IsFiniteSet(Hosts) /\ IsFiniteSet(spec.zones)
                      /\ Ranked(Mentioned(Demand(spec, Hosts)))
ASSUME NamesAssumption ==
  \A spec \in Specs, hosts \in SUBSET Hosts :
    LET requests == Grouped(Demand(spec, hosts))
    IN \A r \in requests : NameOf(r, requests) \in Names /\ r.names # None

\* What befalls an operator: spec edits, the policy's deletion, changes of the
\* routed hosts, generated objects deleted by somebody else, restarts, API
\* server calls that fail, and ticks of the clock.
Disturbances == {"edits", "deletes", "routes", "tampers", "restarts", "faults", "ticks"}

ASSUME ScenariosAssumption ==
  Scenarios \subseteq [spec : Specs, routes : [Sources -> SUBSET Hosts],
                      certManager : BOOLEAN, left : [Disturbances -> Nat]]

\* The Ready condition: "Synced" is True, every other reason is False.
Reasons == {"Unset", "Synced", "ConfigInvalid", "VaultError", "CertManagerMissing",
            "IssuanceFailed", "PruneWithheld"}

\* Results a pass returns as an error, "Unset" being a failed probe.
Retried == {"Unset", "VaultError", "IssuanceFailed"}
NoStatus == [plan |-> None, ready |-> "Unset", discoveredAt |-> 0]

VARIABLES
  policy,      \* the policy at the API server
  cache,       \* the informer's copy of it
  stale,       \* the policy has an event the informer has yet to deliver
  certs,       \* Certificates by name: their DNS names, or None
  certCache,   \* the informer's copies of them
  syncs,       \* sync resources by name: target and deletion, or None
  syncCache,   \* the informer's copies of them
  unseen,      \* sync resources with an event the informer has yet to deliver
  routes,      \* the hosts routed, by source
  routeCache,  \* what the informers of the watched sources show of them
  watched,     \* sources whose kind was served when the operator started
  certManager, \* the Certificate CRD is served
  now,         \* the clock, in the whole seconds a status holds
  queued,      \* the policy's key is ready to be reconciled
  timer,       \* a delayed requeue: "none", "backoff" or "resync"
  worker,      \* the pass in progress
  unsure,      \* names whose Certificate may not be what the last pass took
               \* it for: judged by a stale copy, or deleted by somebody else
  left         \* how much of each disturbance may still come

vars == <<policy, cache, stale, certs, certCache, syncs, syncCache, unseen, routes,
          routeCache, watched, certManager, now, queued, timer, worker, unsure, left>>
objects == <<certs, syncs, unseen, unsure>>
copies == <<cache, certCache, syncCache, routeCache>>
cluster == <<routes, watched, certManager, now>>
schedule == <<queued, timer>>

Idle == [step |-> "idle", object |-> None, hosts |-> {}, existing |-> {},
         plan |-> None, todo |-> {}, doomed |-> {}, result |-> "Unset"]

-----------------------------------------------------------------------------
(***************************************************************************)
(* Helpers                                                                 *)
(***************************************************************************)
Spend(kind) == left[kind] > 0 /\ left' = [left EXCEPT ![kind] = @ - 1]

\* A key already waiting keeps the earlier of its two due times.
Requeue(delay) == timer' = IF timer = "backoff" THEN timer ELSE delay

Generated(object) == {n \in DOMAIN object : object[n] # None}

\* A write makes an event, also when a later one undoes it.
PolicyEvents == stale' = (stale \/ policy' # policy)
SyncEvents == unseen' = unseen \cup {n \in Names : syncs'[n] # syncs[n]}

\* The pass goes to the status write with this result.
Conclude(reason) ==
  worker' = [worker EXCEPT !.step = "report", !.result = reason, !.todo = {}]

\* The pass ends with an error, and no status.
Abort == worker' = Idle /\ Requeue("backoff") /\ UNCHANGED queued

\* An update from the pass's copy of the policy is refused.
Conflict == ~policy.exists \/ policy # worker.object

-----------------------------------------------------------------------------
(***************************************************************************)
(* One pass of Reconcile                                                   *)
(***************************************************************************)
\* Reconcile takes the key and reads the policy from the cache.
Start ==
  /\ worker.step = "idle" /\ queued
  /\ queued' = FALSE
  /\ worker' =
       IF ~cache.exists THEN worker
       ELSE [worker EXCEPT
               !.step = IF cache.deleting THEN "finalize"
                        ELSE IF cache.finalizer THEN "list" ELSE "adopt",
               !.object = cache]
  /\ UNCHANGED <<policy, stale, timer, objects, copies, cluster, left>>

\* AddFinalizer and Update.
Adopt ==
  /\ worker.step = "adopt" /\ ~Conflict
  /\ policy' = [policy EXCEPT !.finalizer = TRUE] /\ PolicyEvents
  /\ worker' = [worker EXCEPT !.step = "list", !.object = policy']
  /\ UNCHANGED <<objects, copies, cluster, schedule, left>>

\* A fault: the error of a refused finalizer write is dropped.
AdoptFails_Ignored ==
  /\ worker.step = "adopt" /\ Conflict
  /\ worker' = [worker EXCEPT !.step = "list"]
  /\ UNCHANGED <<policy, stale, objects, copies, cluster, schedule, left>>

AdoptFails ==
  /\ worker.step = "adopt"
  /\ \/ Conflict /\ UNCHANGED <<policy, left>>
     \/ Spend("faults")
          /\ \/ UNCHANGED policy
             \/ ~Conflict /\ policy' = [policy EXCEPT !.finalizer = TRUE]
  /\ PolicyEvents
  /\ Abort
  /\ UNCHANGED <<objects, copies, cluster>>

\* generatedCertificateNames: what exists, as the cache shows it.
ListExisting ==
  /\ worker.step = "list"
  /\ worker' = [worker EXCEPT !.step = "plan", !.existing = Generated(syncCache)]
  /\ UNCHANGED <<policy, stale, objects, copies, cluster, schedule, left>>

\* HostSource.Hosts over the sources the policy leaves on and that are watched.
Discovered(spec) ==
  UNION {routeCache[s] : s \in {s \in watched : spec.discovery[s] # "off"}}

\* Planner.Plan, on what a pass can have seen.
Passes == {[spec |-> spec, hosts |-> hosts, existing |-> existing] :
             spec \in Specs, hosts \in SUBSET Hosts, existing \in SUBSET Names}
Plans == [pass \in Passes |->
  BuildPlan([Demand(pass.spec, pass.hosts) EXCEPT !.existing = pass.existing])]
PlanFor(spec, hosts, existing) ==
  Plans[[spec |-> spec, hosts |-> hosts, existing |-> existing]]

ASSUME PlansAssumption ==
  \A pass \in Passes : PlanFor(pass.spec, pass.hosts, pass.existing) # None

\* plan: the vault is checked first, then the hosts are discovered.
Discover ==
  /\ worker.step = "plan"
  /\ LET spec == worker.object.spec
         hosts == Discovered(spec)
         plan == PlanFor(spec, hosts, worker.existing)
     IN worker' =
          IF spec.sound /\ plan.ok
            THEN [worker EXCEPT !.step = "probe", !.hosts = hosts, !.plan = plan,
                                !.existing = {}]
            ELSE [worker EXCEPT !.step = "report", !.result = "ConfigInvalid",
                                !.existing = {}]
  /\ UNCHANGED <<policy, stale, objects, copies, cluster, schedule, left>>

\* A List of the hosts fails, which classify knows by no better name.
DiscoverFails ==
  /\ worker.step = "plan" /\ worker.object.spec.sound /\ Spend("faults")
  /\ worker' = [worker EXCEPT !.step = "report", !.result = "VaultError", !.existing = {}]
  /\ UNCHANGED <<policy, stale, objects, copies, cluster, schedule>>

\* Available: without the CRD the plan is reported and nothing is created.
Probe ==
  /\ worker.step = "probe"
  /\ IF certManager
       THEN worker' = [worker EXCEPT !.step = "cert", !.todo = worker.plan.certificates]
       ELSE Conclude("CertManagerMissing")
  /\ UNCHANGED <<policy, stale, objects, copies, cluster, schedule, left>>

\* The probe itself fails: the plan is reported, the reason left as it was.
ProbeFails ==
  /\ worker.step = "probe" /\ Spend("faults")
  /\ Conclude("Unset")
  /\ UNCHANGED <<policy, stale, objects, copies, cluster, schedule>>

\* The certificate apply works on: it goes through them in the plan's order.
Current == CHOOSE c \in worker.todo : \A d \in worker.todo \ {c} : Before(c, d)

\* CreateOrUpdate of an object with this content, from a copy of it: nothing
\* to do, or a write the API server takes only from a copy that is current.
Unchanged(copy, content) == copy = content
Accepted(copy, object) == copy = object

\* CertificateWriter.Ensure
EnsureCert ==
  /\ worker.step = "cert" /\ worker.todo # {}
  /\ LET c == Current
         copy == certCache[c.name]
     IN /\ IF Unchanged(copy, c.names)
             THEN UNCHANGED certs
             ELSE /\ Accepted(copy, certs[c.name])
                  /\ certs' = [certs EXCEPT ![c.name] = c.names]
        /\ unsure' = IF certs'[c.name] = c.names THEN unsure \ {c.name}
                                                 ELSE unsure \cup {c.name}
  /\ worker' = [worker EXCEPT !.step = "sync"]
  /\ UNCHANGED <<policy, stale, syncs, unseen, copies, cluster, schedule, left>>

\* ensureSync's mutation; a resource being deleted is found all the same.
SyncFrom(copy) == [target |-> worker.object.spec.target,
                   deleting |-> copy # None /\ copy.deleting]

EnsureSync ==
  /\ worker.step = "sync"
  /\ LET c == Current
         copy == syncCache[c.name]
     IN /\ IF Unchanged(copy, SyncFrom(copy))
             THEN UNCHANGED syncs
             ELSE /\ Accepted(copy, syncs[c.name])
                  /\ syncs' = [syncs EXCEPT ![c.name] = SyncFrom(copy)]
        /\ worker' = [worker EXCEPT !.step = "cert", !.todo = @ \ {c}]
  /\ SyncEvents
  /\ UNCHANGED <<policy, stale, certs, unsure, copies, cluster, schedule, left>>

\* A write is refused, or the call fails, applied or not.
WriteFails(object, copy, n, content) ==
  /\ ~Unchanged(copy, content)
  /\ \/ ~Accepted(copy, object[n]) /\ UNCHANGED <<object, left>>
     \/ /\ Spend("faults")
        /\ \/ UNCHANGED object
           \/ Accepted(copy, object[n]) /\ object' = [object EXCEPT ![n] = content]

\* apply stops at its first error: the rest of the plan is not looked at.
EnsureFails ==
  /\ worker.step \in {"cert", "sync"} /\ worker.todo # {}
  /\ LET c == Current
     IN \/ /\ worker.step = "cert" /\ UNCHANGED syncs
           /\ WriteFails(certs, certCache[c.name], c.name, c.names)
        \/ /\ worker.step = "sync" /\ UNCHANGED certs
           /\ WriteFails(syncs, syncCache[c.name], c.name, SyncFrom(syncCache[c.name]))
  /\ SyncEvents
  /\ Conclude("IssuanceFailed")
  /\ UNCHANGED <<policy, stale, unsure, copies, cluster, schedule>>

\* A fault: only an empty plan is mistrusted.
PruneWithheld_EmptyOnly(spec, plan) == plan.certificates = {}

\* pruneWithheldReason, for a policy that prunes: an empty plan, or a source
\* that was asked for and is not watched.
PruneWithheld(spec, plan) ==
  \/ plan.certificates = {}
  \/ \E s \in GatewayKinds \ watched : spec.discovery[s] = "on"

\* handleOrphans lists the sync resources nothing requires any more.
ListOrphans ==
  /\ worker.step = "cert" /\ worker.todo = {}
  /\ LET spec == worker.object.spec
         orphans == Generated(syncCache) \ PlannedNames(worker.plan)
         withheld == PruneWithheld(spec, worker.plan)
     IN worker' =
          IF spec.prune /\ ~withheld
            THEN [worker EXCEPT !.step = "pruneSyncs", !.doomed = orphans]
            ELSE [worker EXCEPT !.step = "report",
                    !.result = IF spec.prune /\ orphans # {} THEN "PruneWithheld"
                                                             ELSE "Synced"]
  /\ UNCHANGED <<policy, stale, objects, copies, cluster, schedule, left>>

\* A sync resource is released by its own controller after it is deleted.
Deleted(object) == IF object = None THEN None ELSE [object EXCEPT !.deleting = TRUE]

PruneSync(n) ==
  /\ worker.step = "pruneSyncs" /\ n \in worker.doomed
  /\ syncs' = [syncs EXCEPT ![n] = Deleted(@)] /\ SyncEvents
  /\ worker' = [worker EXCEPT !.doomed = @ \ {n}]
  /\ UNCHANGED <<policy, stale, certs, unsure, copies, cluster, schedule, left>>

\* A fault: a Certificate is kept only if its sync resource is there.
ListCertificates_BySyncs ==
  /\ worker.step = "pruneSyncs" /\ worker.doomed = {}
  /\ worker' = [worker EXCEPT !.step = "pruneCerts",
                  !.doomed = Generated(certCache) \ Generated(syncCache)]
  /\ UNCHANGED <<policy, stale, certs, syncs, unseen, unsure, copies, cluster,
                 schedule, left>>

ListCertificates ==
  /\ worker.step = "pruneSyncs" /\ worker.doomed = {}
  /\ worker' = [worker EXCEPT !.step = "pruneCerts",
                  !.doomed = Generated(certCache) \ PlannedNames(worker.plan)]
  /\ unsure' = (unsure \cap PlannedNames(worker.plan))
                 \cup {n \in Names : certs[n] # None /\ certCache[n] = None}
  /\ UNCHANGED <<policy, stale, certs, syncs, unseen, copies, cluster, schedule, left>>

PruneCert(n) ==
  /\ worker.step = "pruneCerts" /\ n \in worker.doomed
  /\ certs' = [certs EXCEPT ![n] = None]
  /\ worker' = [worker EXCEPT !.doomed = @ \ {n}]
  /\ UNCHANGED <<policy, stale, syncs, unseen, unsure, copies, cluster, schedule, left>>

\* A List of what the policy generated fails: the error is returned as it is.
ListingFails ==
  /\ \/ worker.step = "list"
     \/ worker.step = "cert" /\ worker.todo = {}
     \/ worker.step = "pruneSyncs" /\ worker.doomed = {}
  /\ Spend("faults") /\ Abort
  /\ UNCHANGED <<policy, stale, objects, copies, cluster>>

Pruned ==
  /\ worker.step = "pruneCerts" /\ worker.doomed = {}
  /\ Conclude("Synced")
  /\ UNCHANGED <<policy, stale, objects, copies, cluster, schedule, left>>

\* A deletion fails, applied or not: the error is returned as it is.
PruneFails ==
  /\ worker.step \in {"pruneSyncs", "pruneCerts"} /\ Spend("faults")
  /\ \E n \in worker.doomed :
       \/ UNCHANGED <<certs, syncs>>
       \/ /\ worker.step = "pruneSyncs" /\ UNCHANGED certs
          /\ syncs' = [syncs EXCEPT ![n] = Deleted(@)]
       \/ /\ worker.step = "pruneCerts" /\ UNCHANGED syncs
          /\ certs' = [certs EXCEPT ![n] = None]
  /\ SyncEvents
  /\ Abort
  /\ UNCHANGED <<policy, stale, unsure, copies, cluster>>

\* recordPlan stamps the time; a pass without a plan leaves plan and stamp
\* alone, a failed probe the condition.
ReportedStatus ==
  LET old == worker.object.status
      planned == worker.plan # None
  IN [plan |-> IF planned THEN worker.plan ELSE old.plan,
      ready |-> IF worker.result = "Unset" THEN old.ready ELSE worker.result,
      discoveredAt |-> IF planned THEN now ELSE old.discoveredAt]

\* updateStatus: a conflict or a missing object counts as success.
StoreStatus ==
  /\ IF Conflict THEN UNCHANGED policy
                 ELSE policy' = [policy EXCEPT !.status = ReportedStatus]
  /\ PolicyEvents

\* A fault: a pass that ends well asks for no other.
Report_NoResync ==
  /\ worker.step = "report"
  /\ StoreStatus
  /\ worker' = Idle
  /\ IF worker.result \in Retried THEN Requeue("backoff") ELSE UNCHANGED timer
  /\ UNCHANGED <<queued, objects, copies, cluster, left>>

\* A fault: what only a user can mend is retried with a backoff.
Report_BacksOff ==
  /\ worker.step = "report"
  /\ StoreStatus
  /\ worker' = Idle
  /\ Requeue(IF worker.result = "Synced" THEN "resync" ELSE "backoff")
  /\ UNCHANGED <<queued, objects, copies, cluster, left>>

\* A failed discovery, probe or issuance is returned and backs off; everything
\* else is looked at again after the discovery interval.
Report ==
  /\ worker.step = "report"
  /\ StoreStatus
  /\ worker' = Idle
  /\ Requeue(IF worker.result \in Retried THEN "backoff" ELSE "resync")
  /\ UNCHANGED <<queued, objects, copies, cluster, left>>

ReportFails ==
  /\ worker.step = "report" /\ Spend("faults")
  /\ UNCHANGED <<policy, stale>> \/ StoreStatus
  /\ Abort
  /\ UNCHANGED <<objects, copies, cluster>>

\* RemoveFinalizer: the policy being deleted, which carries it, goes.
Released == [policy EXCEPT !.exists = FALSE, !.deleting = FALSE, !.finalizer = FALSE,
                           !.status = NoStatus]

Finalize ==
  /\ worker.step = "finalize" /\ ~Conflict
  /\ policy' = Released
  /\ PolicyEvents
  /\ worker' = Idle
  /\ UNCHANGED <<objects, copies, cluster, schedule, left>>

\* A fault: a refused finalizer write is tolerated, as a refused status is.
FinalizeFails_Tolerated ==
  /\ worker.step = "finalize"
  /\ \/ Conflict /\ UNCHANGED <<policy, left>>
     \/ Spend("faults") /\ (UNCHANGED policy \/ (~Conflict /\ policy' = Released))
  /\ PolicyEvents
  /\ worker' = Idle
  /\ UNCHANGED <<objects, copies, cluster, schedule>>

FinalizeFails ==
  /\ worker.step = "finalize"
  /\ \/ Conflict /\ UNCHANGED <<policy, left>>
     \/ Spend("faults") /\ (UNCHANGED policy \/ (~Conflict /\ policy' = Released))
  /\ PolicyEvents
  /\ Abort
  /\ UNCHANGED <<objects, copies, cluster>>

-----------------------------------------------------------------------------
(***************************************************************************)
(* Informers, timers and restarts                                          *)
(***************************************************************************)
\* For: every event of the policy wakes its key.
DeliverPolicy ==
  /\ stale /\ stale' = FALSE /\ cache' = policy
  /\ queued' = TRUE
  /\ UNCHANGED <<policy, objects, certCache, syncCache, routeCache, cluster, timer,
                 worker, left>>

\* Owns: an event of a generated sync resource wakes its owner.
DeliverSync(n) ==
  /\ n \in unseen /\ unseen' = unseen \ {n}
  /\ syncCache' = [syncCache EXCEPT ![n] = syncs[n]]
  /\ queued' = TRUE
  /\ UNCHANGED <<policy, stale, certs, syncs, unsure, cache, certCache, routeCache,
                 cluster, timer, worker, left>>

\* Certificates have an informer, because they are read, but no handler.
DeliverCert(n) ==
  /\ certCache[n] # certs[n]
  /\ certCache' = [certCache EXCEPT ![n] = certs[n]]
  /\ UNCHANGED <<policy, stale, objects, cache, syncCache, routeCache, cluster,
                 schedule, worker, left>>

\* A fault: the routing kinds are read, and not watched.
DeliverRoutes_Unwatched(s) ==
  /\ s \in watched /\ routeCache[s] # routes[s]
  /\ routeCache' = [routeCache EXCEPT ![s] = routes[s]]
  /\ UNCHANGED <<policy, stale, objects, cache, certCache, syncCache, cluster, schedule,
                 worker, left>>

\* enqueueAllPolicies: every policy the cache shows.
DeliverRoutes(s) ==
  /\ s \in watched /\ routeCache[s] # routes[s]
  /\ routeCache' = [routeCache EXCEPT ![s] = routes[s]]
  /\ queued' = (queued \/ cache.exists)
  /\ UNCHANGED <<policy, stale, objects, cache, certCache, syncCache, cluster, timer,
                 worker, left>>

Fire(delay) ==
  /\ timer = delay /\ timer' = "none" /\ queued' = TRUE
  /\ UNCHANGED <<policy, stale, objects, copies, cluster, worker, left>>

\* The operator stops anywhere.  It starts with fresh lists, and watches the
\* Gateway kinds the API server serves at that moment, whatever they were.
Restart ==
  /\ Spend("restarts")
  /\ worker' = Idle /\ timer' = "none" /\ queued' = policy.exists
  /\ cache' = policy /\ certCache' = certs /\ syncCache' = syncs
  /\ stale' = FALSE /\ unseen' = {}
  /\ \E kinds \in SUBSET GatewayKinds : watched' = {"ingress"} \cup kinds
  /\ routeCache' = [s \in Sources |-> IF s \in watched' THEN routes[s] ELSE {}]
  /\ UNCHANGED <<policy, certs, syncs, unsure, routes, certManager, now>>

-----------------------------------------------------------------------------
(***************************************************************************)
(* The cluster                                                             *)
(***************************************************************************)
EditPolicy(spec) ==
  /\ policy.exists /\ ~policy.deleting /\ spec # policy.spec
  /\ Spend("edits")
  /\ policy' = [policy EXCEPT !.spec = spec] /\ PolicyEvents
  /\ UNCHANGED <<objects, copies, cluster, schedule, worker>>

DeletePolicy ==
  /\ policy.exists /\ ~policy.deleting
  /\ Spend("deletes")
  /\ policy' = IF policy.finalizer THEN [policy EXCEPT !.deleting = TRUE]
               ELSE [policy EXCEPT !.exists = FALSE, !.status = NoStatus]
  /\ PolicyEvents
  /\ UNCHANGED <<objects, copies, cluster, schedule, worker>>

\* The garbage collector removes what a policy that is gone owned.
Collect(n) ==
  /\ ~policy.exists
  /\ certs' = [certs EXCEPT ![n] = None]
  /\ syncs' = [syncs EXCEPT ![n] = Deleted(@)]
  /\ certs' # certs \/ syncs' # syncs
  /\ SyncEvents
  /\ UNCHANGED <<policy, stale, unsure, copies, cluster, schedule, worker, left>>

\* The sync controller releases a resource being deleted (CertSync).
ReleaseSync(n) ==
  /\ syncs[n] # None /\ syncs[n].deleting
  /\ syncs' = [syncs EXCEPT ![n] = None] /\ SyncEvents
  /\ UNCHANGED <<policy, stale, certs, unsure, copies, cluster, schedule, worker, left>>

\* A user deletes something the policy generated.
Tamper(n) ==
  /\ Spend("tampers")
  /\ \/ /\ certs[n] # None /\ certs' = [certs EXCEPT ![n] = None]
        /\ unsure' = unsure \cup {n}
        /\ UNCHANGED syncs
     \/ /\ syncs[n] # None /\ ~syncs[n].deleting
        /\ syncs' = [syncs EXCEPT ![n] = Deleted(@)]
        /\ UNCHANGED <<certs, unsure>>
  /\ SyncEvents
  /\ UNCHANGED <<policy, stale, copies, cluster, schedule, worker>>

ChangeRoute(s, h) ==
  /\ Spend("routes")
  /\ routes' = [routes EXCEPT ![s] = IF h \in @ THEN @ \ {h} ELSE @ \cup {h}]
  /\ UNCHANGED <<policy, stale, objects, copies, watched, certManager, now, schedule,
                 worker>>

InstallCertManager ==
  /\ ~certManager /\ certManager' = TRUE
  /\ UNCHANGED <<policy, stale, objects, copies, routes, watched, now, schedule,
                 worker, left>>

Tick ==
  /\ Spend("ticks") /\ now' = now + 1
  /\ UNCHANGED <<policy, stale, objects, copies, routes, watched, certManager,
                 schedule, worker>>

-----------------------------------------------------------------------------
Pass ==
  \/ Adopt \/ AdoptFails \/ ListExisting \/ Discover \/ DiscoverFails
  \/ Probe \/ ProbeFails
  \/ EnsureCert \/ EnsureSync \/ EnsureFails \/ ListOrphans
  \/ (\E n \in Names : PruneSync(n) \/ PruneCert(n))
  \/ ListCertificates \/ ListingFails \/ Pruned \/ PruneFails
  \/ Report \/ ReportFails \/ Finalize \/ FinalizeFails

Informers ==
  \/ DeliverPolicy
  \/ (\E n \in Names : DeliverSync(n) \/ DeliverCert(n))
  \/ (\E s \in Sources : DeliverRoutes(s))

Others ==
  \/ (\E spec \in Specs : EditPolicy(spec)) \/ DeletePolicy
  \/ (\E n \in Names : Collect(n) \/ ReleaseSync(n) \/ Tamper(n))
  \/ (\E s \in Sources, h \in Hosts : ChangeRoute(s, h))
  \/ InstallCertManager \/ Tick

Init ==
  /\ \E scenario \in Scenarios :
       /\ policy = [exists |-> TRUE, deleting |-> FALSE, finalizer |-> FALSE,
                    spec |-> scenario.spec, status |-> NoStatus]
       /\ routes = scenario.routes /\ certManager = scenario.certManager
       /\ left = scenario.left /\ now = 0
  /\ \E kinds \in SUBSET GatewayKinds : watched = {"ingress"} \cup kinds
  /\ routeCache = [s \in Sources |-> IF s \in watched THEN routes[s] ELSE {}]
  /\ certs = [n \in Names |-> None] /\ syncs = [n \in Names |-> None]
  /\ cache = policy /\ certCache = certs /\ syncCache = syncs
  /\ stale = FALSE /\ unseen = {}
  /\ queued = TRUE /\ timer = "none" /\ worker = Idle /\ unsure = {}

Next ==
  \/ Start \/ Pass \/ Informers \/ Others
  \/ (\E delay \in {"backoff", "resync"} : Fire(delay)) \/ Restart

Safety == Init /\ [][Next]_vars

\* Calls end, informers deliver, a waiting key is taken and a backoff comes
\* due; the garbage collector and the sync controller do their part.
DeliveryFairness ==
  /\ WF_vars(Start) /\ WF_vars(DeliverPolicy)
  /\ WF_vars(Fire("backoff"))
  /\ \A n \in Names : /\ WF_vars(DeliverSync(n)) /\ WF_vars(DeliverCert(n))
                      /\ WF_vars(ReleaseSync(n)) /\ WF_vars(Collect(n))
  /\ \A s \in Sources : WF_vars(DeliverRoutes(s))

EventFairness == WF_vars(Pass) /\ DeliveryFairness

\* Nothing but the resync sees a missing Certificate or a new CRD.
ResyncFairness == WF_vars(Fire("resync"))

EventSpec == Safety /\ EventFairness

-----------------------------------------------------------------------------
(***************************************************************************)
(* Properties                                                              *)
(***************************************************************************)
Covered(host) ==
  \E n \in Names : certs[n] # None /\ \E d \in certs[n] : Covers(d, host)

Steps == {"idle", "adopt", "list", "plan", "probe", "cert", "sync", "pruneSyncs",
          "pruneCerts", "report", "finalize"}

TypeOK ==
  /\ policy.spec \in Specs /\ policy.status.ready \in Reasons
  /\ policy.status.discoveredAt \in 0..now
  /\ policy.deleting => policy.exists /\ policy.finalizer
  /\ \A n \in Names : /\ certs[n] = None \/ certs[n] \in (SUBSET DnsName) \ {{}}
                      /\ syncs[n] = None \/ syncs[n].target \in Targets
  /\ \A s \in Sources : s \notin watched => routeCache[s] = {}
  /\ stale \in BOOLEAN /\ unseen \subseteq Names /\ worker.step \in Steps
  /\ worker.step \in {"probe", "cert", "sync", "pruneSyncs", "pruneCerts"} => worker.plan.ok
  /\ worker.step = "sync" => worker.todo # {}
  /\ worker.todo # {} => worker.todo \subseteq worker.plan.certificates
  /\ worker.doomed # {} => worker.doomed \cap PlannedNames(worker.plan) = {}

\* From listing what exists to the status write the policy is there and
\* carries the finalizer: nothing is created for a policy whose garbage has
\* been collected already.
PassUnderFinalizer ==
  worker.step \notin {"idle", "adopt", "finalize"} => policy.exists /\ policy.finalizer

\* Pruning never takes the last Certificate that covers a host the pass saw,
\* or one of a source the policy requires and the operator cannot watch.
\* Hosts the plan reports as skipped are not promised, and a Certificate the
\* pass only believed in, from a stale copy, does not count.
Promised(w) ==
  {h \in w.hosts \cup UNION {routes[s] : s \in {k \in GatewayKinds \ watched :
                                               w.object.spec.discovery[k] = "on"}} :
     /\ \A s \in w.plan.skipped : ~Covers(s.host, h)
     /\ \A c \in w.plan.certificates :
          (\E d \in c.names : Covers(d, h)) => c.name \notin unsure}

PruneKeepsCoverage ==
  [][worker.step = "pruneCerts" /\ worker' # worker =>
       \A h \in Promised(worker) : Covered(h) => Covered(h)']_vars

\* What the policy asks for now.
TrueHosts ==
  UNION {routes[s] : s \in {s \in watched : policy.spec.discovery[s] # "off"}}
TruePlan == PlanFor(policy.spec, TrueHosts, Generated(syncs))

\* The cluster is what the policy asks for, but for the Certificates in
\* doubt, and the status says so.
SettledExcept(doubt) ==
  LET spec == policy.spec
      plan == TruePlan
      planned == PlannedNames(plan)
      withheld == PruneWithheld(spec, plan)
  IN IF ~spec.sound \/ ~plan.ok THEN policy.status.ready = "ConfigInvalid"
     ELSE /\ policy.status.plan = plan
          /\ \A c \in plan.certificates :
               /\ c.name \in doubt \/ certs[c.name] = c.names
               /\ syncs[c.name] = [target |-> spec.target, deleting |-> FALSE]
          /\ spec.prune /\ ~withheld =>
               Generated(syncs) \cup (Generated(certs) \ doubt) \subseteq planned
          /\ policy.status.ready =
               IF spec.prune /\ withheld /\ ~(Generated(syncs) \subseteq planned)
                 THEN "PruneWithheld" ELSE "Synced"

Awaiting == policy.status.ready = "CertManagerMissing"

Quiet ==
  /\ ~queued /\ timer # "backoff" /\ worker.step = "idle"
  /\ ~stale /\ certCache = certs /\ unseen = {}
  /\ \A s \in watched : routeCache[s] = routes[s]
  /\ \A n \in Generated(syncs) : ~syncs[n].deleting

\* No event is lost: when nothing is pending for the policy (a deletion under
\* way will still make an event), the cluster is
\* what it asks for, except what no event tells: the cert-manager CRD, and
\* Certificates the last pass could not see as they were.
NoLostWakeup ==
  Quiet /\ policy.exists /\ ~policy.deleting /\ ~Awaiting => SettledExcept(unsure)

\* With the resync nothing is excepted: every policy is eventually settled,
\* or waits for the cert-manager CRD, which is really missing.
Converges ==
  ResyncFairness =>
    <>[](policy.exists /\ ~policy.deleting =>
         IF certManager \/ ~Awaiting THEN SettledExcept({})
         ELSE policy.status.plan = TruePlan)

\* The controller comes to rest until the next resync.
Rests == /\ worker.step = "idle" /\ ~queued /\ timer # "backoff"
         /\ ~stale /\ unseen = {}
NoResync == [][~Fire("resync")]_vars

\* Nothing spins.  When no resync comes due any more, the passes, the events
\* of what they write (a status with a time in it, and objects the policy owns,
\* on which the next plan depends) and the backoffs run out.
EventsRunDry == <>NoResync => <>[]Rests

\* A policy being deleted goes, and so does what it generated.
DeletionCompletes ==
  policy.exists /\ policy.deleting ~>
    ~policy.exists /\ Generated(certs) = {} /\ Generated(syncs) = {}

\* "At the cap, certificates that already exist keep their slot and the new
\* one overflows": when a plan is made, what it leaves out at the cap gives
\* way only to certificates that exist.
ExistingKeepSlot ==
  [][worker.step = "plan" /\ worker'.step = "probe" =>
       \A n \in Generated(syncs) :
         (\E s \in worker'.plan.skipped :
            s.reason = "MaxCertificates" /\ certs[n] # None /\ s.host \in certs[n])
           => PlannedNames(worker'.plan) \subseteq Generated(syncs)]_vars

=============================================================================
