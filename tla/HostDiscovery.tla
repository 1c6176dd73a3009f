--------------------------- MODULE HostDiscovery ---------------------------
(***************************************************************************)
(* HostSource of internal/infra/kube/hostsource.go inside the policy        *)
(* controller's loop: which hostnames a pass finds in the Ingresses,        *)
(* HTTPRoutes and Gateways of the selected namespaces, and what that does   *)
(* to the certificates of a policy that prunes.                             *)
(*                                                                         *)
(* WildcardPolicy reads all hosts at once.  Here Hosts is what it is, one   *)
(* List after another over informers that are not ordered with each other,  *)
(* and namespaces have labels; what follows a discovery is a single action, *)
(* with a certificate for every host.                                       *)
(***************************************************************************)
EXTENDS Sequences, FiniteSets, Naturals

CONSTANTS
  Hosts,        \* hostnames
  Namespaces,
  Objects,      \* Ingresses, HTTPRoutes and Gateways
  KindOf,       \* [Objects -> Kinds]
  NamespaceOf,  \* [Objects -> Namespaces]
  ParentOf,     \* the Gateway a route is attached to, for the HTTPRoutes
  Contents,     \* [Objects -> sets of Content], what each may state
  None,         \* an absent object; a listener without a hostname
  Enabled,      \* the kinds discovery is enabled for, in the order listed
  Selecting,    \* the policy has a namespaceSelector
  MaxChanges, MaxRelabels, MaxFaults, MaxRestarts  \* bounds

Kinds == {"ingress", "httpRoute", "gateway"}

\* What an object states: the hosts of an Ingress' rules, a route's hostnames
\* or a Gateway's listeners; and the hosts of an Ingress' TLS blocks.
Content == [hosts : SUBSET (Hosts \cup {None}), tls : SUBSET Hosts]

ASSUME NoneAssumption == None \notin Hosts /\ None \notin Content
ASSUME ObjectsAssumption ==
  /\ KindOf \in [Objects -> Kinds] /\ NamespaceOf \in [Objects -> Namespaces]
  /\ \A o \in Objects : Contents[o] \subseteq Content \cup {None}
  /\ Enabled \in Seq(Kinds) /\ Selecting \in BOOLEAN
ASSUME BoundsAssumption ==
  MaxChanges \in Nat /\ MaxRelabels \in Nat /\ MaxFaults \in Nat /\ MaxRestarts \in Nat

VARIABLES
  objects,     \* the objects at the API server
  cache,       \* the informers' copies of them
  matching,    \* the namespaces whose labels match the selector
  matchCache,  \* the namespaces the informer shows to match it
  worker,      \* the pass in progress
  queued,      \* the policy's key waits to be reconciled
  timer,       \* a delayed requeue: "none", "backoff" or "resync"
  discovered,  \* the hosts the last complete pass found
  issued,      \* the hosts the policy's Certificates are for
  unseen,      \* namespaces relabelled since a pass last began
  steady,      \* history: <<object, host>> stated all through the pass
  routed,      \* history: hosts routed ever since the last pass concluded
  spent        \* how much of each bound has been used

vars == <<objects, cache, matching, matchCache, worker, queued, timer, discovered,
          issued, unseen, steady, routed, spent>>
found == <<discovered, issued>>
schedule == <<queued, timer>>

Worker == [step : {"idle", "namespaces", "hosts"}, todo : Seq(Kinds),
           allowed : SUBSET Namespaces, seen : SUBSET Hosts]
Idle == [step |-> "idle", todo |-> <<>>, allowed |-> {}, seen |-> {}]
Spend(kind, bound) == spent[kind] < bound /\ spent' = [spent EXCEPT ![kind] = @ + 1]

-----------------------------------------------------------------------------
(***************************************************************************)
(* What is routed, and what has been all along                             *)
(***************************************************************************)
InScope(o, namespaces) == ~Selecting \/ NamespaceOf[o] \in namespaces

\* The hosts an object states, or nothing if there is none.
StatedBy(copy, o) ==
  IF copy[o] = None THEN {} ELSE (copy[o].hosts \cup copy[o].tls) \ {None}

Sources == {o \in Objects : \E i \in DOMAIN Enabled : Enabled[i] = KindOf[o]}

\* The hosts the cluster states, in the policy's scope.
Routed == UNION {StatedBy(objects, o) : o \in {o \in Sources : InScope(o, matching)}}

\* What object and informer, labels and their copy agree upon.
Settled(o) == o \in Sources /\ InScope(o, matching) /\ InScope(o, matchCache)
Stated == UNION {{o} \X (StatedBy(objects, o) \cap StatedBy(cache, o)) :
                   o \in {o \in Sources : Settled(o)}}

Watch == steady' = steady \cap Stated' /\ routed' = routed \cap Routed'

-----------------------------------------------------------------------------
(***************************************************************************)
(* One pass: Hosts, one List at a time, from the informers                 *)
(***************************************************************************)
Start ==
  /\ worker.step = "idle" /\ queued
  /\ worker' = [Idle EXCEPT !.step = "namespaces"]
  /\ queued' = FALSE
  /\ unseen' = {n \in Namespaces : (n \in matching) # (n \in matchCache)}
  /\ steady' = Stated
  /\ UNCHANGED <<objects, cache, matching, matchCache, timer, found, routed, spent>>

\* allowedNamespaces: all of them, or those the selector selects.
ListNamespaces ==
  /\ worker.step = "namespaces"
  /\ worker' = [worker EXCEPT !.step = "hosts", !.todo = Enabled,
                  !.allowed = IF Selecting THEN matchCache ELSE Namespaces]
  /\ UNCHANGED <<objects, cache, matching, matchCache, schedule, found, unseen, steady,
                 routed, spent>>

\* A fault: the hosts of an Ingress are those of its rules.
HostsOf_RulesOnly(content) == content.hosts \ {None}

\* A fault: a listener without a hostname adds the empty name.
HostsOf_Nameless(content) == content.hosts \cup content.tls

\* add: every host of rules, TLS blocks, hostnames and listeners; a listener
\* without a hostname has none to add.
HostsOf(content) == (content.hosts \cup content.tls) \ {None}

\* The hosts of one kind, in the namespaces allowed.
HostsOfKind(kind) ==
  UNION {HostsOf(cache[o]) : o \in {o \in Objects : /\ KindOf[o] = kind
                                                    /\ cache[o] # None
                                                    /\ NamespaceOf[o] \in worker.allowed}}

ListKind ==
  /\ worker.step = "hosts" /\ worker.todo # <<>>
  /\ worker' = [worker EXCEPT !.todo = Tail(@),
                              !.seen = @ \cup HostsOfKind(Head(worker.todo))]
  /\ UNCHANGED <<objects, cache, matching, matchCache, schedule, found, unseen, steady,
                 routed, spent>>

\* A fault: a List that fails contributes nothing, and the pass goes on.
ListFails_Tolerated ==
  /\ worker.step = "hosts" /\ worker.todo # <<>>
  /\ Spend("faults", MaxFaults)
  /\ worker' = [worker EXCEPT !.todo = Tail(@)]
  /\ UNCHANGED <<objects, cache, matching, matchCache, schedule, found, unseen, steady,
                 routed>>

\* A List fails: there is no plan, nothing is pruned, and the pass is retried.
ListFails ==
  /\ \/ worker.step = "namespaces" /\ Selecting
     \/ worker.step = "hosts" /\ worker.todo # <<>>
  /\ Spend("faults", MaxFaults)
  /\ worker' = Idle /\ timer' = "backoff"
  /\ UNCHANGED <<objects, cache, matching, matchCache, queued, found, unseen, steady,
                 routed>>

\* A fault: the certificates of hosts that are gone stay.
Conclude_PrunesNothing ==
  /\ worker.step = "hosts" /\ worker.todo = <<>>
  /\ discovered' = worker.seen
  /\ issued' = issued \cup worker.seen
  /\ worker' = Idle
  /\ timer' = IF timer = "backoff" THEN timer ELSE "resync"
  /\ routed' = Routed
  /\ UNCHANGED <<objects, cache, matching, matchCache, queued, unseen, steady, spent>>

\* What follows the discovery: every host found gets its Certificate, and
\* those of no host found are pruned, unless nothing was found at all.
Conclude ==
  /\ worker.step = "hosts" /\ worker.todo = <<>>
  /\ discovered' = worker.seen
  /\ issued' = IF worker.seen = {} THEN issued ELSE worker.seen
  /\ worker' = Idle
  /\ timer' = IF timer = "backoff" THEN timer ELSE "resync"
  /\ routed' = Routed
  /\ UNCHANGED <<objects, cache, matching, matchCache, queued, unseen, steady,
                 spent>>

-----------------------------------------------------------------------------
(***************************************************************************)
(* Informers, timers, restarts                                             *)
(***************************************************************************)
\* A fault: Gateways are read and not watched.
Deliver_NoGateways(o) ==
  /\ cache[o] # objects[o] /\ cache' = [cache EXCEPT ![o] = objects[o]]
  /\ queued' = (queued \/ KindOf[o] # "gateway")
  /\ UNCHANGED <<objects, matching, matchCache, worker, timer, found, unseen, spent>>
  /\ Watch

\* enqueueAllPolicies: an event of any of the three kinds wakes the policy.
Deliver(o) ==
  /\ cache[o] # objects[o] /\ cache' = [cache EXCEPT ![o] = objects[o]]
  /\ queued' = TRUE
  /\ UNCHANGED <<objects, matching, matchCache, worker, timer, found, unseen, spent>>
  /\ Watch

\* Namespaces have an informer, because they are read, but no handler.
DeliverLabels ==
  /\ matchCache # matching /\ matchCache' = matching
  /\ UNCHANGED <<objects, cache, matching, worker, schedule, found, unseen, spent>>
  /\ Watch

Fire(delay) ==
  /\ timer = delay /\ timer' = "none" /\ queued' = TRUE
  /\ UNCHANGED <<objects, cache, matching, matchCache, worker, found, unseen, steady,
                 routed, spent>>

Restart ==
  /\ Spend("restarts", MaxRestarts)
  /\ cache' = objects /\ matchCache' = matching
  /\ worker' = Idle /\ queued' = TRUE /\ timer' = "none"
  /\ UNCHANGED <<objects, matching, found, unseen>>
  /\ Watch

\* Somebody creates, changes or deletes an object.
Change(o, content) ==
  /\ Spend("changes", MaxChanges)
  /\ objects[o] # content /\ objects' = [objects EXCEPT ![o] = content]
  /\ UNCHANGED <<cache, matching, matchCache, worker, schedule, found, unseen>>
  /\ Watch

\* Somebody labels a namespace so that it matches, or no longer does.
Relabel(n) ==
  /\ Spend("relabels", MaxRelabels)
  /\ matching' = IF n \in matching THEN matching \ {n} ELSE matching \cup {n}
  /\ unseen' = unseen \cup {n}
  /\ UNCHANGED <<objects, cache, matchCache, worker, schedule, found>>
  /\ Watch

-----------------------------------------------------------------------------
\* What the objects may be, all of them together.
World == {f \in [Objects -> UNION {Contents[o] : o \in Objects}] :
            \A o \in Objects : f[o] \in Contents[o]}

Init ==
  /\ objects \in World
  /\ cache = objects
  /\ matching \in SUBSET Namespaces /\ matchCache = matching
  /\ worker = Idle /\ queued = TRUE /\ timer = "none"
  /\ discovered = {} /\ issued = {}
  /\ unseen = {} /\ steady = {} /\ routed = Routed
  /\ spent = [changes |-> 0, relabels |-> 0, faults |-> 0, restarts |-> 0]

Pass == Start \/ ListNamespaces \/ ListKind \/ ListFails \/ Conclude

Next ==
  \/ Pass
  \/ (\E o \in Objects : Deliver(o) \/ \E content \in Contents[o] : Change(o, content))
  \/ DeliverLabels
  \/ (\E n \in Namespaces : Relabel(n))
  \/ (\E delay \in {"backoff", "resync"} : Fire(delay)) \/ Restart

Safety == Init /\ [][Next]_vars

\* Lists end, informers deliver, and both timers come due.
Spec == /\ Safety /\ WF_vars(Pass) /\ WF_vars(DeliverLabels)
        /\ \A o \in Objects : WF_vars(Deliver(o))
        /\ WF_vars(Fire("backoff")) /\ WF_vars(Fire("resync"))

-----------------------------------------------------------------------------
(***************************************************************************)
(* Properties                                                              *)
(***************************************************************************)
\* Every variable keeps its type, and the histories stay within the cluster.
TypeOK ==
  /\ objects \in World /\ cache \in World
  /\ matching \subseteq Namespaces /\ matchCache \subseteq Namespaces
  /\ worker \in Worker
  /\ discovered \subseteq Hosts /\ issued \subseteq Hosts
  /\ queued \in BOOLEAN /\ timer \in {"none", "backoff", "resync"}
  /\ unseen \subseteq Namespaces
  /\ routed \subseteq Routed /\ steady \subseteq Stated

\* A partial view never prunes: whatever else changes while the Lists are
\* made, and whichever of them fails, the certificate of a host that one
\* object stated all through the pass is kept.
SteadyHostKept ==
  [][\A fact \in steady : fact[2] \in issued => fact[2] \in issued']_vars

\* No routing change is lost: with nothing pending, the last pass found
\* exactly what the cluster states, except for namespaces relabelled since,
\* which wake nobody.
Quiet == /\ ~queued /\ worker.step = "idle" /\ timer # "backoff"
         /\ cache = objects /\ matchCache = matching
NoLostRoute == Quiet /\ (Selecting => unseen = {}) => discovered = Routed

\* With the resync labels are followed too, and so are the certificates,
\* which only ever stay when nothing is found at all.
Converges ==
  <>[](discovered = Routed /\ (Routed # {} => issued = Routed))

-----------------------------------------------------------------------------
(***************************************************************************)
(* Claims of the documentation and comments that the code does not keep.   *)
(***************************************************************************)
\* "Prune also deletes no-longer-required resources": the certificate of a
\* host that has been routed ever since the previous pass is not one of them.
PruneOnlyUnrequired ==
  [][\A h \in routed : h \in issued => h \in issued']_vars

\* "An inherited hostname is by definition one the listener already
\* contributed": what a route in scope inherits is discovered.
InheritedHostsContributed ==
  Quiet /\ (Selecting => unseen = {}) =>
    \A r \in Sources :
      /\ KindOf[r] = "httpRoute" /\ InScope(r, matching)
      /\ objects[r] # None /\ objects[r].hosts = {}
      => StatedBy(objects, ParentOf[r]) \subseteq discovered

=============================================================================
