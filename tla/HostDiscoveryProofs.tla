------------------------ MODULE HostDiscoveryProofs ------------------------
(***************************************************************************)
(* Theorems about HostDiscovery, for every set of objects, namespaces and   *)
(* hosts, any order of the kinds and no bound on what happens.              *)
(***************************************************************************)
EXTENDS HostDiscovery, TLAPS

-----------------------------------------------------------------------------
(***************************************************************************)
(* The invariants                                                          *)
(***************************************************************************)
\* A kind that is still to be listed.
Pending(kind) == \E j \in DOMAIN worker.todo : worker.todo[j] = kind

\* Unless a namespace was relabelled after the pass began, the labels, their
\* copy and the namespaces of the pass agree on it.
ScopeInv ==
  /\ \A n \in Namespaces \ unseen : n \in matching <=> n \in matchCache
  /\ worker.step = "hosts" =>
       IF Selecting
         THEN \A n \in Namespaces \ unseen : n \in worker.allowed <=> n \in matching
         ELSE worker.allowed = Namespaces

\* While nothing has changed the caches since the pass began, it has seen
\* what they hold of the kinds it has listed, and nothing else.
SeenInv ==
  /\ worker.step = "namespaces" => worker.seen = {}
  /\ worker.step = "hosts" /\ ~queued =>
       /\ \A h \in worker.seen : \E o \in Sources :
            NamespaceOf[o] \in worker.allowed /\ h \in StatedBy(cache, o)
       /\ \A o \in Sources : ~Pending(KindOf[o]) /\ NamespaceOf[o] \in worker.allowed
            => StatedBy(cache, o) \subseteq worker.seen

\* Every kind that is still to be listed is one discovery is enabled for.
TodoInv ==
  worker.step = "hosts" =>
    \A kind \in Kinds : Pending(kind) => \E j \in DOMAIN Enabled : Enabled[j] = kind

\* With nothing pending, the hosts found are those of the caches.
FoundInv ==
  ~queued /\ worker.step = "idle" /\ timer # "backoff" /\ (Selecting => unseen = {}) =>
    \A h \in Hosts : h \in discovered <=>
      \E o \in Sources : InScope(o, matching) /\ h \in StatedBy(cache, o)

\* What was stated since before the pass is in its scope, and found as soon as
\* its kind has been listed.
SteadyInv ==
  worker.step = "hosts" =>
    \A fact \in steady : /\ NamespaceOf[fact[1]] \in worker.allowed
                         /\ Pending(KindOf[fact[1]]) \/ fact[2] \in worker.seen

-----------------------------------------------------------------------------
(***************************************************************************)
(* What is stated, element by element                                      *)
(***************************************************************************)
LEMMA HostsStated ==
  ASSUME NEW copy \in World, NEW o \in Objects
  PROVE  /\ StatedBy(copy, o) \subseteq Hosts
         /\ copy[o] = None \/ StatedBy(copy, o) = HostsOf(copy[o])
         /\ copy[o] = None => StatedBy(copy, o) = {}
<1>1. copy[o] \in Content \cup {None}
  BY ObjectsAssumption DEF World
<1> QED
  BY <1>1, NoneAssumption DEF StatedBy, HostsOf, Content

LEMMA RoutedElements ==
  ASSUME NEW h
  PROVE  h \in Routed <=> \E o \in Sources : InScope(o, matching) /\ h \in StatedBy(objects, o)
BY DEF Routed

LEMMA StatedElements ==
  ASSUME NEW fact \in Stated
  PROVE  /\ fact[1] \in Sources /\ Settled(fact[1])
         /\ fact[2] \in StatedBy(cache, fact[1])
BY DEF Stated

LEMMA ListedElements ==
  ASSUME cache \in World, NEW kind, NEW h
  PROVE  h \in HostsOfKind(kind) <=>
           \E o \in Objects : /\ KindOf[o] = kind /\ NamespaceOf[o] \in worker.allowed
                              /\ h \in StatedBy(cache, o)
<1>1. \A o \in Objects : /\ cache[o] = None \/ StatedBy(cache, o) = HostsOf(cache[o])
                         /\ cache[o] = None => StatedBy(cache, o) = {}
  BY HostsStated
<1> QED
  BY <1>1 DEF HostsOfKind

\* Listing a kind takes it off the kinds to be listed.
LEMMA PendingTail ==
  ASSUME NEW todo \in Seq(Kinds), todo # <<>>
  PROVE  /\ Head(todo) \in Kinds /\ Tail(todo) \in Seq(Kinds)
         /\ \A kind : (\E j \in DOMAIN todo : todo[j] = kind) <=>
                        kind = Head(todo) \/ \E j \in DOMAIN Tail(todo) : Tail(todo)[j] = kind
<1>1. /\ Head(todo) = todo[1] /\ Tail(todo) \in Seq(Kinds) /\ Head(todo) \in Kinds
      /\ Len(todo) \in Nat /\ Len(todo) > 0 /\ DOMAIN todo = 1..Len(todo)
      /\ DOMAIN Tail(todo) = 1..(Len(todo) - 1)
      /\ \A j \in 1..(Len(todo) - 1) : Tail(todo)[j] = todo[j + 1]
  OBVIOUS
<1>2. ASSUME NEW kind, NEW j \in DOMAIN todo, todo[j] = kind
      PROVE  kind = Head(todo) \/ \E k \in DOMAIN Tail(todo) : Tail(todo)[k] = kind
  <2>1. CASE j = 1
    BY <1>1, <1>2, <2>1
  <2>2. CASE j # 1
    <3>1. j - 1 \in DOMAIN Tail(todo) /\ Tail(todo)[j - 1] = todo[j]
      BY <1>1, <2>2
    <3> QED
      BY <1>2, <3>1
  <2> QED
    BY <2>1, <2>2
<1>3. ASSUME NEW kind, NEW j \in DOMAIN Tail(todo), Tail(todo)[j] = kind
      PROVE  \E k \in DOMAIN todo : todo[k] = kind
  <2>1. j + 1 \in DOMAIN todo /\ todo[j + 1] = kind
    BY <1>1, <1>3
  <2> QED
    BY <2>1
<1>4. 1 \in DOMAIN todo
  BY <1>1
<1> QED
  BY <1>1, <1>2, <1>3, <1>4

-----------------------------------------------------------------------------
(***************************************************************************)
(* Types                                                                   *)
(***************************************************************************)
LEMMA ViewsKept ==
  /\ UNCHANGED <<objects, matching>> => Routed' = Routed
  /\ UNCHANGED <<objects, cache, matching, matchCache>> => Stated' = Stated
BY DEF Routed, Stated, Settled

LEMMA TypeInit == Init => TypeOK
<1> SUFFICES ASSUME Init PROVE TypeOK
  OBVIOUS
<1>1. worker \in Worker
  BY DEF Init, Worker, Idle
<1> QED
  BY <1>1 DEF Init, TypeOK

LEMMA TypePass ==
  ASSUME TypeOK, Pass
  PROVE  TypeOK'
<1>1. UNCHANGED <<objects, cache, matching, matchCache>>
  BY DEF Pass, Start, ListNamespaces, ListKind, ListFails, Conclude
<1>2. Routed' = Routed /\ Stated' = Stated
  BY <1>1, ViewsKept
<1>3. Idle \in Worker
  BY DEF Idle, Worker
<1>4. CASE Start
  <2>1. worker' \in Worker
    BY <1>3, <1>4 DEF Start, Worker
  <2> QED
    BY <1>1, <1>2, <1>4, <2>1 DEF Start, TypeOK, found
<1>5. CASE ListNamespaces
  <2>1. worker' \in Worker
    BY <1>5, ObjectsAssumption DEF ListNamespaces, TypeOK, Worker
  <2> QED
    BY <1>1, <1>2, <1>5, <2>1 DEF ListNamespaces, TypeOK, found, schedule
<1>6. CASE ListKind
  <2>1. HostsOfKind(Head(worker.todo)) \subseteq Hosts
    BY HostsStated, ListedElements DEF TypeOK
  <2>2. Tail(worker.todo) \in Seq(Kinds)
    BY <1>6, PendingTail DEF ListKind, TypeOK, Worker
  <2>3. worker' \in Worker
    BY <1>6, <2>1, <2>2 DEF ListKind, TypeOK, Worker
  <2> QED
    BY <1>1, <1>2, <1>6, <2>3 DEF ListKind, TypeOK, found, schedule
<1>7. CASE ListFails
  BY <1>1, <1>2, <1>3, <1>7 DEF ListFails, TypeOK, found
<1>8. CASE Conclude
  <2>1. worker.seen \subseteq Hosts
    BY DEF TypeOK, Worker
  <2> QED
    BY <1>1, <1>2, <1>3, <1>8, <2>1 DEF Conclude, TypeOK
<1> QED
  BY <1>4, <1>5, <1>6, <1>7, <1>8 DEF Pass

\* A delivery, a change or a restart leaves the objects what objects can be.
LEMMA WorldKept ==
  ASSUME NEW copy \in World, NEW o \in Objects, NEW content \in Contents[o]
  PROVE  [copy EXCEPT ![o] = content] \in World
BY DEF World

LEMMA TypeAround ==
  ASSUME TypeOK,
         \/ \E o \in Objects : Deliver(o) \/ \E content \in Contents[o] : Change(o, content)
         \/ DeliverLabels \/ Restart
         \/ \E n \in Namespaces : Relabel(n)
  PROVE  TypeOK'
<1>1. routed' \subseteq Routed' /\ steady' \subseteq Stated'
  BY DEF Deliver, Change, DeliverLabels, Restart, Relabel, Watch
<1>2. objects' \in World /\ cache' \in World
  <2>1. CASE \E o \in Objects : Deliver(o)
    <3>1. PICK o \in Objects : Deliver(o)
      BY <2>1
    <3>2. objects[o] \in Contents[o]
      BY DEF TypeOK, World
    <3> QED
      BY <3>1, <3>2, WorldKept DEF Deliver, TypeOK
  <2>2. CASE \E o \in Objects : \E content \in Contents[o] : Change(o, content)
    <3>1. PICK o \in Objects : \E content \in Contents[o] : Change(o, content)
      BY <2>2
    <3>2. PICK content \in Contents[o] : Change(o, content)
      BY <3>1
    <3>3. objects' = [objects EXCEPT ![o] = content] /\ cache' = cache
      BY <3>2 DEF Change
    <3> QED
      BY <3>3, WorldKept DEF TypeOK
  <2>3. CASE DeliverLabels \/ Restart \/ \E n \in Namespaces : Relabel(n)
    BY <2>3 DEF DeliverLabels, Restart, Relabel, TypeOK
  <2> QED
    BY <2>1, <2>2, <2>3
<1>3. matching' \subseteq Namespaces /\ matchCache' \subseteq Namespaces
  BY DEF Deliver, Change, DeliverLabels, Restart, Relabel, TypeOK
<1>4. worker' \in Worker
  <2>1. Idle \in Worker
    BY DEF Idle, Worker
  <2>2. worker' = worker \/ worker' = Idle
    BY DEF Deliver, Change, DeliverLabels, Restart, Relabel
  <2> QED
    BY <2>1, <2>2 DEF TypeOK
<1>5. discovered' = discovered /\ issued' = issued
  BY DEF Deliver, Change, DeliverLabels, Restart, Relabel, found
<1>6. /\ queued' \in BOOLEAN /\ timer' \in {"none", "backoff", "resync"}
      /\ unseen' \subseteq Namespaces
  BY DEF Deliver, Change, DeliverLabels, Restart, Relabel, TypeOK, schedule
<1> QED
  BY <1>1, <1>2, <1>3, <1>4, <1>5, <1>6 DEF TypeOK

LEMMA TypeNext == TypeOK /\ [Next]_vars => TypeOK'
<1> SUFFICES ASSUME TypeOK, [Next]_vars PROVE TypeOK'
  OBVIOUS
<1>1. CASE \E delay \in {"backoff", "resync"} : Fire(delay)
  <2>1. UNCHANGED <<objects, cache, matching, matchCache>>
    BY <1>1 DEF Fire
  <2>2. Routed' = Routed /\ Stated' = Stated
    BY <2>1, ViewsKept
  <2> QED
    BY <1>1, <2>1, <2>2 DEF Fire, TypeOK, found
<1>2. CASE UNCHANGED vars
  <2>1. Routed' = Routed /\ Stated' = Stated
    BY <1>2, ViewsKept DEF vars
  <2> QED
    BY <1>2, <2>1 DEF vars, TypeOK
<1> QED
  BY <1>1, <1>2, TypePass, TypeAround DEF Next

\* TypeOK: in particular the histories stay within what the cluster states.
THEOREM TypeCorrect == Safety => []TypeOK
BY TypeInit, TypeNext, PTL DEF Safety

-----------------------------------------------------------------------------
(***************************************************************************)
(* NoLostRoute                                                             *)
(***************************************************************************)
\* The steps that are not of a pass, and what each of them leaves alone.
LEMMA Around ==
  ASSUME Next, ~Pass
  PROVE  \/ \E o \in Objects : Deliver(o)
         \/ Restart
         \/ \E delay \in {"backoff", "resync"} : Fire(delay)
         \/ \E o \in Objects : \E content \in Contents[o] : Change(o, content)
         \/ DeliverLabels
         \/ \E n \in Namespaces : Relabel(n)
BY DEF Next

LEMMA ScopeNext ==
  ASSUME TypeOK, ScopeInv, [Next]_vars
  PROVE  ScopeInv'
<1>1. CASE Start
  BY <1>1 DEF Start, ScopeInv
<1>2. CASE ListNamespaces
  BY <1>2 DEF ListNamespaces, ScopeInv, TypeOK, Worker
<1>3. CASE ListKind
  <2>1. worker'.step = worker.step /\ worker'.allowed = worker.allowed
    BY <1>3 DEF ListKind, TypeOK, Worker
  <2> QED
    BY <1>3, <2>1 DEF ListKind, ScopeInv
<1>4. CASE ListFails \/ Conclude
  BY <1>4 DEF ListFails, Conclude, Idle, ScopeInv
<1>5. CASE \E n \in Namespaces : Relabel(n)
  BY <1>5 DEF Relabel, ScopeInv
<1>6. CASE DeliverLabels
  BY <1>6 DEF DeliverLabels, ScopeInv
<1>7. CASE Restart
  BY <1>7 DEF Restart, Idle, ScopeInv
<1>8. CASE UNCHANGED <<worker, matching, matchCache, unseen>>
  BY <1>8 DEF ScopeInv
<1>9. (\E o \in Objects : Deliver(o) \/ \E content \in Contents[o] : Change(o, content))
        \/ (\E delay \in {"backoff", "resync"} : Fire(delay)) \/ UNCHANGED vars
      => UNCHANGED <<worker, matching, matchCache, unseen>>
  BY DEF Deliver, Change, Fire, vars
<1> QED
  BY <1>1, <1>2, <1>3, <1>4, <1>5, <1>6, <1>7, <1>8, <1>9 DEF Next, Pass

LEMMA TodoNext ==
  ASSUME TypeOK, TodoInv, [Next]_vars
  PROVE  TodoInv'
<1>1. CASE ListNamespaces
  BY <1>1 DEF ListNamespaces, TodoInv, Pending, TypeOK, Worker
<1>2. CASE ListKind
  <2>1. worker.todo \in Seq(Kinds) /\ worker.todo # <<>> /\ worker.step = "hosts"
    BY <1>2 DEF ListKind, TypeOK, Worker
  <2>2. worker'.todo = Tail(worker.todo)
    BY <1>2 DEF ListKind, TypeOK, Worker
  <2>3. \A kind : Pending(kind)' => Pending(kind)
    BY <2>1, <2>2, PendingTail DEF Pending
  <2> QED
    BY <2>1, <2>3 DEF TodoInv
<1>3. CASE Start \/ ListFails \/ Conclude \/ Restart
  BY <1>3 DEF Start, ListFails, Conclude, Restart, Idle, TodoInv
<1>4. CASE UNCHANGED worker
  BY <1>4 DEF TodoInv, Pending
<1>5. Next /\ ~Pass /\ ~Restart => UNCHANGED worker
  BY Around DEF Deliver, Fire, Change, DeliverLabels, Relabel
<1> QED
  BY <1>1, <1>2, <1>3, <1>4, <1>5 DEF Pass, vars

LEMMA SeenNext ==
  ASSUME TypeOK, TodoInv, SeenInv, [Next]_vars
  PROVE  SeenInv'
<1>1. CASE ListNamespaces
  <2>1. worker'.seen = worker.seen /\ worker'.todo = Enabled
    BY <1>1 DEF ListNamespaces, TypeOK, Worker
  <2>2. worker.step = "namespaces" /\ worker'.step = "hosts" /\ worker.seen = {}
    BY <1>1 DEF ListNamespaces, SeenInv, TypeOK, Worker
  <2>3. \A o \in Sources : Pending(KindOf[o])'
    BY <2>1 DEF Pending, Sources
  <2> QED
    BY <2>1, <2>2, <2>3 DEF SeenInv
<1>2. CASE ListKind
  <2>1. worker.todo \in Seq(Kinds) /\ worker.todo # <<>> /\ worker.step = "hosts"
    BY <1>2 DEF ListKind, TypeOK, Worker
  <2>2. /\ worker'.todo = Tail(worker.todo) /\ worker'.step = "hosts"
        /\ worker'.seen = worker.seen \cup HostsOfKind(Head(worker.todo))
        /\ worker'.allowed = worker.allowed /\ cache' = cache /\ queued' = queued
    BY <1>2, <2>1 DEF ListKind, TypeOK, Worker, schedule
  <2>3. \A kind : Pending(kind) <=> kind = Head(worker.todo) \/ Pending(kind)'
    <3>1. \A kind : (\E k \in DOMAIN worker.todo : worker.todo[k] = kind) <=>
                     \/ kind = Head(worker.todo)
                     \/ \E k \in DOMAIN Tail(worker.todo) : Tail(worker.todo)[k] = kind
      BY <2>1, PendingTail
    <3>2. \A kind : Pending(kind)' <=>
                     \E k \in DOMAIN Tail(worker.todo) : Tail(worker.todo)[k] = kind
      BY <2>2 DEF Pending
    <3> QED
      BY <3>1, <3>2 DEF Pending
  <2>4. Head(worker.todo) \in Kinds /\ Pending(Head(worker.todo))
    BY <2>1, <2>3, PendingTail
  <2>5. PICK j \in DOMAIN Enabled : Enabled[j] = Head(worker.todo)
    BY <2>1, <2>4 DEF TodoInv
  <2>6. \A o \in Objects : KindOf[o] = Head(worker.todo) => o \in Sources
    BY <2>5 DEF Sources
  <2>7. \A h : h \in HostsOfKind(Head(worker.todo)) <=>
          \E o \in Objects : /\ KindOf[o] = Head(worker.todo)
                             /\ NamespaceOf[o] \in worker.allowed
                             /\ h \in StatedBy(cache, o)
    BY ListedElements DEF TypeOK
  <2>8. Sources \subseteq Objects
    BY DEF Sources
  <2>9. SUFFICES ASSUME ~queued PROVE SeenInv'
    BY <2>2 DEF SeenInv
  <2>10. \A h \in worker'.seen : \E o \in Sources :
           NamespaceOf[o] \in worker.allowed /\ h \in StatedBy(cache, o)
    BY <2>1, <2>2, <2>6, <2>7, <2>9 DEF SeenInv
  <2>11. ASSUME NEW o \in Sources, ~Pending(KindOf[o])', NamespaceOf[o] \in worker.allowed
         PROVE  StatedBy(cache, o) \subseteq worker'.seen
    <3>1. CASE KindOf[o] = Head(worker.todo)
      BY <2>2, <2>7, <2>8, <2>11, <3>1
    <3>2. CASE KindOf[o] # Head(worker.todo)
      <4>1. ~Pending(KindOf[o])
        BY <2>3, <2>11, <3>2
      <4> QED
        BY <2>1, <2>2, <2>9, <2>11, <4>1 DEF SeenInv
    <3> QED
      BY <3>1, <3>2
  <2> QED
    BY <2>2, <2>10, <2>11 DEF SeenInv
<1>3. CASE Start \/ ListFails \/ Conclude \/ Restart
  BY <1>3 DEF Start, ListFails, Conclude, Restart, Idle, SeenInv
<1>4. CASE (\E o \in Objects : Deliver(o)) \/ \E delay \in {"backoff", "resync"} : Fire(delay)
  BY <1>4 DEF Deliver, Fire, SeenInv
<1>5. CASE UNCHANGED <<worker, cache, queued>>
  BY <1>5 DEF SeenInv, Pending
<1>6. DeliverLabels \/ (\E n \in Namespaces : Relabel(n)) \/ UNCHANGED vars
        \/ (\E o \in Objects : \E content \in Contents[o] : Change(o, content))
      => UNCHANGED <<worker, cache, queued>>
  BY DEF DeliverLabels, Relabel, Change, vars, schedule
<1> QED
  BY <1>1, <1>2, <1>3, <1>4, <1>5, <1>6 DEF Next, Pass

\* A pass that concludes has found what the caches hold in its scope.
LEMMA ConcludeFinds ==
  ASSUME TypeOK, ScopeInv, SeenInv, Conclude, ~queued, Selecting => unseen = {}
  PROVE  \A h \in Hosts : h \in worker.seen <=>
           \E o \in Sources : InScope(o, matching) /\ h \in StatedBy(cache, o)
<1>1. worker.step = "hosts" /\ worker.todo = <<>>
  BY DEF Conclude
<1>2. \A kind : ~Pending(kind)
  BY <1>1 DEF Pending
<1>3. \A o \in Sources : NamespaceOf[o] \in Namespaces
  BY ObjectsAssumption DEF Sources
<1>4. \A o \in Sources : NamespaceOf[o] \in worker.allowed <=> InScope(o, matching)
  BY <1>1, <1>3, ObjectsAssumption DEF ScopeInv, InScope
<1>5. \A h \in worker.seen : \E o \in Sources :
        NamespaceOf[o] \in worker.allowed /\ h \in StatedBy(cache, o)
  BY <1>1 DEF SeenInv
<1>6. \A o \in Sources : NamespaceOf[o] \in worker.allowed
        => StatedBy(cache, o) \subseteq worker.seen
  BY <1>1, <1>2 DEF SeenInv
<1> QED
  BY <1>4, <1>5, <1>6

LEMMA FoundNext ==
  ASSUME TypeOK, ScopeInv, SeenInv, FoundInv, [Next]_vars
  PROVE  FoundInv'
<1>1. CASE Conclude
  <2>1. /\ UNCHANGED <<cache, matching, queued, unseen>>
        /\ discovered' = worker.seen
    BY <1>1 DEF Conclude
  <2>2. ~queued /\ (Selecting => unseen = {}) =>
          \A h \in Hosts : h \in worker.seen <=>
            \E o \in Sources : InScope(o, matching) /\ h \in StatedBy(cache, o)
    BY <1>1, ConcludeFinds
  <2> QED
    BY <2>1, <2>2 DEF FoundInv
<1>2. CASE Start \/ ListNamespaces
  BY <1>2 DEF Start, ListNamespaces, TypeOK, Worker, Idle, FoundInv
<1>3. CASE ListKind
  <2>1. worker'.step = "hosts"
    BY <1>3 DEF ListKind, TypeOK, Worker
  <2> QED
    BY <2>1 DEF FoundInv
<1>4. CASE ListFails
  BY <1>4 DEF ListFails, FoundInv
<1>5. CASE \/ \E o \in Objects : Deliver(o)
           \/ \E delay \in {"backoff", "resync"} : Fire(delay)
           \/ Restart
  BY <1>5 DEF Deliver, Fire, Restart, FoundInv
<1>6. CASE \E n \in Namespaces : Relabel(n)
  <2>1. PICK n \in Namespaces : Relabel(n)
    BY <1>6
  <2>2. n \in unseen' /\ UNCHANGED <<cache, worker, queued, timer, discovered>>
    BY <2>1 DEF Relabel, schedule, found
  <2>3. CASE Selecting
    BY <2>2, <2>3 DEF FoundInv
  <2>4. CASE ~Selecting
    BY <2>2, <2>4 DEF FoundInv, InScope
  <2> QED
    BY <2>3, <2>4
<1>7. CASE UNCHANGED <<worker, cache, queued, timer, unseen, matching, discovered>>
  BY <1>7 DEF FoundInv
<1>8. DeliverLabels \/ UNCHANGED vars
        \/ (\E o \in Objects : \E content \in Contents[o] : Change(o, content))
      => UNCHANGED <<worker, cache, queued, timer, unseen, matching, discovered>>
  BY DEF DeliverLabels, Change, vars, schedule, found
<1> QED
  BY <1>1, <1>2, <1>3, <1>4, <1>5, <1>6, <1>7, <1>8 DEF Next, Pass

DiscoveryInv == ScopeInv /\ TodoInv /\ SeenInv /\ FoundInv

\* NoLostRoute: with nothing pending, what was found is what is routed.
THEOREM RoutesFollowed == Safety => []NoLostRoute
<1>1. Init => DiscoveryInv
  BY DEF Init, Idle, DiscoveryInv, ScopeInv, TodoInv, SeenInv, FoundInv
<1>2. TypeOK /\ DiscoveryInv => NoLostRoute
  <2>1. SUFFICES ASSUME TypeOK, FoundInv, Quiet, Selecting => unseen = {}
                 PROVE  discovered = Routed
    BY DEF DiscoveryInv, NoLostRoute
  <2>2. \A h \in Hosts : h \in discovered <=>
          \E o \in Sources : InScope(o, matching) /\ h \in StatedBy(objects, o)
    BY <2>1 DEF FoundInv, Quiet
  <2>3. Routed \subseteq Hosts
    BY <2>1, HostsStated DEF Routed, Sources, TypeOK
  <2>4. discovered \subseteq Hosts
    BY <2>1 DEF TypeOK
  <2>5. \A h : h \in Routed <=>
          \E o \in Sources : InScope(o, matching) /\ h \in StatedBy(objects, o)
    BY RoutedElements
  <2> QED
    BY <2>2, <2>3, <2>4, <2>5
<1>3. (TypeOK /\ DiscoveryInv) /\ [Next]_vars => (TypeOK /\ DiscoveryInv)'
  BY TypeNext, ScopeNext, TodoNext, SeenNext, FoundNext DEF DiscoveryInv
<1> QED
  BY TypeInit, <1>1, <1>2, <1>3, PTL DEF Safety

-----------------------------------------------------------------------------
(***************************************************************************)
(* SteadyHostKept                                                          *)
(***************************************************************************)
LEMMA SteadyNext ==
  ASSUME TypeOK, SteadyInv, [Next]_vars
  PROVE  SteadyInv'
<1>1. CASE ListNamespaces
  <2>1. UNCHANGED <<cache, steady>> /\ steady \subseteq Stated
    BY <1>1 DEF ListNamespaces, TypeOK
  <2>2. /\ worker'.todo = Enabled
        /\ worker'.allowed = IF Selecting THEN matchCache ELSE Namespaces
    BY <1>1 DEF ListNamespaces, TypeOK, Worker
  <2>3. ASSUME NEW fact \in steady
        PROVE  NamespaceOf[fact[1]] \in worker'.allowed /\ Pending(KindOf[fact[1]])'
    <3>1. fact[1] \in Sources /\ InScope(fact[1], matchCache)
      BY <2>1, StatedElements DEF Settled
    <3>2. NamespaceOf[fact[1]] \in Namespaces
      BY <3>1, ObjectsAssumption DEF Sources
    <3> QED
      BY <2>2, <3>1, <3>2 DEF Pending, Sources, InScope
  <2> QED
    BY <2>1, <2>3 DEF SteadyInv
<1>2. CASE ListKind
  <2>1. worker.todo \in Seq(Kinds) /\ worker.todo # <<>> /\ worker.step = "hosts"
    BY <1>2 DEF ListKind, TypeOK, Worker
  <2>2. /\ worker'.todo = Tail(worker.todo) /\ worker'.step = "hosts"
        /\ worker'.seen = worker.seen \cup HostsOfKind(Head(worker.todo))
        /\ worker'.allowed = worker.allowed /\ steady' = steady
    BY <1>2, <2>1 DEF ListKind, TypeOK, Worker
  <2>3. ASSUME NEW fact \in steady, Pending(KindOf[fact[1]])
        PROVE  Pending(KindOf[fact[1]])' \/ fact[2] \in worker'.seen
    <3>1. CASE KindOf[fact[1]] = Head(worker.todo)
      <4>1. fact[1] \in Objects /\ fact[2] \in StatedBy(cache, fact[1])
        BY StatedElements DEF TypeOK, Sources
      <4>2. NamespaceOf[fact[1]] \in worker.allowed
        BY <2>1 DEF SteadyInv
      <4>3. fact[2] \in HostsOfKind(Head(worker.todo))
        BY <3>1, <4>1, <4>2, ListedElements DEF TypeOK
      <4> QED
        BY <2>2, <4>3
    <3>2. CASE KindOf[fact[1]] # Head(worker.todo)
      <4>1. \A kind : (\E k \in DOMAIN worker.todo : worker.todo[k] = kind) <=>
                       \/ kind = Head(worker.todo)
                       \/ \E k \in DOMAIN Tail(worker.todo) : Tail(worker.todo)[k] = kind
        BY <2>1, PendingTail
      <4>2. \E k \in DOMAIN worker.todo : worker.todo[k] = KindOf[fact[1]]
        BY <2>3 DEF Pending
      <4>3. \E k \in DOMAIN Tail(worker.todo) : Tail(worker.todo)[k] = KindOf[fact[1]]
        BY <3>2, <4>1, <4>2
      <4> QED
        BY <2>2, <4>3 DEF Pending
    <3> QED
      BY <3>1, <3>2
  <2> QED
    BY <2>1, <2>2, <2>3 DEF SteadyInv
<1>3. CASE Start \/ ListFails \/ Conclude \/ Restart
  BY <1>3 DEF Start, ListFails, Conclude, Restart, Idle, SteadyInv
<1>4. CASE worker' = worker /\ steady' \subseteq steady
  BY <1>4 DEF SteadyInv, Pending
<1>5. Next /\ ~Pass /\ ~Restart => worker' = worker /\ steady' \subseteq steady
  BY Around DEF Deliver, Fire, Change, DeliverLabels, Relabel, Watch
<1> QED
  BY <1>1, <1>2, <1>3, <1>4, <1>5 DEF Pass, vars

\* SteadyHostKept: no interleaving of Lists, deliveries and failures makes a
\* pass prune the certificate of a host that one object stated throughout.
THEOREM SteadyKept == Safety => SteadyHostKept
<1>1. TypeOK /\ SteadyInv /\ [Next]_vars =>
        [\A fact \in steady : fact[2] \in issued => fact[2] \in issued']_vars
  <2>1. SUFFICES ASSUME TypeOK, SteadyInv, [Next]_vars,
                        NEW fact \in steady, fact[2] \in issued
                 PROVE  fact[2] \in issued'
    OBVIOUS
  <2>2. CASE Conclude
    <3>1. worker.step = "hosts" /\ ~Pending(KindOf[fact[1]])
      BY <2>2 DEF Conclude, Pending
    <3>2. fact[2] \in worker.seen
      BY <2>1, <3>1 DEF SteadyInv
    <3> QED
      BY <2>2, <3>2 DEF Conclude
  <2>3. Next /\ ~Conclude => issued' = issued
    BY Around DEF Pass, Start, ListNamespaces, ListKind, ListFails, Deliver, Fire, Change,
                  DeliverLabels, Relabel, Restart, found
  <2> QED
    BY <2>1, <2>2, <2>3 DEF vars
<1>2. Init => SteadyInv
  BY DEF Init, SteadyInv, Idle
<1>3. (TypeOK /\ SteadyInv) /\ [Next]_vars => (TypeOK /\ SteadyInv)'
  BY TypeNext, SteadyNext
<1> QED
  BY TypeInit, <1>1, <1>2, <1>3, PTL DEF Safety, SteadyHostKept

=============================================================================
