------------------------------ MODULE Planner ------------------------------
(***************************************************************************)
(* Planner.Plan of internal/app/planner.go: one discovery pass, from what   *)
(* the cluster routes to the certificates it should have.  A pass is one    *)
(* step; WildcardPolicy runs passes against a cluster that changes.  Here   *)
(* the same policy is planned again and again while hosts come and go and   *)
(* what was planned has been generated, so that the input of a pass         *)
(* depends on the plans before it.                                          *)
(***************************************************************************)
EXTENDS WildcardPlan

CONSTANTS
  Hosts,                \* hosts that may be routed
  Inputs,               \* the policies, and what they start from
  MaxListenerHostnames, \* host names an Application Gateway listener may have
  MaxChanges            \* bound: changes of the routed hosts

PlanInput == [hosts : SUBSET DnsName, zones : SUBSET DnsName, max : Nat,
              existing : SUBSET [words : Seq(Words), digest : SUBSET DnsName],
              grouping : Groupings, seed : BOOLEAN]

ASSUME InputsAssumption == Inputs \subseteq PlanInput
ASSUME HostsAssumption == Hosts \subseteq DnsName
ASSUME RanksAssumption ==
  \A in \in Inputs : /\ IsFiniteSet(in.hosts \cup Hosts) /\ IsFiniteSet(in.zones)
                     /\ Ranked(Mentioned([in EXCEPT !.hosts = @ \cup Hosts]))
ASSUME ListenerAssumption == MaxListenerHostnames \in Nat \ {0}
ASSUME ChangesAssumption == MaxChanges \in Nat

VARIABLES
  input,   \* what the next pass is given
  used,    \* what the last pass was given
  state,   \* its DesiredState
  changes  \* changes of the routed hosts so far

vars == <<input, used, state, changes>>

\* A fault: the last, short group is forgotten.
SplitListenerHostnames_Full(names) ==
  LET index(n) == Cardinality({m \in names : DnsRank(m) < DnsRank(n)})
      group(k) == {n \in names : index(n) \div MaxListenerHostnames = k}
  IN {group(k) : k \in 0..(Cardinality(names) \div MaxListenerHostnames - 1)}

\* SplitListenerHostnames: the sorted names in groups a listener can serve.
SplitListenerHostnames(names) ==
  LET index(n) == Cardinality({m \in names : DnsRank(m) < DnsRank(n)})
      group(k) == {n \in names : index(n) \div MaxListenerHostnames = k}
  IN {group(index(n) \div MaxListenerHostnames) : n \in names}

\* Planner.Plan: the plan, and the listeners each certificate needs.
DesiredState(in) ==
  LET plan == BuildPlan(in)
  IN [ok |-> plan.ok, skipped |-> plan.skipped, certificates |->
        {[name |-> c.name, zone |-> c.zone, names |-> c.names,
          listeners |-> SplitListenerHostnames(c.names)] : c \in plan.certificates}]

Init ==
  /\ input \in Inputs /\ used = input
  /\ state = DesiredState(input)
  /\ changes = 0

\* A pass.  What an earlier one planned has been generated and is retained.
Plans ==
  /\ used' = [input EXCEPT !.existing = @ \cup PlannedNames(state)]
  /\ input' = used'
  /\ state' = DesiredState(used')
  /\ UNCHANGED changes

\* A host is routed, or no longer.
Route(h) ==
  /\ changes < MaxChanges /\ changes' = changes + 1
  /\ input' = [input EXCEPT !.hosts = IF h \in @ THEN @ \ {h} ELSE @ \cup {h}]
  /\ UNCHANGED <<used, state>>

Next == Plans \/ \E h \in Hosts : Route(h)

Spec == Init /\ [][Next]_vars

-----------------------------------------------------------------------------
(***************************************************************************)
(* Properties                                                              *)
(***************************************************************************)
TypeOK ==
  /\ input \in PlanInput /\ used \in PlanInput
  /\ changes \in 0..MaxChanges
  /\ state.ok \in BOOLEAN
  /\ \A c \in state.certificates : c.zone \in used.zones /\ c.names \in SUBSET DnsName

\* "Nothing is ever dropped silently": what is routed is covered by a
\* certificate of the plan, or reported as skipped itself, or a name that
\* would cover it is (SkippedHost, BuildPlan).
EveryHostAccounted ==
  state.ok =>
    \A h \in Demanded(used) :
      \/ \E c \in state.certificates : \E n \in c.names : Covers(n, h)
      \/ \E s \in state.skipped :
           /\ s.host = h \/ Covers(s.host, h)
           /\ s.reason = "OutsideAllowlist" <=> ZonesOf(h, used.zones) = {}

\* The allowlist: a certificate carries only names of its own zone, and of
\* no more specific zone of the policy (requiredName, longestMatchingZone).
NamesInTheirZone ==
  \A c \in state.certificates : \A n \in c.names :
    /\ WithinZone(IF IsWildcard(n) THEN Parent(n) ELSE n, c.zone)
    /\ \A z \in ZonesOf(n, used.zones) : Len(z) <= Len(c.zone)

\* Two certificates share neither their Key Vault object nor a name
\* (resolveNameCollisions).
CertificatesDistinct ==
  \A c, d \in state.certificates :
    c # d => c.name # d.name /\ c.names \cap d.names = {}

\* applyLimit: the cap holds; a certificate is left out only at the cap, and
\* one that exists only for others that exist.
CapKeepsExisting ==
  LET lost == {r \in Grouped(used) :
                 NameOf(r, Grouped(used)) \notin PlannedNames(state)}
  IN state.ok /\ used.max > 0 =>
       /\ Cardinality(state.certificates) <= used.max
       /\ lost # {} => Cardinality(state.certificates) = used.max
       /\ (\E r \in lost : NameOf(r, Grouped(used)) \in used.existing)
            => PlannedNames(state) \subseteq used.existing

\* Every name of a certificate is served by exactly one listener group, and
\* no group is larger than a listener allows (SplitListenerHostnames).
ListenersServeNames ==
  \A c \in state.certificates :
    /\ \A n \in c.names : Cardinality({g \in c.listeners : n \in g}) = 1
    /\ \A g \in c.listeners : g # {} /\ Cardinality(g) <= MaxListenerHostnames

\* An unstable plan would "churn Certificate resources": planning again for
\* the same hosts, with the first plan generated meanwhile, changes nothing.
PlanStable == [][input.hosts = used.hosts => state' = state]_vars

-----------------------------------------------------------------------------
(***************************************************************************)
(* A claim of the API documentation and the tests that the code does not   *)
(* keep.                                                                   *)
(***************************************************************************)
\* "Reaching the cap must overflow the *new* certificate": one of the last
\* plan that is still required gives way only to others of the last plan,
\* told by what they certify and not by the name they derive.
Holds(plan, c) == \E d \in plan.certificates : d.zone = c.zone /\ d.names \cap c.names # {}
IssuedKeepSlot ==
  [][\A c \in state.certificates :
       /\ state'.ok /\ ~Holds(state', c)
       /\ \E r \in Grouped(used') : r.zone = c.zone /\ r.names = c.names
       => \A d \in state'.certificates : Holds(state, d)]_vars

=============================================================================
