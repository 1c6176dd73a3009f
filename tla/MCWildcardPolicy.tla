------------------------- MODULE MCWildcardPolicy -------------------------
(***************************************************************************)
(* Small instances of WildcardPolicy for TLC: two zones, each with a host,  *)
(* and the specs and routes the runs choose from.                           *)
(***************************************************************************)
EXTENDS WildcardPolicy

CONSTANTS t1, t2

Com == << <<"com">> >>
A == Append(Com, <<"a">>)     \* a.com
B == Append(Com, <<"b">>)     \* b.com
HostA == Append(A, <<"w">>)   \* w.a.com
HostB == Append(B, <<"w">>)   \* w.b.com

MCWords == {"a", "b", "com", "w", "wildcard"}
MCSuffixes == {Com}
DnsSorted == <<WildcardOf(A), WildcardOf(B), A, B, HostA, HostB>>
MCDnsRank(n) == CHOOSE i \in DOMAIN DnsSorted : DnsSorted[i] = n
VaultSorted == <<Derive(A), Derive(B), Derive(HostA), Derive(HostB),
                 Derive(WildcardOf(A)), Derive(WildcardOf(B))>>
MCVaultRank(v) == CHOOSE i \in DOMAIN VaultSorted : VaultSorted[i] = v

MCNames == {Derive(WildcardOf(A)), Derive(WildcardOf(B))}
MCHosts == {HostA, HostB}

NoRoutes == [s \in Sources |-> {}]
RouteBoth == [NoRoutes EXCEPT !["ingress"] = {HostA, HostB}]
RouteB == [NoRoutes EXCEPT !["ingress"] = {HostB}]
GatewayB == [s \in Sources |-> IF s = "ingress" THEN {HostA} ELSE {HostB}]

Retaining == [zones |-> {A, B}, max |-> 2, grouping |-> "PerZone", seed |-> FALSE,
              discovery |-> [s \in Sources |-> "unset"], prune |-> FALSE,
              target |-> t1, sound |-> TRUE]
Pruning == [Retaining EXCEPT !.prune = TRUE]
Capped == [Pruning EXCEPT !.max = 1]
Moved == [Pruning EXCEPT !.target = t2]
Unsound == [Pruning EXCEPT !.sound = FALSE]
Requiring == [Pruning EXCEPT !.discovery = [s \in Sources |-> "on"]]
Narrowed == [Requiring EXCEPT !.zones = {A}]

\* At most these disturbances, one of each kind named.
Only(kinds) == [d \in Disturbances |-> IF d \in kinds THEN 1 ELSE 0]
Scenario(spec, route, disturbances) ==
  [spec |-> spec, routes |-> route, certManager |-> TRUE, left |-> Only(disturbances)]

CappedOnly == {Capped}
AtTheCap == {Scenario(Capped, RouteB, {"routes"})}

\* A restart may stop watching the Gateways the policy requires, calls fail,
\* routes change and generated objects are deleted; a capped policy is edited
\* and edited again, also back to what it was before the first edit is seen.
SafetySpecs == {Requiring, Capped, Narrowed}
SafetyScenarios ==
  {Scenario(Requiring, GatewayB, {disturbance, change}) :
     disturbance \in {"restarts", "faults"}, change \in {"routes", "tampers"}}
  \cup {[Scenario(Capped, RouteB, {}) EXCEPT !.left["edits"] = 2]}

\* The policy is deleted, an object it generated is, routes change, the
\* operator restarts, the spec is mended while the clock ticks, cert-manager is
\* installed late.
LiveSpecs == {Requiring, Retaining, Unsound, Moved}
LiveScenarios ==
  {Scenario(Requiring, RouteB, {"deletes", "faults"}),
   Scenario(Retaining, GatewayB, {"tampers"}),
   Scenario(Requiring, GatewayB, {"routes"}),
   Scenario(Requiring, GatewayB, {"restarts"}),
   Scenario(Unsound, RouteB, {"edits", "ticks"}),
   [Scenario(Retaining, RouteB, {"faults"}) EXCEPT !.certManager = FALSE]}

=============================================================================
