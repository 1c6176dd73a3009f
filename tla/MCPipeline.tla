---------------------------- MODULE MCPipeline ----------------------------
(***************************************************************************)
(* A small instance of Pipeline for TLC: one zone with hosts at two depths, *)
(* so that its one certificate changes its names.                           *)
(***************************************************************************)
EXTENDS Pipeline

CONSTANTS t1, t2

Com == << <<"com">> >>
A == Append(Com, <<"a">>)       \* a.com
HostA == Append(A, <<"w">>)     \* w.a.com
DeepA == Append(HostA, <<"w">>) \* w.w.a.com

MCWords == {"a", "com", "w", "wildcard"}
MCSuffixes == {Com}
DnsSorted == <<WildcardOf(A), WildcardOf(HostA), A, HostA, DeepA>>
MCDnsRank(n) == CHOOSE i \in DOMAIN DnsSorted : DnsSorted[i] = n
MCVaultRank(v) == 1

MCNames == {Derive(WildcardOf(A)), Derive(WildcardOf(HostA))}
MCHosts == {HostA, DeepA}

Pruning == [zones |-> {A}, max |-> 1, grouping |-> "PerZone", seed |-> FALSE,
            discovery |-> [s \in Sources |-> "unset"], prune |-> TRUE,
            target |-> t1, sound |-> TRUE]
Moved == [Pruning EXCEPT !.target = t2]
MCSpecs == {Pruning, Moved}

\* Routes change, the process restarts, the policy moves to another vault, a
\* generated object or the Secret is deleted, or a call fails.
Scenario(route, disturbances) ==
  [spec |-> Pruning, routes |-> [s \in Sources |-> route], certManager |-> TRUE,
   left |-> [d \in Disturbances |-> IF d \in disturbances THEN 1 ELSE 0]]
MCScenarios ==
  {Scenario({HostA}, {"routes"}), Scenario({HostA}, {"restarts"}),
   Scenario({HostA}, {"edits"}), Scenario({HostA}, {"tampers"}),
   Scenario({HostA}, {"faults"})}

=============================================================================
