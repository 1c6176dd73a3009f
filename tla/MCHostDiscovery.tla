-------------------------- MODULE MCHostDiscovery --------------------------
(***************************************************************************)
(* Instances of HostDiscovery: an Ingress and a route in one namespace, the *)
(* route's Gateway in another.                                              *)
(***************************************************************************)
EXTENDS HostDiscovery

CONSTANTS i, r, g, h1, h2

MCKindOf == [o \in Objects |-> IF o = i THEN "ingress" ELSE IF o = r THEN "httpRoute" ELSE "gateway"]
MCNamespaceOf == [o \in Objects |-> IF o = g THEN "infra" ELSE "app"]
MCParentOf == [o \in {r} |-> g]

States(hosts, tls) == [hosts |-> hosts, tls |-> tls]
\* An Ingress that routes h1 and terminates TLS for h2 as well, or is absent;
\* a route that states h2, or inherits; a Gateway with a listener for h1 and
\* one without a hostname, or absent.
MCContents ==
  [o \in Objects |-> CASE o = i -> {None, States({h1}, {h2})}
                       [] o = r -> {States({}, {}), States({h2}, {})}
                       [] OTHER -> {None, States({h1, None}, {})}]
AllKinds == <<"ingress", "httpRoute", "gateway">>

=============================================================================
