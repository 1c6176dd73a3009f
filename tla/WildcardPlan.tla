---------------------------- MODULE WildcardPlan ----------------------------
(***************************************************************************)
(* BuildPlan of internal/domain/wildcard.go: from the hostnames a cluster   *)
(* routes to the certificates that must exist.  It is pure, so the module   *)
(* has no variables; Planner and WildcardPolicy supply them.                *)
(*                                                                         *)
(* A DNS name is the sequence of its labels from the root, and a label the  *)
(* sequence of the words a hyphen separates, so that replacing "." by "-"   *)
(* is to forget where the labels end: foo-x.com is <<<<"com">>,             *)
(* <<"foo", "x">>>> and *.x.com is <<<<"com">>, <<"x">>, Star>>.  Names are *)
(* taken after NormalizeHost, which the code applies to every zone and host *)
(* before it looks at it; sorted lists without duplicates are sets.         *)
(***************************************************************************)
EXTENDS Integers, FiniteSets, Sequences

CONSTANTS
  Words,          \* the words labels are made of
  Illegal,        \* words with a character Key Vault refuses, such as "_"
  Wildcard,       \* the word that stands for "*." in a Key Vault name
  Star,           \* the label "*"
  PublicSuffixes, \* the DNS names on the Public Suffix List
  DnsRank(_),     \* position of a DNS name in string order
  VaultRank(_)    \* position of a Key Vault name in string order

Label == (Seq(Words) \ {<<>>}) \cup {Star}
DnsName == Seq(Label) \ {<<>>}

ASSUME WordsAssumption == Illegal \subseteq Words /\ Wildcard \in Words \ Illegal
ASSUME StarAssumption == Star \notin Seq(Words)
ASSUME SuffixAssumption == PublicSuffixes \subseteq DnsName

\* PlanInput: the discovered hosts, the zones of the policy, MaxCertificates
\* (0: unlimited), the names already generated, the grouping and
\* IssueZoneWildcards.
Groupings == {"PerZone", "PerWildcard"}

-----------------------------------------------------------------------------
(***************************************************************************)
(* DNS names and zones                                                     *)
(***************************************************************************)
Parent(n) == SubSeq(n, 1, Len(n) - 1)
WildcardOf(n) == Append(n, Star)
IsWildcard(n) == Len(n) > 1 /\ n[Len(n)] = Star
HasStar(n) == \E i \in DOMAIN n : n[i] = Star

\* What TLS accepts: a name for itself, a wildcard for one label more.
Covers(san, host) ==
  \/ san = host
  \/ IsWildcard(san) /\ ~IsWildcard(host) /\ Parent(san) = Parent(host)

WithinZone(n, zone) == Len(zone) <= Len(n) /\ SubSeq(n, 1, Len(zone)) = zone

\* The zones a host lies in; the "*." of a wildcard is not part of the name.
ZonesOf(host, zones) ==
  {z \in zones : WithinZone(IF IsWildcard(host) THEN Parent(host) ELSE host, z)}

\* A fault: the shortest matching zone wins.
LongestMatchingZone_Shortest(host, zones) ==
  CHOOSE z \in ZonesOf(host, zones) :
    \A y \in ZonesOf(host, zones) : Len(z) <= Len(y)

LongestMatchingZone(host, zones) ==
  CHOOSE z \in ZonesOf(host, zones) :
    \A y \in ZonesOf(host, zones) : Len(y) <= Len(z)

\* checkIssuable: no wildcard, and below a public suffix.
Issuable(zone) == ~HasStar(zone) /\ zone \notin PublicSuffixes

\* A host no certificate can be requested for: a "*" anywhere but in front.
Malformed(host) == HasStar(IF IsWildcard(host) THEN Parent(host) ELSE host)

\* A fault: an apex is taken to be covered by its own wildcard.
RequiredName_NoApex(host, zone) ==
  IF IsWildcard(host) THEN host
  ELSE IF host = zone THEN WildcardOf(host)
  ELSE WildcardOf(Parent(host))

\* The subject alternative name that must cover a host.
RequiredName(host, zone) ==
  IF IsWildcard(host) \/ host = zone THEN host ELSE WildcardOf(Parent(host))

-----------------------------------------------------------------------------
(***************************************************************************)
(* Key Vault names                                                         *)
(***************************************************************************)
\* The words of a label from the root up, and of a name from the leaf down.
Flatten(n) ==
  LET tail[i \in 0..Len(n)] ==
        IF i = 0 THEN <<>>
        ELSE (IF n[i] = Star THEN <<Wildcard>> ELSE n[i]) \o tail[i - 1]
  IN tail[Len(n)]

\* DeriveVaultCertificateName.  The "cert-" before a digit and the digest in
\* a name longer than 127 characters only change which names collide, and
\* are left out.
Derive(n) == [words |-> Flatten(n), digest |-> {}]
Derivable(n) == \A i \in DOMAIN Flatten(n) : Flatten(n)[i] \notin Illegal

\* DisambiguateVaultName: a digest of the names, taken to be injective.
Disambiguate(name, dnsNames) == [name EXCEPT !.digest = dnsNames]

\* PrimaryDNSName: the first wildcard, or else the first name.
Primary(names) ==
  LET candidates == IF \E n \in names : IsWildcard(n)
                      THEN {n \in names : IsWildcard(n)} ELSE names
  IN CHOOSE n \in candidates : \A m \in candidates : DnsRank(n) <= DnsRank(m)

\* perZoneNameSeed
ZoneSeed(zone, names) ==
  IF WildcardOf(zone) \in names THEN WildcardOf(zone) ELSE Primary(names)

-----------------------------------------------------------------------------
(***************************************************************************)
(* Grouping: a certificate to request, before it has its final name        *)
(***************************************************************************)
Demanded(in) ==
  in.hosts \cup (IF in.seed THEN {WildcardOf(z) : z \in in.zones} ELSE {})

\* Every name that grouping can bring up, and that the string order of names
\* is therefore about: each has a place of its own in it.
Mentioned(in) ==
  in.zones \cup Demanded(in)
  \cup {WildcardOf(Parent(h)) : h \in {g \in Demanded(in) : Len(g) > 1 /\ ~IsWildcard(g)}}
Ranked(names) ==
  \A n \in names : /\ DnsRank(n) \in Nat /\ VaultRank(Derive(n)) \in Nat
                   /\ \A m \in names : DnsRank(m) = DnsRank(n) => m = n

Outside(in) == {h \in Demanded(in) : ZonesOf(h, in.zones) = {}}
Unusable(in) == {h \in Demanded(in) \ Outside(in) : Malformed(h)}
Usable(in) == Demanded(in) \ (Outside(in) \cup Unusable(in))

\* required[zone] of BuildPlan
Required(in, zone) ==
  {RequiredName(h, zone) :
     h \in {g \in Usable(in) : LongestMatchingZone(g, in.zones) = zone}}

\* A fault: the zone and the name it is named after are mixed up.
Request_Swapped(zone, seed, names) == [zone |-> seed, seed |-> zone, names |-> names]

Request(zone, seed, names) == [zone |-> zone, seed |-> seed, names |-> names]

PerZone(zone, names) ==
  IF names = {} THEN {} ELSE {Request(zone, ZoneSeed(zone, names), names)}

\* Every wildcard, with the apex of its own domain when that is needed too,
\* and every apex left over.
PerWildcard(zone, names) ==
  {Request(zone, w, {w} \cup ({Parent(w)} \cap names)) : w \in {n \in names : IsWildcard(n)}}
  \cup {Request(zone, a, {a}) : a \in {n \in names : ~IsWildcard(n) /\ WildcardOf(n) \notin names}}

Grouped(in) ==
  UNION {IF in.grouping = "PerZone" THEN PerZone(z, Required(in, z))
         ELSE PerWildcard(z, Required(in, z)) : z \in in.zones}

\* The order of the list group returns: by derived name, and otherwise the
\* order of insertion, which is by zone, wildcards before apexes, by name.
SortKey(r) == <<VaultRank(Derive(r.seed)), DnsRank(r.zone),
                IF IsWildcard(r.seed) THEN 0 ELSE 1, DnsRank(r.seed)>>
Before(r, s) ==
  LET k == SortKey(r)
      l == SortKey(s)
  IN \E i \in 1..4 : k[i] < l[i] /\ \A j \in 1..(i - 1) : k[j] = l[j]

\* A fault: collisions are not looked for.
NameOf_Derived(r, requests) == Derive(r.seed)

\* resolveNameCollisions: the first of those that derive one name keeps it.
NameOf(r, requests) ==
  IF \E s \in requests : Before(s, r) /\ Derive(s.seed) = Derive(r.seed)
    THEN Disambiguate(Derive(r.seed), r.names) ELSE Derive(r.seed)

-----------------------------------------------------------------------------
(***************************************************************************)
(* The cap, and the plan                                                   *)
(***************************************************************************)
\* A fault: the first in order keep their slots, whatever exists.
ClaimsFirst_ByName(r, s, requests, existing) == Before(r, s)

\* A fault: what exists claims its slots last.
ClaimsFirst_NewFirst(r, s, requests, existing) ==
  LET issued(q) == NameOf(q, requests) \in existing
  IN IF issued(r) = issued(s) THEN Before(r, s) ELSE issued(s)

\* Who claims a slot first: what exists, then the order of the list.
ClaimsFirst(r, s, requests, existing) ==
  LET issued(q) == NameOf(q, requests) \in existing
  IN IF issued(r) = issued(s) THEN Before(r, s) ELSE issued(r)

\* applyLimit
Kept(in) ==
  LET requests == Grouped(in)
  IN {r \in requests : \/ in.max <= 0
        \/ Cardinality({s \in requests : ClaimsFirst(s, r, requests, in.existing)}) < in.max}

Skipped(hosts, reason) == {[host |-> h, reason |-> reason] : h \in hosts}

Plan(certificates, skipped) ==
  [ok |-> TRUE, certificates |-> certificates, skipped |-> skipped]
PlanError == [ok |-> FALSE, certificates |-> {}, skipped |-> {}]

\* normalizeZones refuses the zones, or some name cannot be derived.
Refused(in) ==
  \/ in.zones = {}
  \/ \E z \in in.zones : ~Issuable(z)
  \/ \E r \in Grouped(in) : ~Derivable(r.seed)

SkippedHosts(in) ==
  Skipped(Outside(in), "OutsideAllowlist")
  \cup Skipped(Unusable(in), "Malformed")
  \cup Skipped(UNION {r.names : r \in Grouped(in) \ Kept(in)}, "MaxCertificates")

\* A certificate keeps the seed of its name, which orders the list.
BuildPlan(in) ==
  LET requests == Grouped(in)
      named(r) == [name |-> NameOf(r, requests), zone |-> r.zone,
                   seed |-> r.seed, names |-> r.names]
  IN IF Refused(in) THEN PlanError
     ELSE Plan({named(r) : r \in Kept(in)}, SkippedHosts(in))

PlannedNames(plan) == {c.name : c \in plan.certificates}

=============================================================================
