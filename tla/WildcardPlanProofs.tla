------------------------- MODULE WildcardPlanProofs -------------------------
(***************************************************************************)
(* Lemmas about BuildPlan, for every set of hosts and zones: what a plan     *)
(* asks for, that its certificates have nothing in common, and who gets the *)
(* slots under the cap.  PlannerProofs and WildcardPolicyProofs rest on it. *)
(***************************************************************************)
EXTENDS WildcardPlan, FiniteSetTheorems, WellFoundedInduction, TLAPS

-----------------------------------------------------------------------------
(***************************************************************************)
(* Natural numbers                                                         *)
(***************************************************************************)
LEMMA LeastNat ==
  ASSUME NEW S \in SUBSET Nat, S # {}
  PROVE  \E least \in S : \A y \in S : least <= y
<1> DEFINE less == OpToRel(<, Nat)
<1>1. PICK least \in S : \A y \in S : ~(<<y, least>> \in less)
  BY NatLessThanWellFounded, WFMin
<1>2. ASSUME NEW y \in S PROVE least <= y
  <2>1. y \in Nat /\ least \in Nat /\ <<y, least>> \in Nat \X Nat
    OBVIOUS
  <2>2. y < least => <<y, least>> \in less
    BY <2>1 DEF OpToRel
  <2>3. ~(<<y, least>> \in less)
    BY <1>1
  <2> HIDE DEF less
  <2> QED
    BY <2>1, <2>2, <2>3
<1> QED
  BY <1>2

-----------------------------------------------------------------------------
(***************************************************************************)
(* DNS names                                                               *)
(***************************************************************************)
\* The name without the "*." in front, which is what a zone is compared to.
Stem(n) == IF IsWildcard(n) THEN Parent(n) ELSE n

\* A parent is one label shorter and otherwise the same.
LEMMA ParentName ==
  ASSUME NEW n \in DnsName, Len(n) > 1
  PROVE  /\ Parent(n) \in DnsName
         /\ Len(Parent(n)) = Len(n) - 1
         /\ \A i \in 1..(Len(n) - 1) : Parent(n)[i] = n[i]
<1>1. n \in Seq(Label) /\ Len(n) \in Nat
  BY DEF DnsName
<1>2. Parent(n) \in Seq(Label) /\ Len(Parent(n)) = Len(n) - 1
  BY <1>1 DEF Parent
<1>3. Parent(n) # <<>>
  BY <1>1, <1>2
<1>4. \A i \in 1..(Len(n) - 1) : Parent(n)[i] = n[i]
  BY <1>1 DEF Parent
<1> QED
  BY <1>2, <1>3, <1>4 DEF DnsName

\* The wildcard of a name stands for that name.
LEMMA WildcardName ==
  ASSUME NEW n \in DnsName
  PROVE  /\ WildcardOf(n) \in DnsName
         /\ IsWildcard(WildcardOf(n))
         /\ Parent(WildcardOf(n)) = n
<1>1. n \in Seq(Label) /\ Len(n) \in Nat /\ Len(n) > 0
  BY DEF DnsName
<1>2. Star \in Label
  BY DEF Label
<1>3. /\ WildcardOf(n) \in Seq(Label) /\ Len(WildcardOf(n)) = Len(n) + 1
      /\ WildcardOf(n)[Len(n) + 1] = Star
      /\ \A i \in 1..Len(n) : WildcardOf(n)[i] = n[i]
  BY <1>1, <1>2 DEF WildcardOf
<1>4. WildcardOf(n) \in DnsName
  BY <1>1, <1>3 DEF DnsName
<1>5. IsWildcard(WildcardOf(n))
  BY <1>1, <1>3 DEF IsWildcard
<1>6. Parent(WildcardOf(n)) = n
  <2>1. /\ Parent(WildcardOf(n)) \in Seq(Label) /\ Len(Parent(WildcardOf(n))) = Len(n)
        /\ \A i \in 1..Len(n) : Parent(WildcardOf(n))[i] = n[i]
    BY <1>1, <1>3, <1>4, ParentName DEF DnsName
  <2> QED
    BY <1>1, <2>1
<1> QED
  BY <1>4, <1>5, <1>6

\* A zone a parent lies in is one the name itself lies in.
LEMMA ParentWithin ==
  ASSUME NEW n \in DnsName, Len(n) > 1, NEW z \in DnsName
  PROVE  WithinZone(Parent(n), z) <=> Len(z) < Len(n) /\ WithinZone(n, z)
<1>1. n \in Seq(Label) /\ Len(n) \in Nat /\ z \in Seq(Label) /\ Len(z) \in Nat
  BY DEF DnsName
<1>2. /\ Parent(n) \in Seq(Label) /\ Len(Parent(n)) = Len(n) - 1
      /\ \A i \in 1..(Len(n) - 1) : Parent(n)[i] = n[i]
  BY ParentName DEF DnsName
<1>3. ASSUME Len(z) < Len(n)
      PROVE  SubSeq(Parent(n), 1, Len(z)) = SubSeq(n, 1, Len(z))
  BY <1>1, <1>2, <1>3
<1> QED
  BY <1>1, <1>2, <1>3 DEF WithinZone

-----------------------------------------------------------------------------
(***************************************************************************)
(* The zone of a host                                                      *)
(***************************************************************************)
\* A host that lies in a zone has a longest one: names are finite.
LEMMA LongestExists ==
  ASSUME NEW host \in DnsName, NEW zones \in SUBSET DnsName, ZonesOf(host, zones) # {}
  PROVE  /\ LongestMatchingZone(host, zones) \in ZonesOf(host, zones)
         /\ \A y \in ZonesOf(host, zones) : Len(y) <= Len(LongestMatchingZone(host, zones))
<1> DEFINE Z == ZonesOf(host, zones)
           rest == {Len(Stem(host)) - Len(z) : z \in Z}
<1>1. Stem(host) \in DnsName /\ Len(Stem(host)) \in Nat
  BY ParentName DEF Stem, IsWildcard, DnsName
<1>2. \A z \in Z : Len(z) \in Nat /\ Len(z) <= Len(Stem(host))
  BY <1>1 DEF ZonesOf, WithinZone, Stem, DnsName
<1>3. rest \in SUBSET Nat /\ rest # {}
  BY <1>1, <1>2
<1>4. PICK least \in rest : \A y \in rest : least <= y
  BY <1>3, LeastNat
<1>5. PICK z \in Z : least = Len(Stem(host)) - Len(z)
  BY <1>4
<1>6. \A y \in Z : Len(y) <= Len(z)
  <2>1. SUFFICES ASSUME NEW y \in Z PROVE Len(y) <= Len(z)
    OBVIOUS
  <2>2. least <= Len(Stem(host)) - Len(y)
    BY <1>4
  <2> QED
    BY <1>1, <1>2, <1>5, <2>2
<1> QED
  BY <1>6 DEF LongestMatchingZone

\* What requiredName asks for lies in the host's zone, and in no zone of the
\* policy that the host does not lie in.
LEMMA RequiredInZone ==
  ASSUME NEW host \in DnsName, NEW zone \in DnsName, WithinZone(Stem(host), zone)
  PROVE  LET n == RequiredName(host, zone)
         IN /\ n \in DnsName
            /\ WithinZone(Stem(n), zone)
            /\ \A z \in DnsName : WithinZone(Stem(n), z) => WithinZone(Stem(host), z)
<1>1. CASE IsWildcard(host) \/ host = zone
  BY <1>1 DEF RequiredName
<1>2. CASE ~IsWildcard(host) /\ host # zone
  <2>1. host \in Seq(Label) /\ zone \in Seq(Label) /\ Len(host) \in Nat /\ Len(zone) \in Nat
    BY DEF DnsName
  <2>2. Stem(host) = host /\ Len(zone) > 0 /\ Len(zone) <= Len(host)
    BY <1>2, <2>1 DEF Stem, WithinZone, DnsName
  <2>3. Len(zone) # Len(host)
    <3>1. SubSeq(host, 1, Len(host)) = host
      BY <2>1
    <3> QED
      BY <1>2, <2>2, <3>1 DEF WithinZone
  <2>4. Len(host) > 1 /\ Len(zone) < Len(host)
    BY <2>1, <2>2, <2>3
  <2>5. Parent(host) \in DnsName
    BY <2>4, ParentName
  <2>6. RequiredName(host, zone) = WildcardOf(Parent(host))
    BY <1>2 DEF RequiredName
  <2>7. RequiredName(host, zone) \in DnsName /\ Stem(RequiredName(host, zone)) = Parent(host)
    BY <2>5, <2>6, WildcardName DEF Stem
  <2> QED
    BY <2>2, <2>4, <2>7, ParentWithin
<1> QED
  BY <1>1, <1>2

-----------------------------------------------------------------------------
(***************************************************************************)
(* A plan                                                                  *)
(***************************************************************************)
\* What a pass is given, as far as zones are concerned.  The names already
\* generated are left open: a plan's names depend on how labels are flattened.
ZonedInput(in) ==
  /\ in = [hosts |-> in.hosts, zones |-> in.zones, max |-> in.max,
           existing |-> in.existing, grouping |-> in.grouping, seed |-> in.seed]
  /\ in.hosts \in SUBSET DnsName /\ in.zones \in SUBSET DnsName

\* NamesInTheirZone, for one set of names.
InZone(names, zone, zones) ==
  \A n \in names :
    /\ WithinZone(Stem(n), zone)
    /\ \A z \in ZonesOf(n, zones) : Len(z) <= Len(zone)

\* The names a zone is asked for lie in it, and in no longer zone.
LEMMA RequiredZoned ==
  ASSUME NEW in, ZonedInput(in), NEW zone \in in.zones
  PROVE  InZone(Required(in, zone), zone, in.zones)
<1>1. in.zones \in SUBSET DnsName /\ zone \in DnsName
  BY DEF ZonedInput
<1>2. Demanded(in) \subseteq DnsName
  BY WildcardName DEF Demanded, ZonedInput
<1>3. SUFFICES ASSUME NEW host \in Usable(in), LongestMatchingZone(host, in.zones) = zone
               PROVE  /\ WithinZone(Stem(RequiredName(host, zone)), zone)
                      /\ \A z \in ZonesOf(RequiredName(host, zone), in.zones) : Len(z) <= Len(zone)
  BY DEF InZone, Required
<1>4. host \in DnsName /\ ZonesOf(host, in.zones) # {}
  BY <1>2, <1>3 DEF Usable, Outside
<1>5. /\ zone \in ZonesOf(host, in.zones)
      /\ \A z \in ZonesOf(host, in.zones) : Len(z) <= Len(zone)
  BY <1>1, <1>3, <1>4, LongestExists
<1>6. WithinZone(Stem(host), zone)
  BY <1>5 DEF ZonesOf, Stem
<1>7. /\ WithinZone(Stem(RequiredName(host, zone)), zone)
      /\ \A z \in DnsName : WithinZone(Stem(RequiredName(host, zone)), z) => WithinZone(Stem(host), z)
  BY <1>1, <1>4, <1>6, RequiredInZone
<1>8. ZonesOf(RequiredName(host, zone), in.zones) \subseteq ZonesOf(host, in.zones)
  BY <1>1, <1>7 DEF ZonesOf, Stem
<1> QED
  BY <1>5, <1>7, <1>8

\* Grouping distributes the names of a zone and adds none.
LEMMA GroupedNames ==
  ASSUME NEW in, NEW request \in Grouped(in)
  PROVE  request.zone \in in.zones /\ request.names \subseteq Required(in, request.zone)
<1>1. PICK zone \in in.zones : request \in PerZone(zone, Required(in, zone))
                                 \/ request \in PerWildcard(zone, Required(in, zone))
  BY DEF Grouped
<1>2. request.zone = zone /\ request.names \subseteq Required(in, zone)
  <2> DEFINE names == Required(in, zone)
  <2>1. CASE request \in PerZone(zone, names)
    BY <2>1 DEF PerZone, Request
  <2>2. CASE request \in PerWildcard(zone, names)
    <3>1. CASE \E w \in {n \in names : IsWildcard(n)} :
                 request = Request(zone, w, {w} \cup ({Parent(w)} \cap names))
      BY <3>1 DEF Request
    <3>2. CASE \E a \in {n \in names : ~IsWildcard(n) /\ WildcardOf(n) \notin names} :
                 request = Request(zone, a, {a})
      BY <3>2 DEF Request
    <3> QED
      BY <2>2, <3>1, <3>2 DEF PerWildcard
  <2> QED
    BY <1>1, <2>1, <2>2
<1> QED
  BY <1>2

-----------------------------------------------------------------------------
(***************************************************************************)
(* The names a zone is asked for                                           *)
(***************************************************************************)
\* A wildcard is the wildcard of its parent, and only its parent matters to
\* whether a certificate can be requested for it.
LEMMA WildcardParent ==
  ASSUME NEW n \in DnsName, IsWildcard(n)
  PROVE  n = WildcardOf(Parent(n)) /\ Parent(n) \in DnsName /\ HasStar(n)
<1>1. n \in Seq(Label) /\ Len(n) \in Nat /\ Len(n) > 1 /\ n[Len(n)] = Star
  BY DEF DnsName, IsWildcard
<1>2. Parent(n) \in Seq(Label) /\ Len(Parent(n)) = Len(n) - 1
      /\ \A i \in 1..(Len(n) - 1) : Parent(n)[i] = n[i]
  BY <1>1, ParentName DEF DnsName
<1>3. Star \in Label
  BY DEF Label
<1>4. /\ WildcardOf(Parent(n)) \in Seq(Label) /\ Len(WildcardOf(Parent(n))) = Len(n)
      /\ WildcardOf(Parent(n))[Len(n)] = Star
      /\ \A i \in 1..(Len(n) - 1) : WildcardOf(Parent(n))[i] = Parent(n)[i]
  BY <1>1, <1>2, <1>3 DEF WildcardOf
<1>5. \A i \in 1..Len(n) : WildcardOf(Parent(n))[i] = n[i]
  BY <1>1, <1>2, <1>4
<1>6. n = WildcardOf(Parent(n))
  BY <1>1, <1>4, <1>5
<1>7. HasStar(n)
  BY <1>1 DEF HasStar
<1> QED
  BY <1>1, <1>6, <1>7, ParentName

\* A host that a certificate can be requested for is answered by itself or by
\* the wildcard beside it, and neither has a "*" further in.
LEMMA RequiredShape ==
  ASSUME NEW host \in DnsName, NEW zone \in DnsName, WithinZone(Stem(host), zone),
         ~Malformed(host)
  PROVE  /\ \/ RequiredName(host, zone) = host
            \/ /\ ~IsWildcard(host) /\ Len(host) > 1
               /\ RequiredName(host, zone) = WildcardOf(Parent(host))
         /\ RequiredName(host, zone) \in DnsName
         /\ ~HasStar(Stem(RequiredName(host, zone)))
<1>1. CASE IsWildcard(host) \/ host = zone
  BY <1>1 DEF RequiredName, Malformed, Stem
<1>2. CASE ~IsWildcard(host) /\ host # zone
  <2>1. host \in Seq(Label) /\ zone \in Seq(Label) /\ Len(host) \in Nat /\ Len(zone) \in Nat
    BY DEF DnsName
  <2>2. Stem(host) = host /\ Len(zone) > 0 /\ Len(zone) <= Len(host) /\ ~HasStar(host)
    BY <1>2, <2>1 DEF Stem, WithinZone, DnsName, Malformed
  <2>3. SubSeq(host, 1, Len(host)) = host
    BY <2>1
  <2>4. Len(host) > 1
    BY <1>2, <2>1, <2>2, <2>3 DEF WithinZone
  <2>5. /\ Parent(host) \in DnsName /\ Parent(host) \in Seq(Label)
        /\ Len(Parent(host)) = Len(host) - 1
        /\ \A i \in 1..(Len(host) - 1) : Parent(host)[i] = host[i]
    BY <2>4, ParentName DEF DnsName
  <2>6. ~HasStar(Parent(host))
    BY <2>1, <2>2, <2>5 DEF HasStar
  <2>7. RequiredName(host, zone) = WildcardOf(Parent(host))
    BY <1>2 DEF RequiredName
  <2>8. RequiredName(host, zone) \in DnsName /\ Stem(RequiredName(host, zone)) = Parent(host)
    BY <2>5, <2>7, WildcardName DEF Stem
  <2> QED
    BY <1>2, <2>4, <2>6, <2>7, <2>8
<1> QED
  BY <1>1, <1>2

\* What a pass is given: hosts and zones are finite sets of names that the
\* string order tells apart.
Plannable(in) ==
  /\ ZonedInput(in)
  /\ IsFiniteSet(in.hosts) /\ IsFiniteSet(in.zones)
  /\ Ranked(Mentioned(in))

LEMMA DemandedNames ==
  ASSUME NEW in, ZonedInput(in)
  PROVE  Demanded(in) \subseteq DnsName
BY WildcardName DEF Demanded, ZonedInput

\* A host that is used lies in its longest zone.
LEMMA UsableZoned ==
  ASSUME NEW in, ZonedInput(in), NEW host \in Usable(in)
  PROVE  LET zone == LongestMatchingZone(host, in.zones)
         IN /\ host \in DnsName /\ zone \in in.zones /\ zone \in DnsName
            /\ WithinZone(Stem(host), zone) /\ ~Malformed(host)
            /\ RequiredName(host, zone) \in Required(in, zone)
<1>1. /\ host \in Demanded(in) /\ ZonesOf(host, in.zones) # {} /\ ~Malformed(host)
  BY DEF Usable, Outside, Unusable
<1>2. host \in DnsName /\ in.zones \in SUBSET DnsName
  BY <1>1, DemandedNames DEF ZonedInput
<1>3. LongestMatchingZone(host, in.zones) \in ZonesOf(host, in.zones)
  BY <1>1, <1>2, LongestExists
<1> QED
  BY <1>1, <1>2, <1>3 DEF ZonesOf, Stem, Required

LEMMA RequiredMentioned ==
  ASSUME NEW in, ZonedInput(in), NEW zone \in in.zones, NEW n \in Required(in, zone)
  PROVE  n \in Mentioned(in) /\ n \in DnsName /\ ~HasStar(Stem(n))
<1>1. PICK host \in Usable(in) :
        LongestMatchingZone(host, in.zones) = zone /\ n = RequiredName(host, zone)
  BY DEF Required
<1>2. /\ host \in DnsName /\ zone \in DnsName
      /\ WithinZone(Stem(host), zone) /\ ~Malformed(host)
  BY <1>1, UsableZoned
<1>3. host \in Demanded(in)
  BY <1>1 DEF Usable
<1> QED
  BY <1>1, <1>2, <1>3, RequiredShape DEF Mentioned

\* No name is asked of two zones.
LEMMA RequiredDisjoint ==
  ASSUME NEW in, ZonedInput(in), NEW y \in in.zones, NEW z \in in.zones,
         NEW n, n \in Required(in, y), n \in Required(in, z)
  PROVE  y = z
<1>1. in.zones \in SUBSET DnsName /\ y \in DnsName /\ z \in DnsName
  BY DEF ZonedInput
<1>2. /\ WithinZone(Stem(n), y) /\ WithinZone(Stem(n), z)
      /\ \A x \in ZonesOf(n, in.zones) : Len(x) <= Len(y) /\ Len(x) <= Len(z)
  BY RequiredZoned DEF InZone
<1>3. y \in ZonesOf(n, in.zones) /\ z \in ZonesOf(n, in.zones)
  BY <1>2 DEF ZonesOf, Stem
<1>4. Len(y) = Len(z)
  BY <1>1, <1>2, <1>3 DEF DnsName
<1> QED
  BY <1>2, <1>4 DEF WithinZone

-----------------------------------------------------------------------------
(***************************************************************************)
(* Grouping                                                                *)
(***************************************************************************)
\* The first of a set of ranked names is one of them.
LEMMA FirstName ==
  ASSUME NEW all, Ranked(all), NEW names \in SUBSET all, names # {}
  PROVE  (CHOOSE n \in names : \A m \in names : DnsRank(n) <= DnsRank(m)) \in names
<1> DEFINE ranks == {DnsRank(n) : n \in names}
<1>1. ranks \in SUBSET Nat /\ ranks # {}
  BY DEF Ranked
<1>2. PICK least \in ranks : \A k \in ranks : least <= k
  BY <1>1, LeastNat
<1>3. PICK n \in names : least = DnsRank(n)
  BY <1>2
<1>4. \A m \in names : DnsRank(n) <= DnsRank(m)
  BY <1>2, <1>3
<1> QED
  BY <1>4

LEMMA SeedName ==
  ASSUME NEW all, Ranked(all), NEW names \in SUBSET all, names # {}, NEW zone
  PROVE  ZoneSeed(zone, names) \in names
<1>1. {n \in names : IsWildcard(n)} \in SUBSET all
  OBVIOUS
<1>2. CASE \E n \in names : IsWildcard(n)
  <2>1. Primary(names) \in {n \in names : IsWildcard(n)}
    BY <1>1, <1>2, FirstName DEF Primary
  <2> QED
    BY <2>1 DEF ZoneSeed
<1>3. CASE ~\E n \in names : IsWildcard(n)
  <2>1. Primary(names) \in names
    BY <1>3, FirstName DEF Primary
  <2> QED
    BY <2>1 DEF ZoneSeed
<1> QED
  BY <1>2, <1>3

\* The certificate a name goes into when every wildcard has its own, and what
\* else is in it.
Owner(n, names) ==
  IF ~IsWildcard(n) /\ WildcardOf(n) \in names THEN WildcardOf(n) ELSE n
GroupOf(seed, names) ==
  IF IsWildcard(seed) THEN {seed} \cup ({Parent(seed)} \cap names) ELSE {seed}

LEMMA OwnedNames ==
  ASSUME NEW names \in SUBSET DnsName, \A n \in names : ~HasStar(Stem(n)),
         NEW zone, NEW r \in PerWildcard(zone, names), NEW n \in r.names
  PROVE  /\ r = Request(zone, Owner(n, names), GroupOf(Owner(n, names), names))
         /\ r.seed \in r.names /\ r.names \subseteq names
<1>1. CASE \E w \in {m \in names : IsWildcard(m)} :
             r = Request(zone, w, {w} \cup ({Parent(w)} \cap names))
  <2>1. PICK w \in names : /\ IsWildcard(w)
                           /\ r = Request(zone, w, {w} \cup ({Parent(w)} \cap names))
    BY <1>1
  <2>2. /\ w = WildcardOf(Parent(w)) /\ Parent(w) \in DnsName
        /\ ~HasStar(Parent(w))
    BY <2>1, WildcardParent DEF Stem
  <2>3. ~IsWildcard(Parent(w))
    BY <2>2, WildcardParent
  <2>4. r.names = {w} \cup ({Parent(w)} \cap names) /\ r.seed = w
    BY <2>1 DEF Request
  <2>5. n = w \/ n = Parent(w)
    BY <2>4
  <2>6. Owner(n, names) = w
    BY <2>1, <2>2, <2>3, <2>5 DEF Owner
  <2> QED
    BY <2>1, <2>4, <2>6 DEF GroupOf
<1>2. CASE \E a \in {m \in names : ~IsWildcard(m) /\ WildcardOf(m) \notin names} :
             r = Request(zone, a, {a})
  BY <1>2 DEF Request, Owner, GroupOf
<1> QED
  BY <1>1, <1>2 DEF PerWildcard

\* Every certificate asked for carries the name it is named after, and only
\* names of its zone.
LEMMA GroupedShape ==
  ASSUME NEW in, Plannable(in), NEW r \in Grouped(in)
  PROVE  /\ r = Request(r.zone, r.seed, r.names)
         /\ r.zone \in in.zones /\ r.zone \in DnsName
         /\ r.names \subseteq Required(in, r.zone) /\ r.seed \in r.names
<1>1. PICK zone \in in.zones : r \in IF in.grouping = "PerZone"
                                       THEN PerZone(zone, Required(in, zone))
                                       ELSE PerWildcard(zone, Required(in, zone))
  BY DEF Grouped
<1>2. zone \in DnsName
  BY DEF Plannable, ZonedInput
<1>3. /\ Required(in, zone) \in SUBSET Mentioned(in) /\ Required(in, zone) \in SUBSET DnsName
      /\ \A n \in Required(in, zone) : ~HasStar(Stem(n))
  BY RequiredMentioned DEF Plannable
<1>4. CASE in.grouping = "PerZone"
  <2>1. /\ Required(in, zone) # {}
        /\ r = Request(zone, ZoneSeed(zone, Required(in, zone)), Required(in, zone))
    BY <1>1, <1>4 DEF PerZone
  <2>2. ZoneSeed(zone, Required(in, zone)) \in Required(in, zone)
    BY <1>3, <2>1, SeedName DEF Plannable
  <2> QED
    BY <1>2, <2>1, <2>2 DEF Request
<1>5. CASE in.grouping # "PerZone"
  <2>1. r \in PerWildcard(zone, Required(in, zone))
    BY <1>1, <1>5
  <2>2. \/ \E w \in Required(in, zone) :
             r = Request(zone, w, {w} \cup ({Parent(w)} \cap Required(in, zone)))
        \/ \E a \in Required(in, zone) : r = Request(zone, a, {a})
    BY <2>1 DEF PerWildcard
  <2>3. \E seed, names : r = Request(zone, seed, names) /\ names # {}
    BY <2>2
  <2>4. r = Request(r.zone, r.seed, r.names) /\ r.zone = zone /\ r.names # {}
    BY <2>3 DEF Request
  <2>5. r.seed \in r.names /\ r.names \subseteq Required(in, zone)
    BY <1>3, <2>1, <2>4, OwnedNames
  <2> QED
    BY <1>2, <2>4, <2>5
<1> QED
  BY <1>4, <1>5

\* No two certificates asked for share a name.
LEMMA GroupedDisjoint ==
  ASSUME NEW in, Plannable(in), NEW r \in Grouped(in), NEW s \in Grouped(in),
         NEW n, n \in r.names, n \in s.names
  PROVE  r = s
<1>1. PICK y \in in.zones : r \in IF in.grouping = "PerZone"
                                    THEN PerZone(y, Required(in, y))
                                    ELSE PerWildcard(y, Required(in, y))
  BY DEF Grouped
<1>2. PICK z \in in.zones : s \in IF in.grouping = "PerZone"
                                    THEN PerZone(z, Required(in, z))
                                    ELSE PerWildcard(z, Required(in, z))
  BY DEF Grouped
<1>3. /\ Required(in, y) \in SUBSET DnsName /\ Required(in, z) \in SUBSET DnsName
      /\ \A m \in Required(in, y) \cup Required(in, z) : ~HasStar(Stem(m))
  BY RequiredMentioned DEF Plannable
<1>4. CASE in.grouping = "PerZone"
  <2>1. /\ r = Request(y, ZoneSeed(y, Required(in, y)), Required(in, y))
        /\ s = Request(z, ZoneSeed(z, Required(in, z)), Required(in, z))
    BY <1>1, <1>2, <1>4 DEF PerZone
  <2>2. n \in Required(in, y) /\ n \in Required(in, z)
    BY <2>1 DEF Request
  <2>3. y = z
    BY <2>2, RequiredDisjoint DEF Plannable
  <2> QED
    BY <2>1, <2>3
<1>5. CASE in.grouping # "PerZone"
  <2>1. r \in PerWildcard(y, Required(in, y)) /\ s \in PerWildcard(z, Required(in, z))
    BY <1>1, <1>2, <1>5
  <2>2. /\ r = Request(y, Owner(n, Required(in, y)), GroupOf(Owner(n, Required(in, y)), Required(in, y)))
        /\ r.names \subseteq Required(in, y)
    BY <1>3, <2>1, OwnedNames
  <2>3. /\ s = Request(z, Owner(n, Required(in, z)), GroupOf(Owner(n, Required(in, z)), Required(in, z)))
        /\ s.names \subseteq Required(in, z)
    BY <1>3, <2>1, OwnedNames
  <2>4. y = z
    BY <2>2, <2>3, RequiredDisjoint DEF Plannable
  <2> QED
    BY <2>2, <2>3, <2>4
<1> QED
  BY <1>4, <1>5

\* Every name that is asked for is on a certificate that is asked for.
LEMMA GroupedCovers ==
  ASSUME NEW in, ZonedInput(in), NEW zone \in in.zones, NEW n \in Required(in, zone)
  PROVE  \E r \in Grouped(in) : n \in r.names
<1> DEFINE names == Required(in, zone)
<1>1. CASE in.grouping = "PerZone"
  <2>1. Request(zone, ZoneSeed(zone, names), names) \in Grouped(in)
    BY <1>1 DEF Grouped, PerZone
  <2> QED
    BY <2>1 DEF Request
<1>2. CASE in.grouping # "PerZone"
  <2>1. PerWildcard(zone, names) \subseteq Grouped(in)
    BY <1>2 DEF Grouped
  <2>2. ASSUME NEW w \in names, IsWildcard(w)
        PROVE  Request(zone, w, {w} \cup ({Parent(w)} \cap names)) \in Grouped(in)
    BY <2>1, <2>2 DEF PerWildcard
  <2>3. CASE IsWildcard(n)
    BY <2>2, <2>3 DEF Request
  <2>4. CASE ~IsWildcard(n) /\ WildcardOf(n) \notin names
    <3>1. Request(zone, n, {n}) \in Grouped(in)
      BY <2>1, <2>4 DEF PerWildcard
    <3> QED
      BY <3>1 DEF Request
  <2>5. CASE ~IsWildcard(n) /\ WildcardOf(n) \in names
    <3>1. IsWildcard(WildcardOf(n)) /\ Parent(WildcardOf(n)) = n
      BY RequiredMentioned, WildcardName
    <3> QED
      BY <2>2, <2>5, <3>1 DEF Request
  <2> QED
    BY <2>3, <2>4, <2>5
<1> QED
  BY <1>1, <1>2

\* A host that is used is answered by the name its zone is asked for.
LEMMA UsableCovered ==
  ASSUME NEW in, ZonedInput(in), NEW host \in Usable(in)
  PROVE  \E r \in Grouped(in) : \E n \in r.names : Covers(n, host)
<1> DEFINE zone == LongestMatchingZone(host, in.zones)
           n == RequiredName(host, zone)
<1>1. /\ host \in DnsName /\ zone \in in.zones /\ zone \in DnsName
      /\ WithinZone(Stem(host), zone) /\ ~Malformed(host)
      /\ n \in Required(in, zone)
  BY UsableZoned
<1>2. \/ n = host
      \/ ~IsWildcard(host) /\ Len(host) > 1 /\ n = WildcardOf(Parent(host))
  BY <1>1, RequiredShape
<1>3. Covers(n, host)
  <2>1. CASE n = host
    BY <2>1 DEF Covers
  <2>2. CASE ~IsWildcard(host) /\ Len(host) > 1 /\ n = WildcardOf(Parent(host))
    <3>1. Parent(host) \in DnsName
      BY <1>1, <2>2, ParentName
    <3>2. IsWildcard(n) /\ Parent(n) = Parent(host)
      BY <2>2, <3>1, WildcardName
    <3> QED
      BY <2>2, <3>2 DEF Covers
  <2> QED
    BY <1>2, <2>1, <2>2
<1>4. \E r \in Grouped(in) : n \in r.names
  <2> HIDE DEF zone, n
  <2> QED
    BY <1>1, GroupedCovers
<1> QED
  BY <1>3, <1>4

LEMMA FiniteImage ==
  ASSUME NEW S, IsFiniteSet(S), NEW T, NEW f \in [S -> T]
  PROVE  IsFiniteSet({f[x] : x \in S})
<1>1. f \in Surjection(S, {f[x] : x \in S})
  BY DEF Surjection
<1> QED
  BY <1>1, FS_Surjection

LEMMA MentionedFinite ==
  ASSUME NEW in, Plannable(in)
  PROVE  IsFiniteSet(Mentioned(in))
<1> DEFINE wild == [z \in in.zones |-> WildcardOf(z)]
           inner == {g \in Demanded(in) : Len(g) > 1 /\ ~IsWildcard(g)}
           beside == [h \in inner |-> WildcardOf(Parent(h))]
<1>1. IsFiniteSet({wild[z] : z \in in.zones})
  <2>1. wild \in [in.zones -> {WildcardOf(z) : z \in in.zones}]
    OBVIOUS
  <2>2. IsFiniteSet(in.zones)
    BY DEF Plannable
  <2> HIDE DEF wild
  <2> QED
    BY <2>1, <2>2, FiniteImage
<1>2. {wild[z] : z \in in.zones} = {WildcardOf(z) : z \in in.zones}
  OBVIOUS
<1>3. IsFiniteSet(Demanded(in))
  BY <1>1, <1>2, FS_Union, FS_EmptySet DEF Demanded, Plannable
<1>4. IsFiniteSet(inner)
  BY <1>3, FS_Subset
<1>5. IsFiniteSet({beside[h] : h \in inner})
  <2>1. beside \in [inner -> {WildcardOf(Parent(h)) : h \in inner}]
    OBVIOUS
  <2> HIDE DEF beside, inner
  <2> QED
    BY <1>4, <2>1, FiniteImage
<1>6. {beside[h] : h \in inner} = {WildcardOf(Parent(h)) : h \in inner}
  OBVIOUS
<1>7. IsFiniteSet(in.zones \cup Demanded(in))
  BY <1>3, FS_Union DEF Plannable
<1> QED
  BY <1>5, <1>6, <1>7, FS_Union DEF Mentioned

LEMMA SeedMentioned ==
  ASSUME NEW in, Plannable(in), NEW r \in Grouped(in)
  PROVE  /\ r.seed \in Mentioned(in) /\ r.zone \in Mentioned(in)
         /\ r.names \subseteq Mentioned(in) /\ r.names \subseteq DnsName
<1>1. /\ r.zone \in in.zones /\ r.names \subseteq Required(in, r.zone) /\ r.seed \in r.names
  BY GroupedShape
<1>2. \A n \in Required(in, r.zone) : n \in Mentioned(in) /\ n \in DnsName
  BY <1>1, RequiredMentioned DEF Plannable
<1> QED
  BY <1>1, <1>2 DEF Mentioned

LEMMA GroupedFinite ==
  ASSUME NEW in, Plannable(in)
  PROVE  IsFiniteSet(Grouped(in))
<1> DEFINE seed == [r \in Grouped(in) |-> r.seed]
<1>1. seed \in [Grouped(in) -> Mentioned(in)]
  BY SeedMentioned
<1>2. \A r, s \in Grouped(in) : seed[r] = seed[s] => r = s
  BY GroupedShape, GroupedDisjoint
<1>3. seed \in Injection(Grouped(in), Mentioned(in))
  BY <1>1, <1>2 DEF Injection, IsInjective
<1> QED
  BY <1>3, MentionedFinite, FS_Injection

-----------------------------------------------------------------------------
(***************************************************************************)
(* The order of the list                                                   *)
(***************************************************************************)
\* A request's place in the list, and what decides between two of them.
Key(r) ==
  /\ VaultRank(Derive(r.seed)) \in Nat /\ DnsRank(r.zone) \in Nat /\ DnsRank(r.seed) \in Nat
Flag(r) == IF IsWildcard(r.seed) THEN 0 ELSE 1

LEMMA BeforeKeys ==
  ASSUME NEW r, NEW s, Key(r), Key(s)
  PROVE  Before(r, s) <=>
           \/ VaultRank(Derive(r.seed)) < VaultRank(Derive(s.seed))
           \/ /\ VaultRank(Derive(r.seed)) = VaultRank(Derive(s.seed))
              /\ \/ DnsRank(r.zone) < DnsRank(s.zone)
                 \/ /\ DnsRank(r.zone) = DnsRank(s.zone)
                    /\ \/ Flag(r) < Flag(s)
                       \/ Flag(r) = Flag(s) /\ DnsRank(r.seed) < DnsRank(s.seed)
<1> DEFINE k == SortKey(r)
           l == SortKey(s)
<1>1. /\ k[1] = VaultRank(Derive(r.seed)) /\ k[2] = DnsRank(r.zone)
      /\ k[3] = Flag(r) /\ k[4] = DnsRank(r.seed)
      /\ l[1] = VaultRank(Derive(s.seed)) /\ l[2] = DnsRank(s.zone)
      /\ l[3] = Flag(s) /\ l[4] = DnsRank(s.seed)
  BY DEF SortKey, Flag
<1> HIDE DEF k, l
<1>2. Before(r, s) <=> \E i \in 1..4 : k[i] < l[i] /\ \A j \in 1..(i - 1) : k[j] = l[j]
  BY DEF Before, k, l
<1>3. (\E i \in 1..4 : k[i] < l[i] /\ \A j \in 1..(i - 1) : k[j] = l[j]) <=>
        \/ k[1] < l[1]
        \/ k[2] < l[2] /\ k[1] = l[1]
        \/ k[3] < l[3] /\ k[1] = l[1] /\ k[2] = l[2]
        \/ k[4] < l[4] /\ k[1] = l[1] /\ k[2] = l[2] /\ k[3] = l[3]
  <2>1. ASSUME NEW i \in 1..4, k[i] < l[i], \A j \in 1..(i - 1) : k[j] = l[j]
        PROVE  \/ k[1] < l[1]
               \/ k[2] < l[2] /\ k[1] = l[1]
               \/ k[3] < l[3] /\ k[1] = l[1] /\ k[2] = l[2]
               \/ k[4] < l[4] /\ k[1] = l[1] /\ k[2] = l[2] /\ k[3] = l[3]
    <3>1. CASE i = 1
      BY <2>1, <3>1
    <3>2. CASE i = 2
      BY <2>1, <3>2
    <3>3. CASE i = 3
      BY <2>1, <3>3
    <3>4. CASE i = 4
      BY <2>1, <3>4
    <3> QED
      BY <3>1, <3>2, <3>3, <3>4
  <2>2. ASSUME k[1] < l[1] PROVE \E i \in 1..4 : k[i] < l[i] /\ \A j \in 1..(i - 1) : k[j] = l[j]
    <3> WITNESS 1 \in 1..4
    <3> QED BY <2>2
  <2>3. ASSUME k[2] < l[2] /\ k[1] = l[1]
        PROVE \E i \in 1..4 : k[i] < l[i] /\ \A j \in 1..(i - 1) : k[j] = l[j]
    <3> WITNESS 2 \in 1..4
    <3> QED BY <2>3
  <2>4. ASSUME k[3] < l[3] /\ k[1] = l[1] /\ k[2] = l[2]
        PROVE \E i \in 1..4 : k[i] < l[i] /\ \A j \in 1..(i - 1) : k[j] = l[j]
    <3> WITNESS 3 \in 1..4
    <3> QED BY <2>4
  <2>5. ASSUME k[4] < l[4] /\ k[1] = l[1] /\ k[2] = l[2] /\ k[3] = l[3]
        PROVE \E i \in 1..4 : k[i] < l[i] /\ \A j \in 1..(i - 1) : k[j] = l[j]
    <3> WITNESS 4 \in 1..4
    <3> QED BY <2>5
  <2> QED
    BY <2>1, <2>2, <2>3, <2>4, <2>5
<1> QED
  BY <1>1, <1>2, <1>3

\* A relation that puts a set in line.
Lines(R, S) ==
  /\ \A x \in S : <<x, x>> \notin R
  /\ \A x, y, z \in S : <<x, y>> \in R /\ <<y, z>> \in R => <<x, z>> \in R
  /\ \A x, y \in S : x # y => <<x, y>> \in R \/ <<y, x>> \in R

BeforeIn(requests) == {p \in requests \X requests : Before(p[1], p[2])}
ClaimsIn(requests, existing) ==
  {p \in requests \X requests : ClaimsFirst(p[1], p[2], requests, existing)}

LEMMA GroupedKey ==
  ASSUME NEW in, Plannable(in), NEW r \in Grouped(in)
  PROVE  Key(r)
BY SeedMentioned DEF Key, Plannable, Ranked

\* The list has an order: requests that compare equal are named after the same
\* name, and so are the same.
LEMMA BeforeLines ==
  ASSUME NEW in, Plannable(in)
  PROVE  Lines(BeforeIn(Grouped(in)), Grouped(in))
<1> DEFINE G == Grouped(in)
<1>1. \A r, s \in G : Key(r) /\ Key(s) /\ Flag(r) \in Nat /\ Flag(s) \in Nat
  BY GroupedKey DEF Flag
<1>2. \A r, s \in G : <<r, s>> \in BeforeIn(G) <=> Before(r, s)
  BY DEF BeforeIn
<1>3. ASSUME NEW r \in G PROVE ~Before(r, r)
  BY <1>1, BeforeKeys DEF Key
<1>4. ASSUME NEW r \in G, NEW s \in G, NEW t \in G, Before(r, s), Before(s, t)
      PROVE  Before(r, t)
  <2>1. Key(r) /\ Key(s) /\ Key(t) /\ Flag(r) \in Nat /\ Flag(s) \in Nat /\ Flag(t) \in Nat
    BY <1>1
  <2> QED
    BY <1>4, <2>1, BeforeKeys DEF Key
<1>5. ASSUME NEW r \in G, NEW s \in G, ~Before(r, s), ~Before(s, r)
      PROVE  r = s
  <2>1. Key(r) /\ Key(s) /\ Flag(r) \in Nat /\ Flag(s) \in Nat
    BY <1>1
  <2>2. DnsRank(r.seed) = DnsRank(s.seed)
    BY <1>5, <2>1, BeforeKeys DEF Key
  <2>3. r.seed = s.seed
    BY <2>2, SeedMentioned DEF Plannable, Ranked
  <2> QED
    BY <2>3, GroupedShape, GroupedDisjoint
<1> QED
  BY <1>2, <1>3, <1>4, <1>5 DEF Lines

\* What exists comes first, and the order of the list decides otherwise.
LEMMA ClaimsLines ==
  ASSUME NEW in, Plannable(in), NEW existing
  PROVE  Lines(ClaimsIn(Grouped(in), existing), Grouped(in))
<1> DEFINE G == Grouped(in)
           I == {q \in G : NameOf(q, G) \in existing}
           B == BeforeIn(G)
           C == ClaimsIn(G, existing)
<1>1. \A r, s \in G : <<r, s>> \in C <=>
        IF r \in I <=> s \in I THEN <<r, s>> \in B ELSE r \in I
  BY DEF ClaimsIn, ClaimsFirst, BeforeIn
<1>2. Lines(B, G)
  BY BeforeLines
<1> HIDE DEF G, I, B, C
<1>3. ASSUME NEW r \in G PROVE <<r, r>> \notin C
  BY <1>1, <1>2 DEF Lines
<1>4. ASSUME NEW r \in G, NEW s \in G, NEW t \in G, <<r, s>> \in C, <<s, t>> \in C
      PROVE  <<r, t>> \in C
  <2>1. <<r, s>> \in B /\ <<s, t>> \in B => <<r, t>> \in B
    BY <1>2 DEF Lines
  <2>2. <<r, s>> \in C /\ <<s, t>> \in C
    BY <1>4
  <2>3. /\ <<r, s>> \in C <=> IF r \in I <=> s \in I THEN <<r, s>> \in B ELSE r \in I
        /\ <<s, t>> \in C <=> IF s \in I <=> t \in I THEN <<s, t>> \in B ELSE s \in I
        /\ <<r, t>> \in C <=> IF r \in I <=> t \in I THEN <<r, t>> \in B ELSE r \in I
    BY <1>1
  <2> QED
    BY <2>1, <2>2, <2>3
<1>5. ASSUME NEW r \in G, NEW s \in G, r # s
      PROVE  <<r, s>> \in C \/ <<s, r>> \in C
  <2>1. <<r, s>> \in B \/ <<s, r>> \in B
    BY <1>2, <1>5 DEF Lines
  <2> QED
    BY <1>1, <2>1
<1>6. Lines(C, G)
  BY <1>3, <1>4, <1>5 DEF Lines
<1> QED
  BY <1>6 DEF C, G

-----------------------------------------------------------------------------
(***************************************************************************)
(* Key Vault names                                                         *)
(***************************************************************************)
\* Certificates that are asked for never get the same object: of those that
\* derive one name, the first keeps it, and a digest tells the others apart.
LEMMA NamesDistinct ==
  ASSUME NEW in, Plannable(in), NEW r \in Grouped(in), NEW s \in Grouped(in),
         NameOf(r, Grouped(in)) = NameOf(s, Grouped(in))
  PROVE  r = s
<1> DEFINE G == Grouped(in)
           later(q) == \E p \in G : Before(p, q) /\ Derive(p.seed) = Derive(q.seed)
<1>1. ASSUME NEW q \in G
      PROVE  /\ NameOf(q, G).words = Derive(q.seed).words
             /\ NameOf(q, G).digest = IF later(q) THEN q.names ELSE {}
             /\ Derive(q.seed) = [words |-> Derive(q.seed).words, digest |-> {}]
             /\ q.names # {}
  <2>1. Derive(q.seed) = [words |-> Derive(q.seed).words, digest |-> {}]
    BY DEF Derive
  <2>2. CASE later(q)
    <3>1. NameOf(q, G) = [Derive(q.seed) EXCEPT !.digest = q.names]
      BY <2>2 DEF NameOf, Disambiguate
    <3> QED
      BY <2>1, <2>2, <3>1, GroupedShape
  <2>3. CASE ~later(q)
    <3>1. NameOf(q, G) = Derive(q.seed)
      BY <2>3 DEF NameOf
    <3> QED
      BY <2>1, <2>3, <3>1, GroupedShape
  <2> QED
    BY <2>2, <2>3
<1>2. Derive(r.seed) = Derive(s.seed)
  <2>1. Derive(r.seed).words = Derive(s.seed).words
    BY <1>1
  <2>2. Derive(r.seed) = [words |-> Derive(r.seed).words, digest |-> {}]
    BY DEF Derive
  <2>3. Derive(s.seed) = [words |-> Derive(s.seed).words, digest |-> {}]
    BY DEF Derive
  <2> QED
    BY <2>1, <2>2, <2>3, Zenon
<1>3. SUFFICES ASSUME r # s PROVE FALSE
  OBVIOUS
<1>4. Before(r, s) \/ Before(s, r)
  <2>1. <<r, s>> \in BeforeIn(G) \/ <<s, r>> \in BeforeIn(G)
    BY <1>3, BeforeLines DEF Lines
  <2> QED
    BY <2>1 DEF BeforeIn
<1>5. later(r) \/ later(s)
  BY <1>2, <1>4
<1>6. r.names = s.names
  BY <1>1, <1>5
<1> QED
  BY <1>3, <1>6, GroupedShape, GroupedDisjoint

-----------------------------------------------------------------------------
(***************************************************************************)
(* The cap                                                                 *)
(***************************************************************************)
\* Who stands before x in a line, and the first max of the line.
Ahead(R, S, x) == {y \in S : <<y, x>> \in R}
First(R, S, max) == {x \in S : Cardinality(Ahead(R, S, x)) < max}

LEMMA AheadGrows ==
  ASSUME NEW S, IsFiniteSet(S), NEW R, Lines(R, S), NEW x \in S, NEW y \in S, <<x, y>> \in R
  PROVE  /\ Cardinality(Ahead(R, S, x)) \in Nat /\ Cardinality(Ahead(R, S, y)) \in Nat
         /\ Cardinality(Ahead(R, S, x)) < Cardinality(Ahead(R, S, y))
<1>1. IsFiniteSet(Ahead(R, S, x)) /\ IsFiniteSet(Ahead(R, S, y))
  BY FS_Subset DEF Ahead
<1>2. x \notin Ahead(R, S, x)
  BY DEF Lines, Ahead
<1>3. Ahead(R, S, x) \cup {x} \in SUBSET Ahead(R, S, y)
  BY DEF Lines, Ahead
<1>4. Cardinality(Ahead(R, S, x) \cup {x}) = Cardinality(Ahead(R, S, x)) + 1
  BY <1>1, <1>2, FS_AddElement
<1>5. Cardinality(Ahead(R, S, x) \cup {x}) <= Cardinality(Ahead(R, S, y))
  BY <1>1, <1>3, FS_Subset
<1> QED
  BY <1>1, <1>4, <1>5, FS_CardinalityType

\* Whoever is among the first has everybody before him among them.
LEMMA FirstClosed ==
  ASSUME NEW S, IsFiniteSet(S), NEW R, Lines(R, S), NEW max \in Nat,
         NEW x \in First(R, S, max), NEW y \in S, y \notin First(R, S, max)
  PROVE  <<x, y>> \in R
<1>1. x \in S /\ x # y /\ Cardinality(Ahead(R, S, x)) < max
      /\ ~(Cardinality(Ahead(R, S, y)) < max)
  BY DEF First
<1>2. CASE <<y, x>> \in R
  <2>1. /\ Cardinality(Ahead(R, S, y)) < Cardinality(Ahead(R, S, x))
        /\ Cardinality(Ahead(R, S, y)) \in Nat /\ Cardinality(Ahead(R, S, x)) \in Nat
    BY <1>1, <1>2, AheadGrows
  <2> QED
    BY <1>1, <2>1
<1> QED
  BY <1>1, <1>2 DEF Lines

\* There are no more than max of them, and no fewer unless they are all.
LEMMA FirstCounted ==
  ASSUME NEW S, IsFiniteSet(S), NEW R, Lines(R, S), NEW max \in Nat
  PROVE  /\ IsFiniteSet(First(R, S, max)) /\ Cardinality(First(R, S, max)) <= max
         /\ First(R, S, max) # S => Cardinality(First(R, S, max)) = max
<1> DEFINE F == First(R, S, max)
           place == [x \in F |-> Cardinality(Ahead(R, S, x))]
<1>1. IsFiniteSet(F)
  BY FS_Subset DEF First
<1>2. \A x \in S : Cardinality(Ahead(R, S, x)) \in Nat
  BY FS_Subset, FS_CardinalityType DEF Ahead
<1>3. place \in [F -> 0..(max - 1)]
  BY <1>2 DEF First
<1>4. ASSUME NEW x \in F, NEW y \in F, place[x] = place[y]
      PROVE  x = y
  <2>1. x \in S /\ y \in S
    BY DEF First
  <2>2. Cardinality(Ahead(R, S, x)) = Cardinality(Ahead(R, S, y))
    BY <1>4
  <2>3. <<x, y>> \notin R
    BY <1>2, <2>1, <2>2, AheadGrows
  <2>4. <<y, x>> \notin R
    BY <1>2, <2>1, <2>2, AheadGrows
  <2> QED
    BY <2>1, <2>3, <2>4 DEF Lines
<1>5. place \in Injection(F, 0..(max - 1))
  BY <1>3, <1>4 DEF Injection, IsInjective
<1>6. IsFiniteSet(0..(max - 1)) /\ Cardinality(0..(max - 1)) = max
  BY FS_Interval
<1>7. Cardinality(F) <= max
  BY <1>5, <1>6, FS_Injection
<1>8. ASSUME F # S PROVE Cardinality(F) >= max
  <2> DEFINE places == {Cardinality(Ahead(R, S, x)) : x \in S \ F}
  <2>1. places \in SUBSET Nat /\ places # {}
    BY <1>2, <1>8 DEF First
  <2>2. PICK least \in places : \A k \in places : least <= k
    BY <2>1, LeastNat
  <2>3. PICK x \in S \ F : least = Cardinality(Ahead(R, S, x))
    BY <2>2
  <2>4. least >= max /\ least \in Nat
    BY <1>2, <2>3 DEF First
  <2>5. ASSUME NEW y \in Ahead(R, S, x) PROVE y \in F
    <3>1. y \in S /\ <<y, x>> \in R
      BY DEF Ahead
    <3>2. Cardinality(Ahead(R, S, y)) < least /\ Cardinality(Ahead(R, S, y)) \in Nat
      BY <2>3, <3>1, AheadGrows
    <3>3. y \in S \ F => least <= Cardinality(Ahead(R, S, y))
      BY <2>2
    <3> QED
      BY <2>4, <3>1, <3>2, <3>3
  <2>6. Cardinality(Ahead(R, S, x)) <= Cardinality(F)
    BY <1>1, <2>5, FS_Subset
  <2> QED
    BY <1>1, <2>3, <2>4, <2>6, FS_CardinalityType
<1> QED
  BY <1>1, <1>7, <1>8, FS_CardinalityType

\* A line has a head.
LEMMA LineHead ==
  ASSUME NEW S, IsFiniteSet(S), S # {}, NEW R, Lines(R, S)
  PROVE  \E x \in S : \A y \in S \ {x} : <<x, y>> \in R
<1> DEFINE places == {Cardinality(Ahead(R, S, x)) : x \in S}
<1>1. places \in SUBSET Nat /\ places # {}
  <2>1. \A x \in S : Cardinality(Ahead(R, S, x)) \in Nat
    BY FS_Subset, FS_CardinalityType DEF Ahead
  <2> QED
    BY <2>1
<1>2. PICK least \in places : \A k \in places : least <= k
  BY <1>1, LeastNat
<1>3. PICK x \in S : least = Cardinality(Ahead(R, S, x))
  BY <1>2
<1>4. ASSUME NEW y \in S \ {x} PROVE <<x, y>> \in R
  <2>1. CASE <<y, x>> \in R
    <3>1. Cardinality(Ahead(R, S, y)) < least /\ Cardinality(Ahead(R, S, y)) \in Nat /\ least \in Nat
      BY <1>3, <2>1, AheadGrows
    <3>2. least <= Cardinality(Ahead(R, S, y))
      BY <1>2
    <3> QED
      BY <3>1, <3>2
  <2> QED
    BY <1>4, <2>1 DEF Lines
<1> QED
  BY <1>4

\* The cap keeps the first of the line of claims.
LEMMA KeptFirst ==
  ASSUME NEW in
  PROVE  /\ in.max <= 0 => Kept(in) = Grouped(in)
         /\ ~(in.max <= 0) =>
              Kept(in) = First(ClaimsIn(Grouped(in), in.existing), Grouped(in), in.max)
<1> DEFINE G == Grouped(in)
<1>1. \A r \in G : Ahead(ClaimsIn(G, in.existing), G, r)
                     = {s \in G : ClaimsFirst(s, r, G, in.existing)}
  BY DEF Ahead, ClaimsIn
<1> QED
  BY <1>1 DEF Kept, First

\* A request that exists and gets no slot gives way to others that exist.
LEMMA KeptIssued ==
  ASSUME NEW in, Plannable(in), in.max \in Nat,
         NEW r \in Grouped(in), r \notin Kept(in), NameOf(r, Grouped(in)) \in in.existing,
         NEW s \in Kept(in)
  PROVE  NameOf(s, Grouped(in)) \in in.existing
<1> DEFINE G == Grouped(in)
           C == ClaimsIn(G, in.existing)
<1>1. Kept(in) = First(C, G, in.max)
  BY KeptFirst
<1>2. s \in G /\ IsFiniteSet(G) /\ Lines(C, G)
  BY GroupedFinite, ClaimsLines DEF Kept
<1>3. <<s, r>> \in C
  <2> HIDE DEF C, G
  <2> QED
    BY <1>1, <1>2, FirstClosed DEF G
<1> QED
  BY <1>3 DEF ClaimsIn, ClaimsFirst

\* Planning again once the plan has been generated gives the slots to the
\* same requests: what is generated claims its slots before all else.
LEMMA KeptStable ==
  ASSUME NEW in, Plannable(in), in.max \in Nat,
         NEW again, Plannable(again), again.max = in.max, Grouped(again) = Grouped(in),
         again.existing = in.existing \cup {NameOf(r, Grouped(in)) : r \in Kept(in)}
  PROVE  Kept(again) = Kept(in)
<1> DEFINE G == Grouped(in)
           C == ClaimsIn(G, in.existing)
           D == ClaimsIn(G, again.existing)
           K == Kept(in)
<1>1. CASE in.max <= 0
  BY <1>1, KeptFirst
<1>2. CASE ~(in.max <= 0)
  <2>1. /\ K = First(C, G, in.max) /\ Kept(again) = First(D, G, in.max)
        /\ IsFiniteSet(G) /\ Lines(C, G) /\ Lines(D, G)
    BY <1>2, KeptFirst, GroupedFinite, ClaimsLines
  <2>2. /\ IsFiniteSet(K) /\ Cardinality(K) <= in.max
        /\ K # G => Cardinality(K) = in.max
        /\ IsFiniteSet(Kept(again)) /\ Cardinality(Kept(again)) <= in.max
    <3> HIDE DEF C, D, G, K
    <3> QED
      BY <2>1, FirstCounted
  <2>3. \A r \in G : NameOf(r, G) \in again.existing <=> NameOf(r, G) \in in.existing \/ r \in K
    BY NamesDistinct DEF Kept
  <2>4. ASSUME NEW r \in K, NEW s \in G, s \notin K PROVE <<s, r>> \notin D
    <3>1. r \in G /\ NameOf(r, G) \in again.existing
      BY <2>3 DEF Kept
    <3>2. <<r, s>> \in C /\ <<r, r>> \notin C /\ (<<s, r>> \in C => <<r, r>> \in C)
      <4>1. <<r, s>> \in C
        <5> HIDE DEF C, G, K
        <5> QED
          BY <2>1, <2>4, FirstClosed
      <4> QED
        BY <2>1, <3>1, <4>1 DEF Lines
    <3>3. <<s, r>> \notin C
      BY <3>2
    <3>4. NameOf(s, G) \in in.existing => NameOf(r, G) \in in.existing
      BY <3>2 DEF ClaimsIn, ClaimsFirst
    <3>5. CASE NameOf(s, G) \in again.existing
      <4>1. NameOf(s, G) \in in.existing /\ NameOf(r, G) \in in.existing
        BY <2>3, <2>4, <3>4, <3>5
      <4>2. ~Before(s, r)
        BY <3>1, <3>3, <4>1 DEF ClaimsIn, ClaimsFirst
      <4> QED
        BY <3>1, <3>5, <4>2 DEF ClaimsIn, ClaimsFirst
    <3>6. CASE NameOf(s, G) \notin again.existing
      BY <3>1, <3>6 DEF ClaimsIn, ClaimsFirst
    <3> QED
      BY <3>5, <3>6
  <2>5. K \subseteq Kept(again)
    <3>1. SUFFICES ASSUME NEW r \in K PROVE r \in First(D, G, in.max)
      BY <2>1
    <3>2. r \in G
      BY DEF Kept
    <3>3. Ahead(D, G, r) \in SUBSET (K \ {r})
      BY <2>1, <2>4, <3>2 DEF Ahead, Lines
    <3>4. IsFiniteSet(K \ {r}) /\ Cardinality(K \ {r}) = Cardinality(K) - 1
      BY <2>2, FS_RemoveElement
    <3>5. /\ Cardinality(Ahead(D, G, r)) <= Cardinality(K \ {r})
          /\ Cardinality(Ahead(D, G, r)) \in Nat /\ Cardinality(K) \in Nat
      BY <2>2, <3>3, <3>4, FS_Subset, FS_CardinalityType
    <3> QED
      BY <2>2, <3>2, <3>4, <3>5 DEF First
  <2>6. Kept(again) \subseteq G
    BY DEF Kept
  <2>7. CASE K = G
    BY <2>5, <2>6, <2>7
  <2>8. CASE K # G
    <3>1. Cardinality(Kept(again)) <= Cardinality(K)
      BY <2>2, <2>8
    <3>2. Cardinality(K) <= Cardinality(Kept(again)) /\ Cardinality(Kept(again)) \in Nat
          /\ Cardinality(K) \in Nat
      BY <2>2, <2>5, FS_Subset, FS_CardinalityType
    <3>3. Cardinality(K) = Cardinality(Kept(again))
      BY <3>1, <3>2
    <3> QED
      BY <2>2, <2>5, <3>3, FS_Subset
  <2> QED
    BY <2>7, <2>8
<1> QED
  BY <1>1, <1>2

-----------------------------------------------------------------------------
(***************************************************************************)
(* The words of a name                                                     *)
(***************************************************************************)
\* f appends the words of the first k labels, the last label first.
Flattens(f, words, k) ==
  /\ f \in [0..k -> Seq(Words)]
  /\ \A i \in 0..k : f[i] = IF i = 0 THEN <<>> ELSE words[i] \o f[i - 1]

LEMMA FlattensStep ==
  ASSUME NEW k \in Nat, NEW words, words[k + 1] \in Seq(Words), NEW f, Flattens(f, words, k)
  PROVE  \E g : Flattens(g, words, k + 1)
<1> DEFINE next == words[k + 1] \o f[k]
           g == [i \in 0..(k + 1) |-> IF i = k + 1 THEN next ELSE f[i]]
<1>1. f \in [0..k -> Seq(Words)] /\ f[k] \in Seq(Words)
  BY DEF Flattens
<1>2. next \in Seq(Words)
  BY <1>1
<1>3. \A i \in 0..k : f[i] = IF i = 0 THEN <<>> ELSE words[i] \o f[i - 1]
  BY DEF Flattens
<1>4. g[k + 1] = words[k + 1] \o f[k] /\ \A i \in 0..k : g[i] = f[i]
  <2>1. k + 1 \in 0..(k + 1) /\ k + 1 \notin 0..k /\ 0..k \subseteq 0..(k + 1)
    OBVIOUS
  <2>2. \A i \in 0..(k + 1) : g[i] = IF i = k + 1 THEN next ELSE f[i]
    <3> HIDE DEF next
    <3> QED
      OBVIOUS
  <2> HIDE DEF g
  <2> QED
    BY <2>1, <2>2
<1>5. g \in [0..(k + 1) -> Seq(Words)]
  <2> HIDE DEF next
  <2> QED
    BY <1>1, <1>2
<1> HIDE DEF g, next
<1>6. ASSUME NEW i \in 0..(k + 1)
      PROVE  g[i] = IF i = 0 THEN <<>> ELSE words[i] \o g[i - 1]
  <2>1. CASE i = k + 1
    <3>1. i # 0 /\ i - 1 = k /\ k \in 0..k
      BY <2>1
    <3> QED
      BY <1>4, <2>1, <3>1
  <2>2. CASE i = 0
    <3>1. g[0] = f[0] /\ f[0] = <<>>
      BY <1>3, <1>4
    <3> QED
      BY <2>2, <3>1
  <2>3. CASE i # 0 /\ i # k + 1
    <3>1. i \in 0..k /\ i - 1 \in 0..k
      BY <2>3
    <3>2. g[i] = f[i] /\ g[i - 1] = f[i - 1] /\ f[i] = words[i] \o f[i - 1]
      BY <1>3, <1>4, <2>3, <3>1
    <3> QED
      BY <2>3, <3>2
  <2> QED
    BY <2>1, <2>2, <2>3
<1> QED
  BY <1>5, <1>6 DEF Flattens

LEMMA FlattensExists ==
  ASSUME NEW k \in Nat, NEW words, \A i \in 1..k : words[i] \in Seq(Words)
  PROVE  \E f : Flattens(f, words, k)
<1> DEFINE bad == {j \in 0..k : ~\E f : Flattens(f, words, j)}
<1>1. SUFFICES ASSUME bad # {} PROVE FALSE
  <2>1. k \in 0..k
    OBVIOUS
  <2> QED
    BY <2>1
<1>2. bad \in SUBSET Nat
  OBVIOUS
<1>3. PICK j \in bad : \A l \in bad : j <= l
  <2> HIDE DEF bad
  <2> QED
    BY <1>1, <1>2, LeastNat
<1>4. j \in 0..k /\ j \in Nat /\ ~\E f : Flattens(f, words, j)
  OBVIOUS
<1>5. j # 0
  <2>1. Flattens([i \in 0..0 |-> <<>>], words, 0)
    BY DEF Flattens
  <2> QED
    BY <1>4, <2>1
<1>6. j - 1 \in 0..k /\ ~(j <= j - 1) /\ j - 1 \in Nat /\ j = (j - 1) + 1 /\ j \in 1..k
  BY <1>4, <1>5
<1>7. j - 1 \notin bad
  BY <1>3, <1>6
<1>8. \E f : Flattens(f, words, j - 1)
  BY <1>6, <1>7
<1>9. words[(j - 1) + 1] \in Seq(Words)
  BY <1>6
<1>10. \E g : Flattens(g, words, (j - 1) + 1)
  BY <1>6, <1>8, <1>9, FlattensStep
<1> QED
  BY <1>4, <1>6, <1>10

\* Key Vault names are made of words.
LEMMA FlattenType ==
  ASSUME NEW n \in DnsName
  PROVE  Flatten(n) \in Seq(Words)
<1> DEFINE words == [i \in 1..Len(n) |-> IF n[i] = Star THEN <<Wildcard>> ELSE n[i]]
           Is(f) == f = [i \in 0..Len(n) |-> IF i = 0 THEN <<>>
                           ELSE (IF n[i] = Star THEN <<Wildcard>> ELSE n[i]) \o f[i - 1]]
           tail == CHOOSE f : Is(f)
<1>1. n \in Seq(Label) /\ Len(n) \in Nat /\ Wildcard \in Words
  BY WordsAssumption DEF DnsName
<1>2. \A i \in 1..Len(n) : words[i] \in Seq(Words)
  <2>1. \A i \in 1..Len(n) : n[i] = Star \/ n[i] \in Seq(Words)
    BY <1>1 DEF Label
  <2>2. <<Wildcard>> \in Seq(Words)
    BY <1>1
  <2> QED
    BY <2>1, <2>2
<1>3. PICK f : Flattens(f, words, Len(n))
  <2> HIDE DEF words
  <2> QED
    BY <1>1, <1>2, FlattensExists
<1>4. Is(f)
  <2>1. \A i \in 0..Len(n) : f[i] = IF i = 0 THEN <<>>
                           ELSE (IF n[i] = Star THEN <<Wildcard>> ELSE n[i]) \o f[i - 1]
    <3>1. \A i \in 0..Len(n) : f[i] = IF i = 0 THEN <<>> ELSE words[i] \o f[i - 1]
      BY <1>3 DEF Flattens
    <3>2. \A i \in 0..Len(n) : i = 0 \/ i \in 1..Len(n)
      BY <1>1
    <3> QED
      BY <3>1, <3>2
  <2>2. f \in [0..Len(n) -> Seq(Words)]
    BY <1>3 DEF Flattens
  <2> QED
    BY <2>1, <2>2
<1>5. Is(tail)
  <2> HIDE DEF Is
  <2> QED
    BY <1>4
<1>6. Flatten(n) = tail[Len(n)]
  BY DEF Flatten
<1> HIDE DEF tail
<1>7. /\ tail[0] = <<>>
      /\ \A i \in 1..Len(n) : tail[i] = words[i] \o tail[i - 1]
  <2>1. ASSUME NEW i \in 0..Len(n)
        PROVE  tail[i] = IF i = 0 THEN <<>>
                           ELSE (IF n[i] = Star THEN <<Wildcard>> ELSE n[i]) \o tail[i - 1]
    BY <1>5
  <2>2. 0 \in 0..Len(n)
    BY <1>1
  <2>3. tail[0] = IF 0 = 0 THEN <<>>
                    ELSE (IF n[0] = Star THEN <<Wildcard>> ELSE n[0]) \o tail[0 - 1]
    BY <2>1, <2>2
  <2>4. ASSUME NEW i \in 1..Len(n) PROVE tail[i] = words[i] \o tail[i - 1]
    <3>1. i \in 0..Len(n) /\ i # 0
      BY <1>1
    <3> QED
      BY <2>1, <3>1
  <2> QED
    BY <2>3, <2>4
<1> DEFINE bad == {i \in 0..Len(n) : tail[i] \notin Seq(Words)}
<1>8. bad = {}
  <2>1. SUFFICES ASSUME bad # {} PROVE FALSE
    OBVIOUS
  <2>2. bad \in SUBSET Nat
    OBVIOUS
  <2>3. PICK j \in bad : \A l \in bad : j <= l
    <3> HIDE DEF bad
    <3> QED
      BY <2>1, <2>2, LeastNat
  <2>4. j \in 0..Len(n) /\ tail[j] \notin Seq(Words)
    OBVIOUS
  <2>5. j # 0
    <3>1. <<>> \in Seq(Words)
      OBVIOUS
    <3>2. tail[0] = <<>>
      BY <1>7
    <3> HIDE DEF words, bad
    <3> QED
      BY <2>4, <3>1, <3>2
  <2>6. j - 1 \in 0..Len(n) /\ ~(j <= j - 1) /\ j \in 1..Len(n)
    BY <1>1, <2>4, <2>5
  <2>7. tail[j - 1] \in Seq(Words)
    BY <2>3, <2>6
  <2>8. words[j] \in Seq(Words) /\ tail[j] = words[j] \o tail[j - 1]
    BY <1>2, <1>7, <2>6
  <2> HIDE DEF words, bad
  <2> QED
    BY <2>4, <2>7, <2>8
<1> QED
  BY <1>1, <1>6, <1>8

-----------------------------------------------------------------------------
(***************************************************************************)
(* The plan                                                                *)
(***************************************************************************)
\* Fewer hosts bring up fewer names.
LEMMA MentionedGrows ==
  ASSUME NEW in, NEW all, in.zones = all.zones, in.seed = all.seed, in.hosts \subseteq all.hosts
  PROVE  Mentioned(in) \subseteq Mentioned(all)
<1>1. Demanded(in) \subseteq Demanded(all)
  BY DEF Demanded
<1> QED
  BY <1>1 DEF Mentioned

\* What is asked for depends neither on what exists nor on the cap.
LEMMA ExistingIgnored ==
  ASSUME NEW in, NEW again, again.hosts = in.hosts, again.zones = in.zones,
         again.grouping = in.grouping, again.seed = in.seed
  PROVE  /\ Grouped(again) = Grouped(in) /\ Outside(again) = Outside(in)
         /\ Unusable(again) = Unusable(in)
         /\ Refused(again) <=> Refused(in)
<1>1. Demanded(again) = Demanded(in)
  BY DEF Demanded
<1>2. Outside(again) = Outside(in)
  BY <1>1 DEF Outside
<1>3. Unusable(again) = Unusable(in)
  BY <1>1, <1>2 DEF Unusable
<1>4. Usable(again) = Usable(in)
  BY <1>1, <1>2, <1>3 DEF Usable
<1>5. \A z : Required(again, z) = Required(in, z)
  BY <1>4 DEF Required
<1>6. Grouped(again) = Grouped(in)
  BY <1>5 DEF Grouped
<1>7. Refused(again) <=> Refused(in)
  BY <1>6 DEF Refused
<1> QED
  BY <1>2, <1>3, <1>6, <1>7

\* The certificate a request becomes.
Named(r, in) ==
  [name |-> NameOf(r, Grouped(in)), zone |-> r.zone, seed |-> r.seed, names |-> r.names]

\* BuildPlan either fails with nothing or names what the cap keeps.
LEMMA BuildFields ==
  ASSUME NEW in
  PROVE  /\ BuildPlan(in).ok = ~Refused(in)
         /\ BuildPlan(in).skipped = IF Refused(in) THEN {} ELSE SkippedHosts(in)
         /\ BuildPlan(in).certificates =
              IF Refused(in) THEN {} ELSE {Named(r, in) : r \in Kept(in)}
BY DEF BuildPlan, Plan, PlanError, Named

\* A host is covered by what is kept, or it is reported why it is not, and only
\* a host beside the zones is told to be beside them.
LEMMA PlanAccounts ==
  ASSUME NEW in, ZonedInput(in), NEW host \in Demanded(in)
  PROVE  \/ \E r \in Kept(in) : \E n \in r.names : Covers(n, host)
         \/ \E s \in SkippedHosts(in) :
              /\ s.host = host \/ Covers(s.host, host)
              /\ s.reason = "OutsideAllowlist" <=> ZonesOf(host, in.zones) = {}
<1>1. CASE host \in Outside(in)
  <2>1. [host |-> host, reason |-> "OutsideAllowlist"] \in SkippedHosts(in)
    BY <1>1 DEF SkippedHosts, Skipped
  <2>2. ZonesOf(host, in.zones) = {}
    BY <1>1 DEF Outside
  <2> QED
    BY <2>1, <2>2
<1>2. CASE host \in Unusable(in)
  <2>1. [host |-> host, reason |-> "Malformed"] \in SkippedHosts(in)
    BY <1>2 DEF SkippedHosts, Skipped
  <2>2. ZonesOf(host, in.zones) # {}
    BY <1>2 DEF Outside, Unusable
  <2> QED
    BY <2>1, <2>2
<1>3. CASE host \in Usable(in)
  <2>1. PICK r \in Grouped(in) : \E n \in r.names : Covers(n, host)
    BY <1>3, UsableCovered
  <2>2. PICK n \in r.names : Covers(n, host)
    BY <2>1
  <2>3. CASE r \in Kept(in)
    BY <2>2, <2>3
  <2>4. CASE r \notin Kept(in)
    <3>1. n \in UNION {q.names : q \in Grouped(in) \ Kept(in)}
      BY <2>2, <2>4
    <3>2. [host |-> n, reason |-> "MaxCertificates"] \in SkippedHosts(in)
      BY <3>1 DEF SkippedHosts, Skipped
    <3>3. ZonesOf(host, in.zones) # {}
      BY <1>3 DEF Outside, Usable
    <3> QED
      BY <2>2, <3>2, <3>3
  <2> QED
    BY <2>3, <2>4
<1> QED
  BY <1>1, <1>2, <1>3 DEF Usable

=============================================================================
