--------------------------- MODULE PlannerProofs ---------------------------
(***************************************************************************)
(* Theorems about Planner, for every policy and every set of hosts.        *)
(***************************************************************************)
EXTENDS Planner, WildcardPlanProofs

-----------------------------------------------------------------------------
(***************************************************************************)
(* A pass                                                                  *)
(***************************************************************************)
\* A pass plans only certificates whose names lie in their zone: the cap
\* takes certificates away, and naming and listeners leave their names alone.
LEMMA PlanZoned ==
  ASSUME NEW in, ZonedInput(in), NEW c \in DesiredState(in).certificates
  PROVE  InZone(c.names, c.zone, in.zones)
<1>1. PICK d \in BuildPlan(in).certificates : c.zone = d.zone /\ c.names = d.names
  BY DEF DesiredState
<1>2. PICK request \in Grouped(in) : d.zone = request.zone /\ d.names = request.names
  <2>1. BuildPlan(in).certificates = IF Refused(in) THEN {} ELSE {Named(r, in) : r \in Kept(in)}
    BY BuildFields
  <2>2. \A r : Named(r, in).zone = r.zone /\ Named(r, in).names = r.names
    BY DEF Named
  <2>3. Kept(in) \subseteq Grouped(in)
    BY DEF Kept
  <2> HIDE DEF Named
  <2> QED
    BY <1>1, <2>1, <2>2, <2>3
<1>3. InZone(Required(in, request.zone), request.zone, in.zones)
  BY GroupedNames, RequiredZoned
<1> QED
  BY <1>1, <1>2, <1>3, GroupedNames DEF InZone

\* The certificate a request becomes.
Listed(r, in) ==
  [name |-> NameOf(r, Grouped(in)), zone |-> r.zone, names |-> r.names,
   listeners |-> SplitListenerHostnames(r.names)]

\* A pass either fails with nothing or lists what the cap keeps.
LEMMA DesiredFields ==
  ASSUME NEW in
  PROVE  /\ DesiredState(in) = [ok |-> ~Refused(in),
              skipped |-> IF Refused(in) THEN {} ELSE SkippedHosts(in),
              certificates |-> IF Refused(in) THEN {} ELSE {Listed(r, in) : r \in Kept(in)}]
         /\ PlannedNames(DesiredState(in)) = IF Refused(in) THEN {}
                                             ELSE {NameOf(r, Grouped(in)) : r \in Kept(in)}
<1> DEFINE listed(c) == [name |-> c.name, zone |-> c.zone, names |-> c.names,
                         listeners |-> SplitListenerHostnames(c.names)]
           certificates == IF Refused(in) THEN {} ELSE {Listed(r, in) : r \in Kept(in)}
<1>1. /\ BuildPlan(in).ok = ~Refused(in)
      /\ BuildPlan(in).skipped = IF Refused(in) THEN {} ELSE SkippedHosts(in)
      /\ BuildPlan(in).certificates = IF Refused(in) THEN {} ELSE {Named(r, in) : r \in Kept(in)}
  BY BuildFields
<1>2. /\ \A r : listed(Named(r, in)) = Listed(r, in)
      /\ \A r : Listed(r, in).name = NameOf(r, Grouped(in))
  BY DEF Listed, Named
<1>3. DesiredState(in) = [ok |-> BuildPlan(in).ok, skipped |-> BuildPlan(in).skipped,
                          certificates |-> {listed(c) : c \in BuildPlan(in).certificates}]
  BY DEF DesiredState
<1> HIDE DEF listed
<1>4. {listed(c) : c \in BuildPlan(in).certificates} = certificates
  BY <1>1, <1>2
<1>5. DesiredState(in).certificates = certificates
  BY <1>3, <1>4
<1>6. PlannedNames(DesiredState(in)) = {c.name : c \in certificates}
  BY <1>5 DEF PlannedNames
<1> HIDE DEF Listed
<1>7. {c.name : c \in certificates} = IF Refused(in) THEN {}
                                      ELSE {NameOf(r, Grouped(in)) : r \in Kept(in)}
  BY <1>2
<1> QED
  BY <1>1, <1>3, <1>4, <1>6, <1>7

-----------------------------------------------------------------------------
(***************************************************************************)
(* The inputs of a pass                                                    *)
(***************************************************************************)
\* What an input has from the policy it stems from: zones and seed never
\* change, and the hosts it routes are the policy's or come and go.
Stems(in, base) ==
  /\ in.zones = base.zones /\ in.seed = base.seed
  /\ in.hosts \subseteq base.hosts \cup Hosts

LEMMA StemsPlannable ==
  ASSUME NEW in \in PlanInput, NEW base \in Inputs, Stems(in, base)
  PROVE  Plannable(in)
<1> DEFINE all == [base EXCEPT !.hosts = @ \cup Hosts]
<1>1. base \in PlanInput
  BY InputsAssumption
<1>2. all.hosts = base.hosts \cup Hosts /\ all.zones = base.zones /\ all.seed = base.seed
  BY <1>1 DEF PlanInput
<1>3. IsFiniteSet(all.hosts) /\ IsFiniteSet(all.zones) /\ Ranked(Mentioned(all))
  BY <1>2, RanksAssumption
<1> HIDE DEF all
<1>4. Mentioned(in) \subseteq Mentioned(all)
  BY <1>2, MentionedGrows DEF Stems
<1>5. Ranked(Mentioned(in))
  BY <1>3, <1>4 DEF Ranked
<1>6. IsFiniteSet(in.hosts) /\ IsFiniteSet(in.zones)
  BY <1>2, <1>3, FS_Subset DEF Stems
<1>7. ZonedInput(in)
  BY DEF PlanInput, ZonedInput
<1> QED
  BY <1>5, <1>6, <1>7 DEF Plannable

\* What is planned has a name that can exist.
LEMMA PlannedTyped ==
  ASSUME NEW in, Plannable(in)
  PROVE  PlannedNames(DesiredState(in)) \subseteq [words : Seq(Words), digest : SUBSET DnsName]
<1>1. SUFFICES ASSUME NEW r \in Grouped(in)
               PROVE  NameOf(r, Grouped(in)) \in [words : Seq(Words), digest : SUBSET DnsName]
  <2>1. Kept(in) \subseteq Grouped(in)
    BY DEF Kept
  <2>2. \/ PlannedNames(DesiredState(in)) = {}
        \/ PlannedNames(DesiredState(in)) = {NameOf(r, Grouped(in)) : r \in Kept(in)}
    BY DesiredFields
  <2> QED
    BY <2>1, <2>2
<1>2. r.names \in SUBSET DnsName /\ r.seed \in DnsName
  BY SeedMentioned, GroupedShape
<1>3. Derive(r.seed) \in [words : Seq(Words), digest : SUBSET DnsName]
  BY <1>2, FlattenType DEF Derive
<1>4. [Derive(r.seed) EXCEPT !.digest = r.names] \in [words : Seq(Words), digest : SUBSET DnsName]
  BY <1>2, <1>3
<1> QED
  BY <1>3, <1>4 DEF NameOf, Disambiguate

\* The last plan is that of the last input; what has come about since is that
\* hosts were routed, or are no longer.
PlanInv ==
  /\ input \in PlanInput /\ used \in PlanInput
  /\ used = [input EXCEPT !.hosts = used.hosts]
  /\ \E base \in Inputs : Stems(input, base) /\ Stems(used, base)
  /\ state = DesiredState(used)
  /\ changes \in 0..MaxChanges

LEMMA PlannableInv ==
  ASSUME PlanInv
  PROVE  /\ Plannable(input) /\ Plannable(used)
         /\ input.max \in Nat /\ used.max \in Nat
BY StemsPlannable DEF PlanInv, PlanInput

LEMMA StateFields ==
  ASSUME PlanInv
  PROVE  /\ state.ok = ~Refused(used)
         /\ state.skipped = IF Refused(used) THEN {} ELSE SkippedHosts(used)
         /\ state.certificates = IF Refused(used) THEN {} ELSE {Listed(r, used) : r \in Kept(used)}
<1> DEFINE skipped == IF Refused(used) THEN {} ELSE SkippedHosts(used)
           certificates == IF Refused(used) THEN {} ELSE {Listed(r, used) : r \in Kept(used)}
<1>1. state = [ok |-> ~Refused(used), skipped |-> skipped, certificates |-> certificates]
  BY DesiredFields DEF PlanInv
<1> HIDE DEF skipped, certificates
<1>2. /\ state.ok = ~Refused(used) /\ state.skipped = skipped
      /\ state.certificates = certificates
  BY <1>1
<1> QED
  BY <1>2 DEF skipped, certificates

LEMMA PlanInvHolds == Spec => []PlanInv
<1>1. Init => PlanInv
  <2> SUFFICES ASSUME Init PROVE PlanInv
    OBVIOUS
  <2>1. input \in Inputs /\ input \in PlanInput /\ used = input
    BY InputsAssumption DEF Init
  <2>2. used = [input EXCEPT !.hosts = used.hosts]
    BY <2>1 DEF PlanInput
  <2>3. Stems(input, input)
    BY DEF Stems
  <2> QED
    BY <2>1, <2>2, <2>3, ChangesAssumption DEF Init, PlanInv
<1>2. PlanInv /\ [Next]_vars => PlanInv'
  <2> SUFFICES ASSUME PlanInv, [Next]_vars PROVE PlanInv'
    OBVIOUS
  <2>1. CASE Plans
    <3>1. PlannedNames(state) \subseteq [words : Seq(Words), digest : SUBSET DnsName]
      BY PlannableInv, PlannedTyped DEF PlanInv
    <3>2. used' = [input EXCEPT !.existing = input.existing \cup PlannedNames(state)]
          /\ input' = used'
      BY <2>1 DEF Plans
    <3>3. input' \in PlanInput
      BY <3>1, <3>2 DEF PlanInv, PlanInput
    <3>4. used' = [input' EXCEPT !.hosts = used'.hosts]
      BY <3>2, <3>3 DEF PlanInput
    <3>5. \A base : Stems(input, base) => Stems(input', base)
      BY <3>2 DEF Stems, PlanInv, PlanInput
    <3> QED
      BY <2>1, <3>2, <3>3, <3>4, <3>5 DEF Plans, PlanInv
  <2>2. ASSUME NEW h \in Hosts, Route(h) PROVE PlanInv'
    <3>1. h \in DnsName
      BY HostsAssumption
    <3>2. PICK hosts : /\ input' = [input EXCEPT !.hosts = hosts]
                       /\ hosts \subseteq input.hosts \cup {h}
      BY <2>2 DEF Route
    <3>3. input' \in PlanInput
      BY <3>1, <3>2 DEF PlanInv, PlanInput
    <3>4. used' = [input' EXCEPT !.hosts = used'.hosts]
      BY <2>2, <3>2 DEF Route, PlanInv, PlanInput
    <3>5. \A base : Stems(input, base) => Stems(input', base)
      BY <3>2 DEF Stems, PlanInv, PlanInput
    <3>6. changes' \in 0..MaxChanges
      BY <2>2, ChangesAssumption DEF Route, PlanInv
    <3> QED
      BY <2>2, <3>3, <3>4, <3>5, <3>6 DEF Route, PlanInv
  <2>3. CASE UNCHANGED vars
    BY <2>3 DEF vars, PlanInv
  <2> QED
    BY <2>1, <2>2, <2>3 DEF Next
<1> QED
  BY <1>1, <1>2, PTL DEF Spec

\* A certificate is for a zone of the policy and for DNS names, and what is
\* kept from pass to pass has the form of a Key Vault name.
THEOREM TypeCorrect == Spec => []TypeOK
<1>1. PlanInv => TypeOK
  <2> SUFFICES ASSUME PlanInv PROVE TypeOK
    OBVIOUS
  <2>1. state = DesiredState(used) /\ Plannable(used)
    BY PlannableInv DEF PlanInv
  <2>2. /\ state.ok = ~Refused(used)
        /\ state.certificates = IF Refused(used) THEN {} ELSE {Listed(r, used) : r \in Kept(used)}
    BY StateFields
  <2>3. ASSUME NEW c \in state.certificates
        PROVE  c.zone \in used.zones /\ c.names \in SUBSET DnsName
    <3>1. PICK r \in Grouped(used) : c = Listed(r, used)
      BY <2>2 DEF Kept
    <3> QED
      BY <2>1, <3>1, SeedMentioned, GroupedShape DEF Listed
  <2> QED
    BY <2>2, <2>3 DEF PlanInv, TypeOK
<1> QED
  BY <1>1, PlanInvHolds, PTL

-----------------------------------------------------------------------------
(***************************************************************************)
(* The properties of a plan                                                *)
(***************************************************************************)
\* Whatever the cluster routed in the passes so far and whatever exists, a
\* certificate carries only names of its own zone, and none that lies in a
\* more specific zone of the policy (requiredName, longestMatchingZone).
THEOREM StayInZones == Spec => []NamesInTheirZone
<1>1. PlanInv => NamesInTheirZone
  BY PlanZoned, PlannableInv DEF PlanInv, Plannable, NamesInTheirZone, InZone, Stem
<1> QED
  BY <1>1, PlanInvHolds, PTL

\* Whatever the cluster routes and whatever the cap, a host is covered by a
\* certificate of the plan or it is reported why it is not, and only a host
\* beside the zones is told to be beside them (BuildPlan, SkippedHost).
THEOREM NothingDropped == Spec => []EveryHostAccounted
<1>1. PlanInv => EveryHostAccounted
  <2> SUFFICES ASSUME PlanInv PROVE EveryHostAccounted
    OBVIOUS
  <2> SUFFICES ASSUME ~Refused(used), NEW host \in Demanded(used)
               PROVE  \/ \E c \in {Listed(r, used) : r \in Kept(used)} :
                           \E n \in c.names : Covers(n, host)
                      \/ \E s \in SkippedHosts(used) :
                           /\ s.host = host \/ Covers(s.host, host)
                           /\ s.reason = "OutsideAllowlist" <=> ZonesOf(host, used.zones) = {}
    BY StateFields DEF EveryHostAccounted
  <2>1. \A r : Listed(r, used).names = r.names
    BY DEF Listed
  <2> HIDE DEF Listed
  <2> QED
    BY <2>1, PlannableInv, PlanAccounts DEF Plannable
<1> QED
  BY <1>1, PlanInvHolds, PTL

\* Whatever is asked for, no two certificates of a plan share their Key Vault
\* object or a name (resolveNameCollisions, group).
THEOREM NothingShared == Spec => []CertificatesDistinct
<1>1. PlanInv => CertificatesDistinct
  <2> SUFFICES ASSUME PlanInv PROVE CertificatesDistinct
    OBVIOUS
  <2> SUFFICES ASSUME NEW r \in Kept(used), NEW s \in Kept(used), Listed(r, used) # Listed(s, used)
               PROVE  /\ NameOf(r, Grouped(used)) # NameOf(s, Grouped(used))
                      /\ r.names \cap s.names = {}
    <3>1. \A r : Listed(r, used).name = NameOf(r, Grouped(used)) /\ Listed(r, used).names = r.names
      BY DEF Listed
    <3>2. state.certificates \subseteq {Listed(r, used) : r \in Kept(used)}
      BY StateFields
    <3> HIDE DEF Listed
    <3> QED
      BY <3>1, <3>2 DEF CertificatesDistinct
  <2>1. r \in Grouped(used) /\ s \in Grouped(used) /\ r # s
    BY DEF Kept
  <2> QED
    BY <2>1, PlannableInv, NamesDistinct, GroupedDisjoint
<1> QED
  BY <1>1, PlanInvHolds, PTL

-----------------------------------------------------------------------------
(***************************************************************************)
(* The cap                                                                 *)
(***************************************************************************)
\* There are as many certificates as requests the cap keeps.
LEMMA CertificatesCounted ==
  ASSUME NEW in, Plannable(in)
  PROVE  /\ IsFiniteSet(Kept(in))
         /\ Cardinality({Listed(r, in) : r \in Kept(in)}) = Cardinality(Kept(in))
<1> DEFINE K == Kept(in)
           C == {Listed(r, in) : r \in K}
           f == [r \in K |-> Listed(r, in)]
<1>1. K \in SUBSET Grouped(in) /\ IsFiniteSet(K)
  BY GroupedFinite, FS_Subset DEF Kept
<1>2. \A r \in K : Listed(r, in).name = NameOf(r, Grouped(in))
  BY DEF Listed
<1> HIDE DEF Listed, K
<1>3. \A r, s \in K : f[r] = f[s] => r = s
  BY <1>1, <1>2, NamesDistinct
<1>4. f \in Bijection(K, C)
  BY <1>3 DEF Bijection, Injection, IsInjective, Surjection
<1>5. Cardinality(C) = Cardinality(K)
  BY <1>1, <1>4, FS_Bijection DEF ExistsBijection
<1> QED
  BY <1>1, <1>5 DEF K

\* Whatever is asked for and whatever exists, the cap holds and is used up
\* before anything is left out, and what exists gives way only to what exists
\* (applyLimit).
THEOREM CapObserved == Spec => []CapKeepsExisting
<1>1. PlanInv => CapKeepsExisting
  <2> DEFINE G == Grouped(used)
             lost == {r \in G : NameOf(r, G) \notin PlannedNames(state)}
  <2> SUFFICES ASSUME PlanInv, state.ok, used.max > 0
               PROVE  /\ Cardinality(state.certificates) <= used.max
                      /\ lost # {} => Cardinality(state.certificates) = used.max
                      /\ (\E r \in lost : NameOf(r, G) \in used.existing)
                           => PlannedNames(state) \subseteq used.existing
    BY DEF CapKeepsExisting
  <2>1. Plannable(used) /\ used.max \in Nat /\ ~(used.max <= 0)
    BY PlannableInv
  <2>2. ~Refused(used) /\ state.certificates = {Listed(r, used) : r \in Kept(used)}
    BY StateFields
  <2>3. PlannedNames(state) = {NameOf(r, G) : r \in Kept(used)}
    BY <2>2, DesiredFields DEF PlanInv
  <2>4. IsFiniteSet(Kept(used)) /\ Cardinality(state.certificates) = Cardinality(Kept(used))
    BY <2>1, <2>2, CertificatesCounted
  <2>5. lost = G \ Kept(used)
    <3>1. \A r \in G : NameOf(r, G) \in PlannedNames(state) <=> r \in Kept(used)
      BY <2>1, <2>3, NamesDistinct DEF Kept
    <3> QED
      BY <3>1
  <2>6. /\ Cardinality(Kept(used)) <= used.max
        /\ Kept(used) # G => Cardinality(Kept(used)) = used.max
    <3> DEFINE C == ClaimsIn(G, used.existing)
    <3>1. Kept(used) = First(C, G, used.max) /\ IsFiniteSet(G) /\ Lines(C, G)
      BY <2>1, KeptFirst, GroupedFinite, ClaimsLines
    <3> HIDE DEF C, G
    <3> QED
      BY <2>1, <3>1, FirstCounted
  <2>7. ASSUME NEW r \in lost, NameOf(r, G) \in used.existing
        PROVE  PlannedNames(state) \subseteq used.existing
    <3>1. r \in G /\ r \notin Kept(used)
      BY <2>5
    <3>2. \A s \in Kept(used) : NameOf(s, G) \in used.existing
      BY <2>1, <2>7, <3>1, KeptIssued
    <3> QED
      BY <2>3, <3>2
  <2>8. lost # {} => Kept(used) # G
    BY <2>5
  <2> QED
    BY <2>4, <2>6, <2>7, <2>8
<1> QED
  BY <1>1, PlanInvHolds, PTL

\* Planning again for the same hosts, once the plan has been generated, changes
\* nothing, whatever is asked for and whatever else exists.
THEOREM PlansSettle == Spec => PlanStable
<1>1. PlanInv /\ [Next]_vars => [input.hosts = used.hosts => state' = state]_vars
  <2> SUFFICES ASSUME PlanInv, Next, input.hosts = used.hosts PROVE state' = state
    OBVIOUS
  <2>1. CASE Plans
    <3>1. input \in PlanInput /\ input = used
      <4>1. used = [input EXCEPT !.hosts = input.hosts]
        BY DEF PlanInv
      <4> QED
        BY <4>1 DEF PlanInv, PlanInput
    <3>2. used' = [used EXCEPT !.existing = used.existing \cup PlannedNames(state)]
      BY <2>1, <3>1 DEF Plans
    <3>3. /\ used'.hosts = used.hosts /\ used'.zones = used.zones /\ used'.max = used.max
          /\ used'.grouping = used.grouping /\ used'.seed = used.seed
          /\ used'.existing = used.existing \cup PlannedNames(state)
      BY <3>1, <3>2 DEF PlanInput
    <3>4. Plannable(used) /\ used.max \in Nat
      BY PlannableInv
    <3>5. /\ Grouped(used') = Grouped(used) /\ Outside(used') = Outside(used)
          /\ Unusable(used') = Unusable(used) /\ (Refused(used') <=> Refused(used))
      BY <3>3, ExistingIgnored
    <3>6. ~Refused(used) => Kept(used') = Kept(used)
      <4> SUFFICES ASSUME ~Refused(used) PROVE Kept(used') = Kept(used)
        OBVIOUS
      <4>1. PlannedNames(state) = {NameOf(r, Grouped(used)) : r \in Kept(used)}
        BY DesiredFields DEF PlanInv
      <4>2. Plannable(used')
        <5>1. ZonedInput(used')
          BY <3>1, <3>2 DEF PlanInput, ZonedInput
        <5>2. Mentioned(used') \subseteq Mentioned(used)
          BY <3>3, MentionedGrows
        <5> QED
          BY <3>3, <3>4, <5>1, <5>2 DEF Plannable, Ranked
      <4> QED
        BY <3>3, <3>4, <3>5, <4>1, <4>2, KeptStable
    <3>7. DesiredState(used') = DesiredState(used)
      <4>1. CASE Refused(used)
        BY <3>5, <4>1, DesiredFields
      <4>2. CASE ~Refused(used)
        <5>1. \A r : Listed(r, used') = Listed(r, used)
          BY <3>5 DEF Listed
        <5>2. {Listed(r, used') : r \in Kept(used')} = {Listed(r, used) : r \in Kept(used)}
          BY <3>6, <4>2, <5>1
        <5>3. SkippedHosts(used') = SkippedHosts(used)
          BY <3>5, <3>6, <4>2 DEF SkippedHosts
        <5> HIDE DEF Listed
        <5> QED
          BY <3>5, <4>2, <5>2, <5>3, DesiredFields
      <4> QED
        BY <4>1, <4>2
    <3> QED
      BY <2>1, <3>7 DEF Plans, PlanInv
  <2>2. CASE \E h \in Hosts : Route(h)
    BY <2>2 DEF Route
  <2> QED
    BY <2>1, <2>2 DEF Next
<1> QED
  BY <1>1, PlanInvHolds, PTL DEF Spec, PlanStable

-----------------------------------------------------------------------------
(***************************************************************************)
(* Listeners                                                               *)
(***************************************************************************)
LEMMA SameGroup ==
  ASSUME NEW M \in Nat \ {0}, NEW i \in Nat, NEW j \in Nat,
         i \div M = j \div M, i % M = j % M
  PROVE  i = j
OBVIOUS

LEMMA WithinGroup ==
  ASSUME NEW M \in Nat \ {0}, NEW i \in Nat
  PROVE  i % M \in 0..(M - 1)
OBVIOUS

\* How many names sort before a name: the position of the name in the list.
Index(n, names) == Cardinality({m \in names : DnsRank(m) < DnsRank(n)})

LEMMA IndexInjective ==
  ASSUME NEW names, IsFiniteSet(names), Ranked(names), NEW n \in names, NEW m \in names
  PROVE  /\ Index(n, names) \in Nat
         /\ Index(n, names) = Index(m, names) => n = m
<1> DEFINE R == {p \in names \X names : DnsRank(p[1]) < DnsRank(p[2])}
<1>1. Lines(R, names)
  <2>1. \A x \in names : DnsRank(x) \in Nat
    BY DEF Ranked
  <2>2. \A x, y \in names : <<x, y>> \in R <=> DnsRank(x) < DnsRank(y)
    OBVIOUS
  <2>3. \A x, y \in names : DnsRank(x) = DnsRank(y) => x = y
    BY DEF Ranked
  <2> HIDE DEF R
  <2> QED
    BY <2>1, <2>2, <2>3 DEF Lines
<1>2. \A x \in names : Index(x, names) = Cardinality(Ahead(R, names, x))
  <2>1. \A x \in names : {m_1 \in names : DnsRank(m_1) < DnsRank(x)} = Ahead(R, names, x)
    BY DEF Ahead
  <2> QED
    BY <2>1 DEF Index
<1>3. IsFiniteSet(Ahead(R, names, n)) /\ Cardinality(Ahead(R, names, n)) \in Nat
  BY FS_Subset, FS_CardinalityType DEF Ahead
<1> HIDE DEF R
<1>4. ASSUME n # m PROVE Index(n, names) # Index(m, names)
  <2>1. CASE <<n, m>> \in R
    <3>1. /\ Cardinality(Ahead(R, names, n)) < Cardinality(Ahead(R, names, m))
          /\ Cardinality(Ahead(R, names, m)) \in Nat
      BY <1>1, <2>1, AheadGrows
    <3> QED
      BY <1>2, <1>3, <3>1
  <2>2. CASE <<m, n>> \in R
    <3>1. /\ Cardinality(Ahead(R, names, m)) < Cardinality(Ahead(R, names, n))
          /\ Cardinality(Ahead(R, names, m)) \in Nat
      BY <1>1, <2>2, AheadGrows
    <3> QED
      BY <1>2, <1>3, <3>1
  <2> QED
    BY <1>1, <1>4, <2>1, <2>2 DEF Lines
<1> QED
  BY <1>2, <1>3, <1>4

\* The group of a listener, which has all the names at its positions.
GroupAt(k, names) == {n \in names : Index(n, names) \div MaxListenerHostnames = k}

LEMMA GroupBounded ==
  ASSUME NEW names, IsFiniteSet(names), Ranked(names), NEW k
  PROVE  Cardinality(GroupAt(k, names)) <= MaxListenerHostnames
<1> DEFINE M == MaxListenerHostnames
           G == GroupAt(k, names)
           f == [n \in G |-> Index(n, names) % M]
<1>1. M \in Nat \ {0}
  BY ListenerAssumption
<1>2. \A n \in G : n \in names /\ Index(n, names) \in Nat /\ Index(n, names) \div M = k
  BY IndexInjective DEF GroupAt
<1>3. f \in [G -> 0..(M - 1)]
  BY <1>1, <1>2, WithinGroup
<1>4. \A n, m \in G : f[n] = f[m] => n = m
  <2>1. SUFFICES ASSUME NEW n \in G, NEW m \in G, f[n] = f[m] PROVE n = m
    OBVIOUS
  <2>2. Index(n, names) % M = Index(m, names) % M
    BY <2>1
  <2>3. Index(n, names) = Index(m, names)
    BY <1>1, <1>2, <2>2, SameGroup
  <2> QED
    BY <1>2, <2>3, IndexInjective
<1>5. f \in Injection(G, 0..(M - 1))
  BY <1>3, <1>4 DEF Injection, IsInjective
<1>6. IsFiniteSet(0..(M - 1)) /\ Cardinality(0..(M - 1)) = M
  BY <1>1, FS_Interval
<1> HIDE DEF f
<1> QED
  BY <1>5, <1>6, FS_Injection

\* Whatever names a certificate has, each is served by exactly one listener,
\* and no listener has more than it allows (SplitListenerHostnames).
THEOREM NamesServed == Spec => []ListenersServeNames
<1>1. PlanInv => ListenersServeNames
  <2> SUFFICES ASSUME PlanInv PROVE ListenersServeNames
    OBVIOUS
  <2>1. SUFFICES ASSUME NEW c \in state.certificates
                 PROVE  /\ \A n \in c.names : Cardinality({g \in c.listeners : n \in g}) = 1
                        /\ \A g \in c.listeners : g # {} /\ Cardinality(g) <= MaxListenerHostnames
    BY DEF ListenersServeNames
  <2>2. PICK r \in Grouped(used) : c = Listed(r, used)
    BY StateFields DEF Kept
  <2> DEFINE names == r.names
             at(n) == Index(n, names) \div MaxListenerHostnames
  <2>3. IsFiniteSet(names) /\ Ranked(names)
    <3>1. Plannable(used) /\ names \in SUBSET Mentioned(used)
      BY PlannableInv, SeedMentioned
    <3> QED
      BY <3>1, MentionedFinite, FS_Subset DEF Plannable, Ranked
  <2>4. c.names = names /\ c.listeners = {GroupAt(at(n), names) : n \in names}
    BY <2>2 DEF Listed, SplitListenerHostnames, GroupAt, Index
  <2>5. \A n \in names : \A k : n \in GroupAt(k, names) <=> at(n) = k
    BY DEF GroupAt
  <2> HIDE DEF names, at
  <2>6. ASSUME NEW n \in names PROVE Cardinality({g \in c.listeners : n \in g}) = 1
    <3>1. {g \in c.listeners : n \in g} = {GroupAt(at(n), names)}
      BY <2>4, <2>5
    <3> QED
      BY <3>1, FS_Singleton
  <2>7. ASSUME NEW g \in c.listeners PROVE g # {} /\ Cardinality(g) <= MaxListenerHostnames
    <3>1. PICK n \in names : g = GroupAt(at(n), names)
      BY <2>4
    <3> QED
      BY <2>3, <2>5, <3>1, GroupBounded
  <2> QED
    BY <2>4, <2>6, <2>7
<1> QED
  BY <1>1, PlanInvHolds, PTL

=============================================================================
