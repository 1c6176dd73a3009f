-------------------------- MODULE SecretFileProofs --------------------------
(***************************************************************************)
(* What ParseBundle makes of any file: nothing is lost, what verifies from  *)
(* the leaf comes first in the order of issue, and the order of the file    *)
(* decides nothing where the certificates leave no choice.                  *)
(*                                                                         *)
(* The walk of orderChain and the order of the rest are described by what   *)
(* holds of them at each place, so the proofs speak of places: that there   *)
(* is such a walk (the longest one that links), that no position comes      *)
(* twice, and what stands at the first place where two orders differ.       *)
(***************************************************************************)
EXTENDS SecretFile, FiniteSetTheorems, WellFoundedInduction, TLAPS

-----------------------------------------------------------------------------
(***************************************************************************)
(* Natural numbers and cardinalities                                       *)
(***************************************************************************)
\* A set of natural numbers has a least member.
LEMMA LeastNat ==
  ASSUME NEW S \in SUBSET Nat, S # {}
  PROVE  \E least \in S : \A y \in S : least <= y
<1> DEFINE less == OpToRel(<, Nat)
<1>1. PICK least \in S : \A y \in S : ~(<<y, least>> \in less)
  BY NatLessThanWellFounded, WFMin
<1>2. ASSUME NEW y \in S PROVE least <= y
  <2>1. y \in Nat /\ least \in Nat /\ <<y, least>> \in Nat \X Nat
    OBVIOUS
  <2>2. y < least => <<y, least>> \in less
    BY <2>1 DEF OpToRel
  <2>3. ~(<<y, least>> \in less)
    BY <1>1
  <2> HIDE DEF less
  <2> QED
    BY <2>1, <2>2, <2>3
<1> QED
  BY <1>2

LEMMA MinOf ==
  ASSUME NEW S \in SUBSET Nat, S # {}
  PROVE  Min(S) \in S /\ \A y \in S : Min(S) <= y
<1>1. \E least \in S : \A y \in S : least <= y
  BY LeastNat
<1> QED
  BY <1>1 DEF Min

\* A set of numbers up to a bound has a greatest member.
LEMMA GreatestUpTo ==
  ASSUME NEW N \in Nat, NEW S \in SUBSET (0..N), S # {}
  PROVE  \E greatest \in S : \A y \in S : y <= greatest
<1> DEFINE gaps == {N - y : y \in S}
<1>1. \A y \in S : y \in Int /\ N - y \in Nat
  OBVIOUS
<1>2. gaps \in SUBSET Nat /\ gaps # {}
  BY <1>1
<1>3. PICK gap \in gaps : \A y \in gaps : gap <= y
  BY <1>2, LeastNat
<1>4. PICK greatest \in S : gap = N - greatest
  BY <1>3
<1>5. ASSUME NEW y \in S PROVE y <= greatest
  <2>1. N - y \in gaps /\ gap <= N - y
    BY <1>3
  <2>2. y \in Int /\ greatest \in Int
    BY <1>1
  <2> QED
    BY <1>4, <2>1, <2>2
<1> QED
  BY <1>5

\* As many places as there are members, and none twice: every member has one.
LEMMA Enumerates ==
  ASSUME NEW T, IsFiniteSet(T), NEW n \in Nat, NEW f \in [1..n -> T],
         \A p, q \in 1..n : f[p] = f[q] => p = q
  PROVE  /\ n <= Cardinality(T)
         /\ n = Cardinality(T) => \A t \in T : \E p \in 1..n : f[p] = t
<1>1. f \in Injection(1..n, T)
  BY DEF Injection, IsInjective
<1>2. IsFiniteSet(1..n) /\ Cardinality(1..n) = n
  BY FS_Interval
<1>3. /\ Cardinality(1..n) <= Cardinality(T)
      /\ Cardinality(1..n) = Cardinality(T) <=> f \in Surjection(1..n, T)
  BY <1>1, FS_Injection
<1> QED
  BY <1>2, <1>3 DEF Surjection

\* The members of a set in some order are as many, also of one kind.
LEMMA SameNumber ==
  ASSUME NEW S, NEW T, IsFiniteSet(S), NEW f \in [S -> T],
         \A x, y \in S : f[x] = f[y] => x = y,
         \A t \in T : \E x \in S : f[x] = t
  PROVE  IsFiniteSet(T) /\ Cardinality(T) = Cardinality(S)
<1>1. f \in Bijection(S, T)
  BY DEF Bijection, Injection, Surjection, IsInjective
<1> QED
  BY <1>1, FS_Bijection DEF ExistsBijection

-----------------------------------------------------------------------------
(***************************************************************************)
(* The certificates that did not link in                                   *)
(***************************************************************************)
\* The order of orphans: by bytes, and then by position.
Earlier(file, i, j) == \/ Raw[file[i]] < Raw[file[j]]
                       \/ file[i] = file[j] /\ i < j

LEMMA EarlierOrders ==
  ASSUME NEW file, NEW left \in SUBSET Nat, \A i \in left : file[i] \in Certs,
         NEW i \in left, NEW j \in left
  PROVE  /\ ~Earlier(file, i, i)
         /\ i = j \/ Earlier(file, i, j) \/ Earlier(file, j, i)
         /\ ~(Earlier(file, i, j) /\ Earlier(file, j, i))
         /\ \A k \in left : Earlier(file, k, i) /\ Earlier(file, i, j) => Earlier(file, k, j)
<1>1. \A k \in left : Raw[file[k]] \in Nat /\ k \in Nat
  BY PkiAssumption
<1>2. Raw[file[i]] = Raw[file[j]] => file[i] = file[j]
  BY PkiAssumption
<1> QED
  BY <1>1, <1>2 DEF Earlier

\* A finite set of positions can be sorted.
LEMMA OrphansSorted ==
  ASSUME NEW file, NEW left \in SUBSET Nat, IsFiniteSet(left),
         \A i \in left : file[i] \in Certs
  PROVE  /\ Orphans(file, left) \in [1..Cardinality(left) -> left]
         /\ \A p, q \in 1..Cardinality(left) :
              p < q => Earlier(file, Orphans(file, left)[p], Orphans(file, left)[q])
<1> DEFINE K == Cardinality(left)
           before(i) == {j \in left : Earlier(file, j, i)}
           place == [i \in left |-> Cardinality(before(i)) + 1]
<1>1. K \in Nat
  BY FS_CardinalityType
<1>2. \A i \in left : IsFiniteSet(before(i)) /\ Cardinality(before(i)) \in Nat
  <2> TAKE i \in left
  <2>1. before(i) \in SUBSET left
    OBVIOUS
  <2> QED
    BY <2>1, FS_Subset, FS_CardinalityType
<1>3. \A i \in left : place[i] \in 1..K
  <2> TAKE i \in left
  <2>1. before(i) \in SUBSET left /\ i \notin before(i)
    BY EarlierOrders
  <2>2. Cardinality(before(i)) <= K /\ K # Cardinality(before(i))
    BY <2>1, FS_Subset
  <2> QED
    BY <1>1, <1>2, <2>2
<1>4. ASSUME NEW i \in left, NEW j \in left, Earlier(file, i, j)
      PROVE  place[i] < place[j]
  <2>1. before(i) \in SUBSET before(j)
    BY <1>4, EarlierOrders
  <2>2. i \in before(j) /\ i \notin before(i)
    BY <1>4, EarlierOrders
  <2>3. /\ Cardinality(before(i)) <= Cardinality(before(j))
        /\ Cardinality(before(i)) # Cardinality(before(j))
    BY <1>2, <2>1, <2>2, FS_Subset
  <2> QED
    BY <1>2, <2>3
<1> HIDE DEF place
<1>5. \A i, j \in left : place[i] = place[j] => i = j
  BY <1>3, <1>4, EarlierOrders
<1>6. \A p \in 1..K : \E i \in left : place[i] = p
  <2>1. place \in Injection(left, 1..K)
    BY <1>3, <1>5 DEF Injection, IsInjective, place
  <2>2. IsFiniteSet(1..K) /\ Cardinality(1..K) = K
    BY <1>1, FS_Interval
  <2>3. place \in Surjection(left, 1..K)
    BY <2>1, <2>2, FS_Injection
  <2> QED
    BY <2>3 DEF Surjection
<1> DEFINE s == [p \in 1..K |-> CHOOSE i \in left : place[i] = p]
<1>7. \A p \in 1..K : s[p] \in left /\ place[s[p]] = p
  BY <1>6
<1> HIDE DEF K
<1>8. s \in [1..K -> left]
  BY <1>7
<1>9. ASSUME NEW p \in 1..K, NEW q \in 1..K, p < q
      PROVE  Earlier(file, s[p], s[q])
  <2>1. /\ s[p] \in left /\ s[q] \in left
        /\ place[s[p]] = p /\ place[s[q]] = q
    BY <1>7
  <2> HIDE DEF s
  <2>2. p \in Int /\ q \in Int /\ ~(q < p) /\ p # q
    BY <1>1, <1>9
  <2>3. s[p] # s[q]
    BY <2>1, <2>2
  <2>4. ~Earlier(file, s[q], s[p])
    <3>1. Earlier(file, s[q], s[p]) => place[s[q]] < place[s[p]]
      BY <1>4, <2>1
    <3> QED
      BY <2>1, <2>2, <3>1
  <2> QED
    BY <2>1, <2>3, <2>4, EarlierOrders
<1> HIDE DEF s
<1>10. \E t \in [1..K -> left] : \A p, q \in DOMAIN t : p < q => Earlier(file, t[p], t[q])
  BY <1>8, <1>9
<1> DEFINE Sorted(t) == \A p, q \in DOMAIN t : p < q => Earlier(file, t[p], t[q])
<1>11. Orphans(file, left) = CHOOSE t \in [1..K -> left] : Sorted(t)
  BY DEF Orphans, Earlier, K
<1>12. Orphans(file, left) \in [1..K -> left] /\ Sorted(Orphans(file, left))
  BY <1>10, <1>11
<1> QED
  BY <1>12 DEF K

-----------------------------------------------------------------------------
(***************************************************************************)
(* The walk from the leaf                                                  *)
(***************************************************************************)
Named(file, child, unused) == {i \in unused : Subject[file[i]] = Issuer[file[child]]}
Verified(file, child, unused) ==
  {i \in Named(file, child, unused) : <<file[child], file[i]>> \in Verifies}

\* What findIssuer finds: one that verifies if there is one, or else one that
\* bears the name, if there is one.
LEMMA IssuerFound ==
  ASSUME NEW file, NEW child, NEW unused \in SUBSET (Nat \ {0})
  PROVE  LET found == FindIssuer(file, child, unused)
             named == Named(file, child, unused)
             verified == Verified(file, child, unused)
         IN /\ verified # {} => found \in verified
            /\ verified = {} /\ named # {} => found \in named
            /\ named = {} => found = 0
            /\ found # 0 => found \in named
<1> DEFINE named == Named(file, child, unused)
           verified == Verified(file, child, unused)
<1>1. FindIssuer(file, child, unused) =
        IF verified # {} THEN Min(verified) ELSE IF named # {} THEN Min(named) ELSE 0
  BY DEF FindIssuer, Named, Verified
<1>2. named \in SUBSET Nat /\ verified \in SUBSET Nat /\ verified \subseteq named /\ 0 \notin named
  BY DEF Named, Verified
<1>3. verified # {} => Min(verified) \in verified
  BY <1>2, MinOf
<1>4. named # {} => Min(named) \in named
  BY <1>2, MinOf
<1> HIDE DEF named, verified
<1>5. /\ verified # {} => FindIssuer(file, child, unused) \in verified
      /\ verified = {} /\ named # {} => FindIssuer(file, child, unused) \in named
      /\ named = {} => FindIssuer(file, child, unused) = 0
      /\ FindIssuer(file, child, unused) # 0 => FindIssuer(file, child, unused) \in named
  BY <1>1, <1>2, <1>3, <1>4
<1> QED
  BY <1>5 DEF named, verified

\* What follows the n-th depends on the first n only.
LEMMA IssuerOfPrefix ==
  ASSUME NEW file, NEW rest, NEW line, NEW other, NEW n \in Nat \ {0},
         \A m \in 1..n : line[m] = other[m]
  PROVE  IssuerAfter(file, rest, line, n) = IssuerAfter(file, rest, other, n)
<1>1. {line[m] : m \in 1..n} = {other[m] : m \in 1..n}
  OBVIOUS
<1>2. line[n] = other[n]
  OBVIOUS
<1> QED
  BY <1>1, <1>2 DEF IssuerAfter

\* It is nothing, or one of the rest that the line does not have yet.
LEMMA IssuerUnused ==
  ASSUME NEW file, NEW rest \in SUBSET (Nat \ {0}), NEW line, NEW n \in Nat
  PROVE  \/ IssuerAfter(file, rest, line, n) = 0
         \/ /\ IssuerAfter(file, rest, line, n) \in rest
            /\ \A m \in 1..n : IssuerAfter(file, rest, line, n) # line[m]
<1> DEFINE unused == rest \ {line[m] : m \in 1..n}
<1>1. unused \in SUBSET (Nat \ {0})
  OBVIOUS
<1>2. \/ FindIssuer(file, line[n], unused) = 0
      \/ FindIssuer(file, line[n], unused) \in unused
  BY <1>1, IssuerFound DEF Named
<1> QED
  BY <1>2 DEF IssuerAfter

\* The leaf and the walk from it.
Line(leaf, path) == <<leaf>> \o path

\* Each of a walk is what follows the one before.
Linked(file, leaf, rest, path) ==
  \A n \in 1..Len(path) : path[n] = IssuerAfter(file, rest, Line(leaf, path), n)

\* It ends where nothing follows.
Ended(file, leaf, rest, path) ==
  IssuerAfter(file, rest, Line(leaf, path), Len(path) + 1) = 0

\* No position comes twice.
LEMMA LinkedOnce ==
  ASSUME NEW file, NEW leaf, NEW rest \in SUBSET (Nat \ {0}), NEW path \in Seq(rest),
         Linked(file, leaf, rest, path)
  PROVE  \A p, q \in 1..Len(path) : path[p] = path[q] => p = q
<1> DEFINE L == Len(path)
<1>0. L \in Nat /\ \A n \in 1..L : Line(leaf, path)[n + 1] = path[n] /\ path[n] \in rest
  BY DEF Line
<1>1. ASSUME NEW p \in 1..L, NEW q \in 1..L, p < q
      PROVE  path[p] # path[q]
  <2>1. Line(leaf, path)[p + 1] = path[p] /\ path[q] \in rest
    BY <1>0
  <2>2. path[q] = IssuerAfter(file, rest, Line(leaf, path), q)
    BY DEF Linked
  <2>3. path[q] # 0 /\ q \in Nat /\ p + 1 \in 1..q
    BY <1>0, <1>1, <2>1
  <2>4. \A m \in 1..q : path[q] # Line(leaf, path)[m]
    BY <2>2, <2>3, IssuerUnused
  <2> QED
    BY <2>1, <2>3, <2>4
<1> QED
  BY <1>0, <1>1

\* A walk is extended by what follows its end.
LEMMA LinkedAppend ==
  ASSUME NEW file, NEW leaf, NEW rest \in SUBSET (Nat \ {0}), NEW path \in Seq(rest),
         Linked(file, leaf, rest, path), ~Ended(file, leaf, rest, path)
  PROVE  \E longer \in Seq(rest) :
           Len(longer) = Len(path) + 1 /\ Linked(file, leaf, rest, longer)
<1> DEFINE line == Line(leaf, path)
           L == Len(path)
           next == IssuerAfter(file, rest, line, L + 1)
           longer == Append(path, next)
<1>1. L \in Nat /\ line[1] = leaf /\ \A n \in 1..L : line[n + 1] = path[n]
  BY DEF Line
<1>2. next \in rest
  BY <1>1, IssuerUnused DEF Ended
<1>3. /\ longer \in Seq(rest) /\ Len(longer) = L + 1
      /\ \A n \in 1..L : longer[n] = path[n]
      /\ longer[L + 1] = next
  <2> HIDE DEF next, line
  <2> QED
    BY <1>2
<1> HIDE DEF longer, next, line, L
<1>0. Line(leaf, longer)[1] = leaf /\ \A n \in 1..(L + 1) : Line(leaf, longer)[n + 1] = longer[n]
  BY <1>3 DEF Line
<1>4. \A m \in 1..(L + 1) : Line(leaf, longer)[m] = line[m]
  <2> SUFFICES ASSUME NEW m \in 1..(L + 1), m # 1
               PROVE  Line(leaf, longer)[m] = line[m]
    BY <1>0, <1>1
  <2>1. m - 1 \in 1..L /\ m - 1 \in 1..(L + 1) /\ (m - 1) + 1 = m
    BY <1>1
  <2>2. line[(m - 1) + 1] = path[m - 1]
    BY <1>1, <2>1
  <2>3. Line(leaf, longer)[(m - 1) + 1] = longer[m - 1]
    BY <1>0, <2>1
  <2> QED
    BY <1>3, <2>1, <2>2, <2>3
<1>5. ASSUME NEW n \in 1..(L + 1)
      PROVE  longer[n] = IssuerAfter(file, rest, Line(leaf, longer), n)
  <2>1. n \in Nat \ {0} /\ \A m \in 1..n : m \in 1..(L + 1)
    BY <1>1
  <2>2. IssuerAfter(file, rest, Line(leaf, longer), n) = IssuerAfter(file, rest, line, n)
    <3>1. \A m \in 1..n : Line(leaf, longer)[m] = line[m]
      BY <1>4, <2>1
    <3> HIDE DEF line
    <3> QED
      BY <2>1, <3>1, IssuerOfPrefix
  <2>3. CASE n = L + 1
    BY <1>3, <2>2, <2>3 DEF next
  <2>4. CASE n \in 1..L
    BY <1>3, <2>2, <2>4 DEF Linked, L, line
  <2> QED
    BY <1>1, <2>3, <2>4
<1> QED
  BY <1>3, <1>5 DEF Linked, L

\* The longest walk that links has come to its end; so Walk is a walk.
LEMMA WalkEnds ==
  ASSUME NEW file, NEW leaf, NEW rest \in SUBSET (Nat \ {0}), IsFiniteSet(rest)
  PROVE  /\ Walk(file, leaf, rest) \in Seq(rest)
         /\ Linked(file, leaf, rest, Walk(file, leaf, rest))
         /\ Ended(file, leaf, rest, Walk(file, leaf, rest))
<1> DEFINE N == Cardinality(rest)
           Lengths == {m \in 0..N : \E path \in Seq(rest) :
                         Len(path) = m /\ Linked(file, leaf, rest, path)}
<1>1. N \in Nat
  BY FS_CardinalityType
<1>2. \A path \in Seq(rest) : Linked(file, leaf, rest, path) => Len(path) \in Lengths
  <2> SUFFICES ASSUME NEW path \in Seq(rest), Linked(file, leaf, rest, path)
               PROVE  Len(path) <= N
    BY <1>1
  <2>1. path \in [1..Len(path) -> rest] /\ Len(path) \in Nat
    OBVIOUS
  <2> QED
    BY <2>1, LinkedOnce, Enumerates
<1>3. Lengths # {}
  <2>1. <<>> \in Seq(rest) /\ Linked(file, leaf, rest, <<>>)
    BY DEF Linked
  <2> QED
    BY <1>2, <2>1
<1>4. PICK longest \in Lengths : \A m \in Lengths : m <= longest
  BY <1>1, <1>3, GreatestUpTo
<1>5. PICK path \in Seq(rest) : Len(path) = longest /\ Linked(file, leaf, rest, path)
  OBVIOUS
<1>6. Ended(file, leaf, rest, path)
  <2> SUFFICES ASSUME ~Ended(file, leaf, rest, path) PROVE FALSE
    OBVIOUS
  <2>1. PICK longer \in Seq(rest) : Len(longer) = longest + 1 /\ Linked(file, leaf, rest, longer)
    BY <1>5, LinkedAppend
  <2>2. longest + 1 \in Lengths /\ longest \in Nat
    BY <1>1, <1>2, <2>1
  <2> QED
    BY <1>4, <2>2
<1> DEFINE Follows(p) ==
             LET line == <<leaf>> \o p
             IN \A n \in DOMAIN line :
                  IssuerAfter(file, rest, line, n) = IF n < Len(line) THEN line[n + 1] ELSE 0
<1>7. ASSUME NEW p \in Seq(rest)
      PROVE  Follows(p) <=> Linked(file, leaf, rest, p) /\ Ended(file, leaf, rest, p)
  <2>1. /\ Len(p) \in Nat
        /\ Len(Line(leaf, p)) = Len(p) + 1
        /\ DOMAIN Line(leaf, p) = 1..(Len(p) + 1)
        /\ \A n \in 1..Len(p) : Line(leaf, p)[n + 1] = p[n]
    BY DEF Line
  <2>2. Follows(p) <=> \A n \in 1..(Len(p) + 1) : IssuerAfter(file, rest, Line(leaf, p), n) =
                         IF n < Len(p) + 1 THEN Line(leaf, p)[n + 1] ELSE 0
    BY <2>1 DEF Line
  <2> HIDE DEF Follows
  <2>3. \A n \in 1..(Len(p) + 1) : (n < Len(p) + 1 <=> n \in 1..Len(p)) /\ (n \in 1..Len(p) \/ n = Len(p) + 1)
    BY <2>1
  <2>4. /\ \A n \in 1..Len(p) : n \in 1..(Len(p) + 1)
        /\ Len(p) + 1 \in 1..(Len(p) + 1) /\ ~(Len(p) + 1 < Len(p) + 1)
    BY <2>1
  <2> QED
    BY <2>1, <2>2, <2>3, <2>4 DEF Linked, Ended
<1>8. path \in BoundedSeq(rest, N) /\ BoundedSeq(rest, N) \subseteq Seq(rest)
  BY <1>1, <1>5 DEF BoundedSeq, SeqOf
<1>9. Walk(file, leaf, rest) = CHOOSE p \in BoundedSeq(rest, N) : Follows(p)
  BY DEF Walk
<1> HIDE DEF Follows, N, Lengths
<1>10. Walk(file, leaf, rest) \in BoundedSeq(rest, N) /\ Follows(Walk(file, leaf, rest))
  BY <1>5, <1>6, <1>7, <1>8, <1>9
<1> QED
  BY <1>7, <1>8, <1>10

-----------------------------------------------------------------------------
(***************************************************************************)
(* The certificates of a file in the order they are served                 *)
(***************************************************************************)
RestOf(file, leaf) == CertificatesIn(file) \ {leaf}
WalkOf(file, leaf) == Walk(file, leaf, RestOf(file, leaf))
LeftOf(file, leaf) == RestOf(file, leaf) \ ToSet(WalkOf(file, leaf))
LineOf(file, leaf) == Line(leaf, WalkOf(file, leaf))
OrderOf(file, leaf) == LineOf(file, leaf) \o Orphans(file, LeftOf(file, leaf))

\* What is served, as certificates.
ServedOf(file, leaf) == [n \in 1..Len(OrderOf(file, leaf)) |-> file[OrderOf(file, leaf)[n]]]

LEMMA FilePositions ==
  ASSUME NEW file \in Seq(CertBlock)
  PROVE  /\ CertificatesIn(file) \in SUBSET (Nat \ {0})
         /\ IsFiniteSet(CertificatesIn(file))
         /\ \A i \in CertificatesIn(file) : i \in DOMAIN file /\ file[i] \in Certs
<1>1. DOMAIN file = 1..Len(file) /\ Len(file) \in Nat
  OBVIOUS
<1>2. IsFiniteSet(1..Len(file))
  BY <1>1, FS_Interval
<1>3. CertificatesIn(file) \in SUBSET (1..Len(file))
  BY <1>1 DEF CertificatesIn
<1>4. IsFiniteSet(CertificatesIn(file))
  BY <1>2, <1>3, FS_Subset
<1> QED
  BY <1>1, <1>3, <1>4 DEF CertificatesIn

\* The line from the leaf: no position twice, and each after the first is what
\* follows the one before, until nothing does.
LEMMA LineHolds ==
  ASSUME NEW file \in Seq(CertBlock), NEW leaf \in CertificatesIn(file)
  PROVE  LET line == LineOf(file, leaf)
             rest == RestOf(file, leaf)
         IN /\ line \in Seq(CertificatesIn(file))
            /\ Len(line) \in Nat \ {0} /\ line[1] = leaf
            /\ \A p, q \in 1..Len(line) : line[p] = line[q] => p = q
            /\ \A n \in 1..(Len(line) - 1) : line[n + 1] = IssuerAfter(file, rest, line, n)
            /\ IssuerAfter(file, rest, line, Len(line)) = 0
            /\ {line[n] : n \in 1..Len(line)} = {leaf} \cup ToSet(WalkOf(file, leaf))
<1> DEFINE rest == RestOf(file, leaf)
           path == WalkOf(file, leaf)
           line == LineOf(file, leaf)
           K == Len(path)
<1>1. rest \in SUBSET (Nat \ {0}) /\ IsFiniteSet(rest) /\ leaf \notin rest
  BY FilePositions, FS_Difference DEF RestOf
<1>2. path \in Seq(rest) /\ Linked(file, leaf, rest, path) /\ Ended(file, leaf, rest, path)
  BY <1>1, WalkEnds DEF WalkOf
<1>3. \A p, q \in 1..K : path[p] = path[q] => p = q
  BY <1>1, <1>2, LinkedOnce
<1>4. rest \subseteq CertificatesIn(file)
  BY DEF RestOf
<1>5. line = <<leaf>> \o path
  BY DEF LineOf, Line
<1> HIDE DEF rest, path, line
<1>6. K \in Nat /\ \A n \in 1..K : path[n] \in rest
  BY <1>2
<1>7. /\ line \in Seq(CertificatesIn(file)) /\ Len(line) = K + 1 /\ line[1] = leaf
      /\ \A n \in 1..K : line[n + 1] = path[n]
  BY <1>2, <1>4, <1>5
<1>8. \A n \in 1..(K + 1) : n = 1 \/ (n - 1 \in 1..K /\ line[n] = path[n - 1])
  <2> SUFFICES ASSUME NEW n \in 1..(K + 1), n # 1
               PROVE  n - 1 \in 1..K /\ line[n] = path[n - 1]
    OBVIOUS
  <2>1. n - 1 \in 1..K /\ (n - 1) + 1 = n
    BY <1>6
  <2> QED
    BY <1>7, <2>1
<1>9. ASSUME NEW p \in 1..(K + 1), NEW q \in 1..(K + 1), line[p] = line[q]
      PROVE  p = q
  <2>1. p \in Int /\ q \in Int
    BY <1>6
  <2>2. CASE p = 1 \/ q = 1
    <3>1. \A n \in 1..(K + 1) : n # 1 => line[n] \in rest
      BY <1>6, <1>8
    <3>2. leaf \notin rest /\ line[1] = leaf
      BY <1>1, <1>7
    <3> QED
      BY <1>9, <2>2, <3>1, <3>2
  <2>3. CASE p # 1 /\ q # 1
    <3>1. p - 1 \in 1..K /\ q - 1 \in 1..K /\ path[p - 1] = path[q - 1]
      BY <1>8, <1>9, <2>3
    <3>2. p - 1 = q - 1
      BY <1>3, <3>1
    <3> QED
      BY <2>1, <3>2
  <2> QED
    BY <2>2, <2>3
<1>10. {line[n] : n \in 1..(K + 1)} = {leaf} \cup ToSet(path)
  <2>1. ToSet(path) = {path[n] : n \in 1..K}
    BY <1>2 DEF ToSet
  <2>2. \A n \in 1..K : n + 1 \in 1..(K + 1)
    BY <1>6
  <2>3. 1 \in 1..(K + 1)
    BY <1>6
  <2>4. \A n \in 1..(K + 1) : line[n] = leaf \/ \E m \in 1..K : line[n] = path[m]
    BY <1>7, <1>8
  <2>5. \A m \in 1..K : \E n \in 1..(K + 1) : line[n] = path[m]
    BY <1>7, <2>2
  <2> QED
    BY <1>7, <2>1, <2>3, <2>4, <2>5
<1>11. /\ \A n \in 1..((K + 1) - 1) : line[n + 1] = IssuerAfter(file, rest, line, n)
       /\ IssuerAfter(file, rest, line, K + 1) = 0
  <2>1. (K + 1) - 1 = K /\ line = Line(leaf, path)
    BY <1>5, <1>6 DEF Line
  <2> QED
    BY <1>2, <1>7, <2>1 DEF Linked, Ended
<1>12. K + 1 \in Nat \ {0}
  BY <1>6
<1>13. /\ line \in Seq(CertificatesIn(file))
       /\ Len(line) \in Nat \ {0} /\ line[1] = leaf
       /\ \A p, q \in 1..Len(line) : line[p] = line[q] => p = q
       /\ \A n \in 1..(Len(line) - 1) : line[n + 1] = IssuerAfter(file, rest, line, n)
       /\ IssuerAfter(file, rest, line, Len(line)) = 0
       /\ {line[n] : n \in 1..Len(line)} = {leaf} \cup ToSet(path)
  BY <1>7, <1>9, <1>10, <1>11, <1>12
<1> QED
  BY <1>13 DEF rest, path, line

LEMMA Joined ==
  ASSUME NEW S, NEW s \in Seq(S), NEW M \in Nat, NEW t \in [1..M -> S]
  PROVE  /\ s \o t \in Seq(S) /\ Len(s \o t) = Len(s) + M
         /\ \A n \in 1..Len(s) : (s \o t)[n] = s[n]
         /\ \A p \in 1..M : (s \o t)[Len(s) + p] = t[p]
<1>1. t \in Seq(S) /\ Len(t) = M
  OBVIOUS
<1>2. Len(s) \in Nat /\ s \o t \in Seq(S) /\ Len(s \o t) = Len(s) + M
  BY <1>1
<1>3. ASSUME NEW n \in 1..Len(s) PROVE (s \o t)[n] = s[n]
  BY <1>1, <1>2, <1>3
<1>4. ASSUME NEW p \in 1..M PROVE (s \o t)[Len(s) + p] = t[p]
  <2>1. Len(s) + p \in 1..(Len(s) + M) /\ Len(s) + p > Len(s)
    BY <1>2
  <2> QED
    BY <1>1, <1>2, <2>1
<1> QED
  BY <1>2, <1>3, <1>4

\* The order in which they are served: the line, and then the rest, sorted.
LEMMA OrderHolds ==
  ASSUME NEW file \in Seq(CertBlock), NEW leaf \in CertificatesIn(file)
  PROVE  LET order == OrderOf(file, leaf)
             line == LineOf(file, leaf)
         IN /\ order \in Seq(CertificatesIn(file))
            /\ Len(order) \in Nat /\ Len(line) <= Len(order)
            /\ \A n \in 1..Len(line) : order[n] = line[n]
            /\ \A p, q \in 1..Len(order) :
                 Len(line) < p /\ p < q => Earlier(file, order[p], order[q])
            /\ \A p, q \in 1..Len(order) : order[p] = order[q] => p = q
            /\ \A i \in CertificatesIn(file) : \E n \in 1..Len(order) : order[n] = i
<1> DEFINE certs == CertificatesIn(file)
           rest == RestOf(file, leaf)
           left == LeftOf(file, leaf)
           line == LineOf(file, leaf)
           orphans == Orphans(file, left)
           order == OrderOf(file, leaf)
           L == Len(line)
           M == Cardinality(left)
<1>1. /\ line \in Seq(certs) /\ L \in Nat \ {0}
      /\ \A p, q \in 1..L : line[p] = line[q] => p = q
      /\ {line[n] : n \in 1..L} = {leaf} \cup ToSet(WalkOf(file, leaf))
  BY LineHolds
<1>2. /\ certs \in SUBSET Nat /\ IsFiniteSet(certs)
      /\ \A i \in certs : file[i] \in Certs
  BY FilePositions
<1>3. left = certs \ {line[n] : n \in 1..L}
  BY <1>1 DEF LeftOf, RestOf
<1>4. left \in SUBSET certs /\ left \in SUBSET Nat /\ IsFiniteSet(left) /\ M \in Nat
      /\ \A i \in left : file[i] \in Certs
  <2>1. left \in SUBSET certs
    BY <1>3
  <2> QED
    BY <1>2, <2>1, FS_Subset, FS_CardinalityType
<1>5. /\ orphans \in [1..M -> left]
      /\ \A p, q \in 1..M : p < q => Earlier(file, orphans[p], orphans[q])
  BY <1>4, OrphansSorted
<1>6. order = line \o orphans
  BY DEF OrderOf
<1> HIDE DEF certs, left, line, orphans, order, M
<1>7. \A p, q \in 1..M : orphans[p] = orphans[q] => p = q
  <2> SUFFICES ASSUME NEW p \in 1..M, NEW q \in 1..M, p < q
               PROVE  orphans[p] # orphans[q]
    BY <1>4
  <2>1. Earlier(file, orphans[p], orphans[q]) /\ orphans[p] \in left
    BY <1>5
  <2>2. ~Earlier(file, orphans[p], orphans[p])
    BY <1>4, <2>1, EarlierOrders
  <2> QED
    BY <2>1, <2>2
<1>8. \A i \in left : \E p \in 1..M : orphans[p] = i
  <2>1. M = Cardinality(left)
    BY DEF M
  <2> QED
    BY <1>4, <1>5, <1>7, <2>1, Enumerates
<1>9. /\ order \in Seq(certs) /\ Len(order) = L + M
      /\ \A n \in 1..L : order[n] = line[n]
      /\ \A p \in 1..M : order[L + p] = orphans[p]
  <2>1. orphans \in [1..M -> certs] /\ M \in Nat /\ line \in Seq(certs)
    BY <1>1, <1>4, <1>5
  <2> QED
    BY <1>6, <2>1, Joined
<1>10. \A n \in 1..(L + M) : \/ n \in 1..L
                             \/ n - L \in 1..M /\ order[n] = orphans[n - L]
  <2> SUFFICES ASSUME NEW n \in 1..(L + M), n \notin 1..L
               PROVE  n - L \in 1..M /\ order[n] = orphans[n - L]
    OBVIOUS
  <2>1. n - L \in 1..M /\ L + (n - L) = n
    BY <1>1, <1>4
  <2> QED
    BY <1>9, <2>1
<1>11. ASSUME NEW p \in 1..(L + M), NEW q \in 1..(L + M), L < p, p < q
       PROVE  Earlier(file, order[p], order[q])
  <2>1. p \notin 1..L /\ q \notin 1..L /\ p - L < q - L
    BY <1>1, <1>4, <1>11
  <2> QED
    BY <1>5, <1>10, <2>1
<1>12. ASSUME NEW p \in 1..(L + M), NEW q \in 1..(L + M), order[p] = order[q]
       PROVE  p = q
  <2>1. p \in Int /\ q \in Int /\ L \in Int
    BY <1>1, <1>4
  <2>2. CASE p \in 1..L /\ q \in 1..L
    BY <1>1, <1>9, <1>12, <2>2
  <2>3. CASE p \notin 1..L /\ q \notin 1..L
    <3>1. p - L = q - L
      BY <1>7, <1>10, <1>12, <2>3
    <3> QED
      BY <2>1, <3>1
  <2>4. \A n \in 1..(L + M) : n \in 1..L <=> order[n] \notin left
    BY <1>3, <1>5, <1>9, <1>10
  <2> QED
    BY <1>12, <2>2, <2>3, <2>4
<1>13. ASSUME NEW i \in certs
       PROVE  \E n \in 1..(L + M) : order[n] = i
  <2>1. \A n \in 1..L : n \in 1..(L + M)
    BY <1>1, <1>4
  <2>2. \A p \in 1..M : L + p \in 1..(L + M)
    BY <1>1, <1>4
  <2>3. CASE i \in left
    BY <1>8, <1>9, <2>2, <2>3
  <2>4. CASE i \notin left
    BY <1>3, <1>9, <2>1, <2>4
  <2> QED
    BY <2>3, <2>4
<1>14. L + M \in Nat /\ L <= L + M
  BY <1>1, <1>4
<1>15. /\ order \in Seq(certs)
       /\ Len(order) \in Nat /\ L <= Len(order)
       /\ \A n \in 1..L : order[n] = line[n]
       /\ \A p, q \in 1..Len(order) : L < p /\ p < q => Earlier(file, order[p], order[q])
       /\ \A p, q \in 1..Len(order) : order[p] = order[q] => p = q
       /\ \A i \in certs : \E n \in 1..Len(order) : order[n] = i
  BY <1>9, <1>11, <1>12, <1>13, <1>14
<1> QED
  BY <1>15 DEF certs, order, line

\* Counting a certificate among those served is counting it in the file.
LEMMA ServedAll ==
  ASSUME NEW file \in Seq(CertBlock), NEW leaf \in CertificatesIn(file)
  PROVE  SameCertificates(ServedOf(file, leaf), file)
<1> DEFINE certs == CertificatesIn(file)
           order == OrderOf(file, leaf)
           served == ServedOf(file, leaf)
           N == Len(order)
<1>1. /\ order \in Seq(certs) /\ N \in Nat
      /\ \A p, q \in 1..N : order[p] = order[q] => p = q
      /\ \A i \in certs : \E n \in 1..N : order[n] = i
  <2>1. order \in Seq(certs) /\ N \in Nat
    BY OrderHolds
  <2>2. ASSUME NEW p \in 1..N, NEW q \in 1..N, order[p] = order[q]
        PROVE  p = q
    BY <2>2, OrderHolds
  <2>3. \A i \in certs : \E n \in 1..N : order[n] = i
    BY OrderHolds
  <2> QED
    BY <2>1, <2>2, <2>3
<1>2. served = [n \in 1..N |-> file[order[n]]]
  BY DEF ServedOf
<1>3. certs = {i \in DOMAIN file : file[i] \in Certs}
  BY DEF CertificatesIn
<1> HIDE DEF certs, order, served
<1>4. ASSUME NEW c \in Certs
      PROVE  Count(c, served) = Count(c, file)
  <2> DEFINE S == {n \in DOMAIN served : served[n] = c}
             T == {i \in DOMAIN file : file[i] = c}
             f == [n \in S |-> order[n]]
  <2>1. S = {n \in 1..N : file[order[n]] = c} /\ T = {i \in certs : file[i] = c}
    BY <1>2, <1>3
  <2>2. IsFiniteSet(S)
    <3>1. IsFiniteSet(1..N) /\ S \in SUBSET (1..N)
      BY <1>1, <2>1, FS_Interval
    <3> QED
      BY <3>1, FS_Subset
  <2>3. \A n \in 1..N : order[n] \in certs
    BY <1>1
  <2> HIDE DEF S, T
  <2>4. /\ f \in [S -> T]
        /\ \A x, y \in S : f[x] = f[y] => x = y
        /\ \A t \in T : \E x \in S : f[x] = t
    BY <1>1, <2>1, <2>3
  <2> HIDE DEF f
  <2>5. Cardinality(T) = Cardinality(S)
    BY <2>2, <2>4, SameNumber
  <2> QED
    BY <2>5 DEF Count, S, T
<1> QED
  BY <1>4 DEF SameCertificates, served

-----------------------------------------------------------------------------
(***************************************************************************)
(* What verifies from the leaf comes first                                 *)
(***************************************************************************)
\* The n-th certificate of the line and those it has not used by then.
Nth(file, leaf, n) == file[LineOf(file, leaf)[n]]
Unused(file, leaf, n) == CertificatesIn(file) \ {LineOf(file, leaf)[m] : m \in 1..n}

\* A step of the line: after a root there is none, otherwise there is one as
\* long as somebody bears the issuer's name, and it verifies if it can.
LEMMA LineSteps ==
  ASSUME NEW file \in Seq(CertBlock), NEW leaf \in CertificatesIn(file),
         NEW n \in 1..Len(LineOf(file, leaf))
  PROVE  LET line == LineOf(file, leaf)
             named == Named(file, line[n], Unused(file, leaf, n))
             verified == Verified(file, line[n], Unused(file, leaf, n))
         IN /\ n > 1 /\ IsSelfSigned(Nth(file, leaf, n)) => n = Len(line)
            /\ ~(n > 1 /\ IsSelfSigned(Nth(file, leaf, n))) => (n = Len(line) <=> named = {})
            /\ n < Len(line) => line[n + 1] \in named
            /\ n < Len(line) /\ verified # {} => line[n + 1] \in verified
<1> DEFINE line == LineOf(file, leaf)
           L == Len(line)
           unused == Unused(file, leaf, n)
           named == Named(file, line[n], unused)
           verified == Verified(file, line[n], unused)
           next == IssuerAfter(file, RestOf(file, leaf), line, n)
           found == FindIssuer(file, line[n], unused)
           root == n > 1 /\ IsSelfSigned(file[line[n]])
<1>1. /\ L \in Nat \ {0} /\ line[1] = leaf
      /\ \A m \in 1..(L - 1) : line[m + 1] = IssuerAfter(file, RestOf(file, leaf), line, m)
      /\ IssuerAfter(file, RestOf(file, leaf), line, L) = 0
      /\ line \in Seq(CertificatesIn(file))
  BY LineHolds
<1>2. RestOf(file, leaf) \ {line[m] : m \in 1..n} = unused
  <2>1. 1 \in 1..n
    BY <1>1
  <2>2. leaf \in {line[m] : m \in 1..n}
    BY <1>1, <2>1
  <2> QED
    BY <2>2 DEF RestOf, Unused
<1>3. next = IF root THEN 0 ELSE found
  BY <1>2 DEF IssuerAfter
<1>4. unused \in SUBSET (Nat \ {0})
  BY FilePositions DEF Unused
<1>5. /\ verified # {} => found \in verified
      /\ verified = {} /\ named # {} => found \in named
      /\ named = {} => found = 0
      /\ found # 0 => found \in named
  BY <1>4, IssuerFound
<1>6. verified \subseteq named /\ 0 \notin named
  BY <1>4 DEF Named, Verified
<1>7. /\ n = L => next = 0
      /\ n < L => next = line[n + 1] /\ line[n + 1] # 0
  <2>1. CASE n < L
    <3>1. n \in 1..(L - 1) /\ n + 1 \in 1..L
      BY <1>1, <2>1
    <3>2. line[n + 1] \in CertificatesIn(file)
      BY <1>1, <3>1
    <3>3. line[n + 1] # 0
      BY <3>2, FilePositions
    <3> QED
      BY <1>1, <2>1, <3>1, <3>3
  <2>2. CASE n = L
    BY <1>1, <2>2
  <2> QED
    BY <1>1, <2>1, <2>2
<1>8. n = L \/ n < L
  BY <1>1
<1>9. L \in Nat /\ n \in Nat /\ ~(n < L /\ n = L)
  BY <1>1
<1> HIDE DEF line, L, unused, named, verified, next, found, root
<1>10. /\ root => n = L
       /\ ~root => (n = L <=> named = {})
       /\ n < L => line[n + 1] \in named
       /\ n < L /\ verified # {} => line[n + 1] \in verified
  BY <1>3, <1>5, <1>6, <1>7, <1>8, <1>9
<1> QED
  BY <1>10 DEF line, L, unused, named, verified, root, Nth

LEMMA CertificatesAt ==
  ASSUME NEW file \in Seq(CertBlock)
  PROVE  /\ \A i \in CertificatesIn(file) : file[i] \in CertificatesOf(file)
         /\ \A c \in CertificatesOf(file) : \E i \in CertificatesIn(file) : file[i] = c
BY DEF CertificatesOf, CertificatesIn, ToSet

LEMMA NthIn ==
  ASSUME NEW file \in Seq(CertBlock), NEW leaf \in CertificatesIn(file)
  PROVE  \A n \in 1..Len(LineOf(file, leaf)) : Nth(file, leaf, n) \in CertificatesOf(file)
<1> TAKE n \in 1..Len(LineOf(file, leaf))
<1>1. LineOf(file, leaf) \in Seq(CertificatesIn(file))
  BY LineHolds
<1>2. LineOf(file, leaf)[n] \in CertificatesIn(file)
  BY <1>1
<1> QED
  BY <1>2, CertificatesAt DEF Nth

\* The certificates above the leaf have whoever signed one of them, and are in
\* whatever has the leaf and whoever signed one of it.
LEMMA AboveLeast ==
  ASSUME NEW file, NEW c \in CertificatesOf(file)
  PROVE  /\ c \in Above(c, file) /\ Above(c, file) \subseteq CertificatesOf(file)
         /\ \A e \in Above(c, file), d \in CertificatesOf(file) :
              Signs(d, e) => d \in Above(c, file)
         /\ \A W \in SUBSET CertificatesOf(file) :
              c \in W /\ (\A e \in W, d \in CertificatesOf(file) : Signs(d, e) => d \in W)
                => Above(c, file) \subseteq W
BY DEF Above

\* At most one certificate of an unambiguous file has signed another.
LEMMA OneSigner ==
  ASSUME NEW file, Unambiguous(file), NEW c \in CertificatesOf(file),
         NEW d \in CertificatesOf(file), NEW e \in CertificatesOf(file),
         Signs(d, c), Signs(e, c)
  PROVE  d = e
BY DEF Unambiguous, Signs

\* Where the line stops verifying: every signer of what came before is there.
LEMMA VerifiedPrefix ==
  ASSUME NEW file \in Seq(CertBlock), NEW leaf \in CertificatesIn(file), Unambiguous(file)
  PROVE  \E k \in 1..Len(LineOf(file, leaf)) :
           /\ \A n \in 1..(k - 1) : Signs(Nth(file, leaf, n + 1), Nth(file, leaf, n))
           /\ \A n \in 1..k, d \in CertificatesOf(file) :
                Signs(d, Nth(file, leaf, n)) => \E m \in 1..k : d = Nth(file, leaf, m)
<1> DEFINE line == LineOf(file, leaf)
           L == Len(line)
           c(n) == Nth(file, leaf, n)
           Reached == {k \in 1..L : \A n \in 1..(k - 1) : Signs(c(n + 1), c(n))}
<1>1. L \in Nat \ {0} /\ \A n \in 1..L : c(n) \in CertificatesOf(file)
  BY LineHolds, NthIn
<1>2. 1 \in Reached /\ Reached \in SUBSET (0..L)
  BY <1>1
<1>3. PICK k \in Reached : \A j \in Reached : j <= k
  <2> HIDE DEF Reached, L
  <2> QED
    BY <1>1, <1>2, GreatestUpTo
<1>4. k \in 1..L /\ \A n \in 1..(k - 1) : Signs(c(n + 1), c(n))
  OBVIOUS
<1>5. ASSUME NEW n \in 1..k, NEW d \in CertificatesOf(file), Signs(d, c(n)),
             \A m \in 1..k : d # c(m)
      PROVE  FALSE
  <2>1. CASE n \in 1..(k - 1)
    <3>1. n + 1 \in 1..k /\ n + 1 \in 1..L /\ n \in 1..L
      BY <1>1, <1>4, <2>1
    <3>2. Signs(c(n + 1), c(n))
      BY <1>4, <2>1
    <3>3. d = c(n + 1)
      BY <1>1, <1>5, <3>1, <3>2, OneSigner
    <3> QED
      BY <1>5, <3>1, <3>3
  <2>2. CASE n = k
    <3> DEFINE unused == Unused(file, leaf, k)
               named == Named(file, line[k], unused)
               verified == Verified(file, line[k], unused)
    <3>1. PICK i \in CertificatesIn(file) : file[i] = d
      BY CertificatesAt
    <3>2. i \in unused
      <4>1. \A m \in 1..k : line[m] # i
        BY <1>5, <3>1 DEF Nth
      <4> QED
        BY <4>1 DEF Unused
    <3>3. i \in verified
      BY <1>5, <2>2, <3>1, <3>2 DEF Named, Verified, Signs, IsNamed, Nth
    <3>4. ~(k > 1 /\ IsSelfSigned(c(k)))
      <4> SUFFICES ASSUME k > 1, IsSelfSigned(c(k)) PROVE FALSE
        OBVIOUS
      <4>1. Signs(c(k), c(k))
        BY DEF IsSelfSigned, Signs, IsNamed
      <4>2. d = c(k)
        BY <1>1, <1>4, <1>5, <2>2, <4>1, OneSigner
      <4>3. k \in 1..k
        BY <1>4
      <4> QED
        BY <1>5, <4>2, <4>3
    <3>5. verified \subseteq named
      BY DEF Verified
    <3>6. k # L
      BY <1>4, <3>3, <3>4, <3>5, LineSteps
    <3>7. k < L
      BY <1>1, <1>4, <3>6
    <3>8. line[k + 1] \in verified
      BY <1>4, <3>3, <3>7, LineSteps
    <3>9. Signs(c(k + 1), c(k))
      BY <3>8 DEF Verified, Named, Signs, IsNamed, Nth
    <3>10. k + 1 \in Reached
      <4>1. k + 1 \in 1..L
        BY <1>1, <1>4, <3>7
      <4>2. \A m \in 1..((k + 1) - 1) : m \in 1..(k - 1) \/ m = k
        BY <1>1, <1>4
      <4> HIDE DEF c
      <4>3. \A m \in 1..((k + 1) - 1) : Signs(c(m + 1), c(m))
        BY <1>4, <3>9, <4>2
      <4> QED
        BY <4>1, <4>3
    <3> QED
      BY <1>1, <1>3, <1>4, <3>10
  <2>3. n \in 1..(k - 1) \/ n = k
    BY <1>1, <1>4
  <2> QED
    BY <2>1, <2>2, <2>3
<1>6. \A n \in 1..k, d \in CertificatesOf(file) : Signs(d, c(n)) => \E m \in 1..k : d = c(m)
  BY <1>5
<1> QED
  BY <1>4, <1>6

\* The certificates above the leaf are the first that are served, in the order
\* of issue.
LEMMA AboveFirst ==
  ASSUME NEW file \in Seq(CertBlock), NEW leaf \in CertificatesIn(file), Unambiguous(file)
  PROVE  LET above == Above(file[leaf], file)
             served == ServedOf(file, leaf)
         IN /\ Cardinality(above) \in Nat
            /\ \A i \in 1..Cardinality(above) :
                 /\ served[i] \in above
                 /\ i > 1 => <<served[i - 1], served[i]>> \in Verifies
<1> DEFINE above == Above(file[leaf], file)
           served == ServedOf(file, leaf)
           line == LineOf(file, leaf)
           L == Len(line)
           c(n) == Nth(file, leaf, n)
<1>1. PICK k \in 1..L :
        /\ \A n \in 1..(k - 1) : Signs(c(n + 1), c(n))
        /\ \A n \in 1..k, d \in CertificatesOf(file) :
             Signs(d, c(n)) => \E m \in 1..k : d = c(m)
  BY VerifiedPrefix
<1>2. /\ L \in Nat \ {0} /\ line[1] = leaf
      /\ \A n \in 1..L : c(n) \in CertificatesOf(file)
  BY LineHolds, NthIn
<1>3. c(1) = file[leaf] /\ file[leaf] \in CertificatesOf(file)
  BY <1>2, CertificatesAt DEF Nth
<1>4. k \in Nat /\ 1 \in 1..k /\ \A n \in 1..k : n \in 1..L
  BY <1>2
<1> DEFINE W == {c(n) : n \in 1..k}
<1>5. above \subseteq W
  <2>1. W \in SUBSET CertificatesOf(file) /\ file[leaf] \in W
    BY <1>2, <1>3, <1>4
  <2>2. \A e \in W, d \in CertificatesOf(file) : Signs(d, e) => d \in W
    BY <1>1
  <2> HIDE DEF W
  <2> QED
    BY <1>3, <2>1, <2>2, AboveLeast
<1>6. Cardinality(above) \in Nat /\ Cardinality(above) <= k
  <2> DEFINE f == [n \in 1..k |-> c(n)]
  <2>1. f \in Surjection(1..k, W)
    BY DEF Surjection
  <2>2. IsFiniteSet(1..k) /\ Cardinality(1..k) = k
    BY <1>4, FS_Interval
  <2> HIDE DEF W, f
  <2>3. IsFiniteSet(W) /\ Cardinality(W) <= k
    BY <2>1, <2>2, FS_Surjection
  <2>4. IsFiniteSet(above) /\ Cardinality(above) <= Cardinality(W)
    BY <1>5, <2>3, FS_Subset
  <2> QED
    BY <1>4, <2>3, <2>4, FS_CardinalityType
<1> HIDE DEF c
<1>7. \A n \in 1..k : c(n) \in above
  <2> DEFINE Out == {n \in 1..k : c(n) \notin above}
  <2> SUFFICES ASSUME Out # {} PROVE FALSE
    OBVIOUS
  <2>1. Out \in SUBSET Nat
    BY <1>4
  <2>2. PICK n \in Out : \A m \in Out : n <= m
    BY <2>1, LeastNat
  <2>3. n # 1
    BY <1>3, AboveLeast
  <2>4. n - 1 \in 1..(k - 1) /\ n - 1 \in 1..k /\ ~(n <= n - 1) /\ (n - 1) + 1 = n
    BY <1>4, <2>3
  <2>5. c(n - 1) \in above /\ Signs(c(n), c(n - 1))
    BY <1>1, <2>2, <2>4
  <2>6. c(n) \in CertificatesOf(file)
    BY <1>2, <1>4
  <2>7. c(n) \in above
    BY <1>3, <2>5, <2>6, AboveLeast
  <2> QED
    BY <2>7
<1>8. \A n \in 1..k : served[n] = c(n)
  <2> TAKE n \in 1..k
  <2>1. Len(OrderOf(file, leaf)) \in Nat /\ L <= Len(OrderOf(file, leaf))
        /\ \A m \in 1..L : OrderOf(file, leaf)[m] = line[m]
    BY OrderHolds
  <2>2. n \in 1..L /\ n \in 1..Len(OrderOf(file, leaf))
    BY <1>2, <1>4, <2>1
  <2> QED
    BY <2>1, <2>2 DEF ServedOf, Nth, c
<1>9. ASSUME NEW i \in 1..Cardinality(above)
      PROVE  /\ served[i] \in above
             /\ i > 1 => <<served[i - 1], served[i]>> \in Verifies
  <2>1. i \in 1..k /\ (i > 1 => i - 1 \in 1..k /\ i - 1 \in 1..(k - 1) /\ (i - 1) + 1 = i)
    BY <1>4, <1>6
  <2>2. i > 1 => Signs(c(i), c(i - 1))
    BY <1>1, <2>1
  <2>3. i > 1 => <<c(i - 1), c(i)>> \in Verifies
    BY <2>2 DEF Signs
  <2> QED
    BY <1>7, <1>8, <2>1, <2>3
<1> QED
  BY <1>6, <1>9

-----------------------------------------------------------------------------
(***************************************************************************)
(* The order of the file decides nothing                                   *)
(***************************************************************************)
\* Two sequences of certificates that agree on a beginning, are sorted from
\* there and have each certificate as often: at the first place where they
\* differ the smaller of the two would be missing from the other.
LEMMA NothingEarlier ==
  ASSUME NEW s \in Seq(Certs), NEW t \in Seq(Certs), SameCertificates(s, t),
         NEW p \in 1..Len(s),
         \A q \in 1..(p - 1) : q \in 1..Len(t) /\ s[q] = t[q],
         p \in 1..Len(t) => Raw[s[p]] < Raw[t[p]],
         \A q \in 1..Len(t) : p < q => Raw[t[p]] <= Raw[t[q]]
  PROVE  FALSE
<1> DEFINE x == s[p]
           S == {q \in DOMAIN s : s[q] = x}
           T == {q \in DOMAIN t : t[q] = x}
<1>1. /\ DOMAIN s = 1..Len(s) /\ Len(s) \in Nat
      /\ DOMAIN t = 1..Len(t) /\ Len(t) \in Nat
      /\ x \in Certs
  OBVIOUS
<1>2. ASSUME NEW q \in T PROVE q \in 1..(p - 1)
  <2>1. q \in 1..Len(t) /\ t[q] = x
    BY <1>1
  <2>2. CASE q = p
    BY <1>1, <2>1, <2>2, PkiAssumption
  <2>3. CASE p < q
    <3>1. p \in 1..Len(t)
      BY <1>1, <2>1, <2>3
    <3>2. t[p] \in Certs
      BY <3>1
    <3>3. Raw[x] < Raw[t[p]] /\ Raw[t[p]] <= Raw[x]
      BY <2>1, <2>3, <3>1
    <3>4. Raw[x] \in Nat /\ Raw[t[p]] \in Nat
      BY <1>1, <3>2, PkiAssumption
    <3> QED
      BY <3>3, <3>4
  <2> QED
    BY <1>1, <2>1, <2>2, <2>3
<1>3. T \in SUBSET S
  <2> SUFFICES ASSUME NEW q \in T PROVE q \in S
    OBVIOUS
  <2>1. q \in 1..(p - 1) /\ t[q] = x /\ q \in 1..Len(s)
    BY <1>1, <1>2
  <2> QED
    BY <1>1, <2>1
<1>4. p \in S /\ p \notin T
  <2>1. p \notin 1..(p - 1)
    BY <1>1
  <2> QED
    BY <1>1, <1>2, <2>1
<1>5. Cardinality(S) = Cardinality(T)
  BY <1>1 DEF SameCertificates, Count
<1>6. IsFiniteSet(S)
  <2>1. S \in SUBSET (1..Len(s)) /\ IsFiniteSet(1..Len(s))
    BY <1>1, FS_Interval
  <2> QED
    BY <2>1, FS_Subset
<1> HIDE DEF S, T
<1> QED
  BY <1>3, <1>4, <1>5, <1>6, FS_Subset

LEMMA SortedSame ==
  ASSUME NEW s \in Seq(Certs), NEW t \in Seq(Certs), SameCertificates(s, t),
         NEW L \in Nat, L <= Len(s), L <= Len(t), \A n \in 1..L : s[n] = t[n],
         \A p, q \in 1..Len(s) : L < p /\ p < q => Raw[s[p]] <= Raw[s[q]],
         \A p, q \in 1..Len(t) : L < p /\ p < q => Raw[t[p]] <= Raw[t[q]]
  PROVE  s = t
<1> DEFINE Same(n) == /\ n \in 1..Len(s) <=> n \in 1..Len(t)
                      /\ n \in 1..Len(s) => s[n] = t[n]
           Bad == {n \in Nat \ {0} : ~Same(n)}
<1>1. /\ Len(s) \in Nat /\ Len(t) \in Nat
      /\ \A n \in 1..Len(s) : s[n] \in Certs /\ Raw[s[n]] \in Nat
      /\ \A n \in 1..Len(t) : t[n] \in Certs /\ Raw[t[n]] \in Nat
  BY PkiAssumption
<1>2. SameCertificates(t, s)
  BY DEF SameCertificates
<1>3. Bad = {}
  <2> SUFFICES ASSUME Bad # {} PROVE FALSE
    OBVIOUS
  <2>1. PICK p \in Bad : \A n \in Bad : p <= n
    <3>1. Bad \in SUBSET Nat
      OBVIOUS
    <3> HIDE DEF Bad
    <3> QED
      BY <3>1, LeastNat
  <2>2. p \in Nat \ {0} /\ ~Same(p)
    OBVIOUS
  <2>3. \A n \in 1..(p - 1) : Same(n)
    <3> TAKE n \in 1..(p - 1)
    <3>1. n \in Nat \ {0} /\ ~(p <= n)
      BY <2>2
    <3> QED
      BY <2>1, <3>1
  <2>4. L < p
    <3> SUFFICES ASSUME p <= L PROVE FALSE
      BY <2>2
    <3>1. p \in 1..L /\ p \in 1..Len(s) /\ p \in 1..Len(t)
      BY <1>1, <2>2
    <3> QED
      BY <2>2, <3>1
  <2>5. CASE p \in 1..Len(s) /\ (p \in 1..Len(t) => Raw[s[p]] < Raw[t[p]])
    <3>1. \A n \in 1..(p - 1) : n \in 1..Len(s)
      BY <1>1, <2>5
    <3>2. \A n \in 1..(p - 1) : n \in 1..Len(t) /\ s[n] = t[n]
      BY <2>3, <3>1
    <3>3. \A q \in 1..Len(t) : p < q => p \in 1..Len(t)
      BY <1>1, <2>2
    <3>4. \A q \in 1..Len(t) : p < q => Raw[t[p]] <= Raw[t[q]]
      BY <2>4, <3>3
    <3> QED
      BY <2>5, <3>2, <3>4, NothingEarlier
  <2>6. CASE p \in 1..Len(t) /\ (p \in 1..Len(s) => Raw[t[p]] < Raw[s[p]])
    <3>1. \A n \in 1..(p - 1) : n \in 1..Len(t)
      BY <1>1, <2>6
    <3>2. \A n \in 1..(p - 1) : n \in 1..Len(s) /\ t[n] = s[n]
      BY <2>3, <3>1
    <3>3. \A q \in 1..Len(s) : p < q => p \in 1..Len(s)
      BY <1>1, <2>2
    <3>4. \A q \in 1..Len(s) : p < q => Raw[s[p]] <= Raw[s[q]]
      BY <2>4, <3>3
    <3> QED
      BY <1>2, <2>6, <3>2, <3>4, NothingEarlier
  <2>7. CASE p \in 1..Len(s) /\ p \in 1..Len(t)
    <3>1. Raw[s[p]] # Raw[t[p]]
      BY <1>1, <2>2, <2>7, PkiAssumption
    <3>2. Raw[s[p]] < Raw[t[p]] \/ Raw[t[p]] < Raw[s[p]]
      BY <1>1, <2>7, <3>1
    <3> QED
      BY <2>5, <2>6, <2>7, <3>2
  <2> QED
    BY <2>2, <2>5, <2>6, <2>7
<1>4. \A n \in Nat \ {0} : Same(n)
  BY <1>3
<1>5. Len(s) = Len(t)
  <2>1. Len(s) # 0 => Len(s) \in 1..Len(t)
    <3>1. Len(s) # 0 => Len(s) \in 1..Len(s) /\ Len(s) \in Nat \ {0}
      BY <1>1
    <3> QED
      BY <1>4, <3>1
  <2>2. Len(t) # 0 => Len(t) \in 1..Len(s)
    <3>1. Len(t) # 0 => Len(t) \in 1..Len(t) /\ Len(t) \in Nat \ {0}
      BY <1>1
    <3> QED
      BY <1>4, <3>1
  <2> QED
    BY <1>1, <2>1, <2>2
<1>6. \A n \in 1..Len(s) : s[n] = t[n]
  <2> TAKE n \in 1..Len(s)
  <2>1. n \in Nat \ {0}
    BY <1>1
  <2> QED
    BY <1>4, <2>1
<1> QED
  BY <1>5, <1>6

LEMMA PlacesFinite ==
  ASSUME NEW f \in Seq(CertBlock)
  PROVE  \A c : IsFiniteSet({i \in DOMAIN f : f[i] = c})
<1> TAKE c
<1> DEFINE S == {i \in DOMAIN f : f[i] = c}
<1>1. DOMAIN f = 1..Len(f) /\ Len(f) \in Nat
  OBVIOUS
<1>2. IsFiniteSet(1..Len(f))
  BY <1>1, FS_Interval
<1>3. S \in SUBSET (1..Len(f))
  BY <1>1
<1> HIDE DEF S
<1>4. IsFiniteSet(S)
  BY <1>2, <1>3, FS_Subset
<1> QED
  BY <1>4 DEF S

\* Files with the same certificates have the same ones in them.
LEMMA SameMembers ==
  ASSUME NEW f \in Seq(CertBlock), NEW g \in Seq(CertBlock), SameCertificates(f, g)
  PROVE  CertificatesOf(f) \subseteq CertificatesOf(g)
<1> SUFFICES ASSUME NEW c \in CertificatesOf(f) PROVE c \in CertificatesOf(g)
  OBVIOUS
<1> DEFINE S == {i \in DOMAIN f : f[i] = c}
           T == {i \in DOMAIN g : g[i] = c}
<1>1. c \in Certs /\ S # {}
  BY DEF CertificatesOf, ToSet
<1>2. Cardinality(S) = Cardinality(T)
  BY <1>1 DEF SameCertificates, Count
<1>3. IsFiniteSet(S)
  BY PlacesFinite
<1>4. T # {}
  <2> SUFFICES ASSUME T = {} PROVE FALSE
    OBVIOUS
  <2> HIDE DEF S, T
  <2>1. Cardinality(T) = 0
    BY FS_EmptySet
  <2> QED
    BY <1>1, <1>2, <1>3, <2>1, FS_EmptySet
<1> QED
  BY <1>1, <1>4 DEF CertificatesOf, ToSet

\* Where two lines have run alike, they have left the same certificates.
LEMMA SameUnused ==
  ASSUME NEW f \in Seq(CertBlock), NEW g \in Seq(CertBlock), SameCertificates(f, g),
         NEW a \in CertificatesIn(f), NEW b \in CertificatesIn(g),
         NEW n \in 1..Len(LineOf(f, a)), n \in 1..Len(LineOf(g, b)),
         \A m \in 1..n : Nth(f, a, m) = Nth(g, b, m),
         NEW i \in Unused(f, a, n)
  PROVE  \E j \in Unused(g, b, n) : g[j] = f[i]
<1> SUFFICES ASSUME \A j \in Unused(g, b, n) : g[j] # f[i] PROVE FALSE
  OBVIOUS
<1> DEFINE d == f[i]
           lf == LineOf(f, a)
           lg == LineOf(g, b)
           M == {m \in 1..n : f[lf[m]] = d}
           S == {j \in DOMAIN f : f[j] = d}
           T == {j \in DOMAIN g : g[j] = d}
<1>1. /\ lf \in Seq(CertificatesIn(f)) /\ Len(lf) \in Nat
      /\ \A p, q \in 1..Len(lf) : lf[p] = lf[q] => p = q
  BY LineHolds
<1>2. /\ lg \in Seq(CertificatesIn(g)) /\ Len(lg) \in Nat
      /\ \A p, q \in 1..Len(lg) : lg[p] = lg[q] => p = q
  BY LineHolds
<1>3. \A m \in 1..n : m \in 1..Len(lf) /\ m \in 1..Len(lg) /\ f[lf[m]] = g[lg[m]]
  BY <1>1, <1>2 DEF Nth
<1>4. i \in DOMAIN f /\ d \in Certs /\ \A m \in 1..n : i # lf[m]
  BY FilePositions DEF Unused
<1>5. \A j \in T : \E m \in M : lg[m] = j
  <2> TAKE j \in T
  <2>1. j \in CertificatesIn(g)
    BY <1>4 DEF CertificatesIn
  <2>2. PICK m \in 1..n : lg[m] = j
    BY <2>1 DEF Unused
  <2> QED
    BY <1>3, <2>2
<1>6. \A m \in M : lf[m] \in S /\ lg[m] \in T
  <2> TAKE m \in M
  <2>1. lf[m] \in CertificatesIn(f) /\ lg[m] \in CertificatesIn(g)
    BY <1>1, <1>2, <1>3
  <2> QED
    BY <1>3, <2>1 DEF CertificatesIn
<1>7. M \in SUBSET (1..n) /\ IsFiniteSet(M)
  <2>1. M \in SUBSET (1..n) /\ n \in Nat
    BY <1>1
  <2>2. IsFiniteSet(1..n)
    BY <2>1, FS_Interval
  <2> HIDE DEF M
  <2> QED
    BY <2>1, <2>2, FS_Subset
<1>8. IsFiniteSet(S)
  BY PlacesFinite
<1>9. Cardinality(S) = Cardinality(T)
  BY <1>4 DEF SameCertificates, Count
<1>10. i \in S /\ \A m \in M : lf[m] # i
  BY <1>4, <1>7
<1> HIDE DEF M, S, T, lf, lg, d
<1>11. Cardinality(T) = Cardinality(M)
  <2> DEFINE h == [m \in M |-> lg[m]]
  <2>1. /\ h \in [M -> T]
        /\ \A x, y \in M : h[x] = h[y] => x = y
        /\ \A t \in T : \E x \in M : h[x] = t
    BY <1>2, <1>3, <1>5, <1>6, <1>7
  <2> HIDE DEF h
  <2> QED
    BY <1>7, <2>1, SameNumber
<1>12. \A t \in S : \E m \in M : lf[m] = t
  <2> DEFINE h == [m \in M |-> lf[m]]
  <2>1. /\ h \in [M -> S]
        /\ \A x, y \in M : h[x] = h[y] => x = y
    BY <1>1, <1>3, <1>6, <1>7
  <2>2. h \in Injection(M, S)
    BY <2>1 DEF Injection, IsInjective
  <2>3. h \in Surjection(M, S)
    <3> HIDE DEF h
    <3> QED
      BY <1>8, <1>9, <1>11, <2>2, FS_Injection
  <2>4. \A t \in S : \E m \in M : h[m] = t
    BY <2>3 DEF Surjection
  <2> QED
    BY <2>4
<1> QED
  BY <1>10, <1>12

\* Then they go on alike.
LEMMA SameStep ==
  ASSUME NEW f \in Seq(CertBlock), NEW g \in Seq(CertBlock),
         SameCertificates(f, g), SameCertificates(g, f), Unambiguous(f),
         NEW a \in CertificatesIn(f), NEW b \in CertificatesIn(g),
         NEW n \in 1..Len(LineOf(f, a)), n \in 1..Len(LineOf(g, b)),
         \A m \in 1..n : Nth(f, a, m) = Nth(g, b, m)
  PROVE  /\ n = Len(LineOf(f, a)) <=> n = Len(LineOf(g, b))
         /\ n < Len(LineOf(f, a)) /\ n < Len(LineOf(g, b))
              => Nth(f, a, n + 1) = Nth(g, b, n + 1)
<1> DEFINE lf == LineOf(f, a)
           lg == LineOf(g, b)
           namedF == Named(f, lf[n], Unused(f, a, n))
           namedG == Named(g, lg[n], Unused(g, b, n))
           verifiedF == Verified(f, lf[n], Unused(f, a, n))
           verifiedG == Verified(g, lg[n], Unused(g, b, n))
           c == Nth(f, a, n)
<1>1. f[lf[n]] = c /\ g[lg[n]] = c /\ n \in 1..n
  <2>1. n \in 1..n
    BY LineHolds
  <2> QED
    BY <2>1 DEF Nth
<1>2. \A i \in Unused(f, a, n) : \E j \in Unused(g, b, n) : g[j] = f[i]
  BY SameUnused
<1>3. \A j \in Unused(g, b, n) : \E i \in Unused(f, a, n) : f[i] = g[j]
  BY SameUnused
<1>4. /\ namedF = {i \in Unused(f, a, n) : IsNamed(f[i], c)}
      /\ namedG = {j \in Unused(g, b, n) : IsNamed(g[j], c)}
      /\ verifiedF = {i \in Unused(f, a, n) : Signs(f[i], c)}
      /\ verifiedG = {j \in Unused(g, b, n) : Signs(g[j], c)}
  BY <1>1 DEF Named, Verified, IsNamed, Signs
<1> HIDE DEF namedF, namedG, verifiedF, verifiedG
<1>5. (namedF = {} <=> namedG = {}) /\ (verifiedF = {} <=> verifiedG = {})
  BY <1>2, <1>3, <1>4
<1>6. /\ n > 1 /\ IsSelfSigned(c) => n = Len(lf)
      /\ ~(n > 1 /\ IsSelfSigned(c)) => (n = Len(lf) <=> namedF = {})
      /\ n < Len(lf) => lf[n + 1] \in namedF
      /\ n < Len(lf) /\ verifiedF # {} => lf[n + 1] \in verifiedF
  BY LineSteps DEF namedF, verifiedF
<1>7. /\ n > 1 /\ IsSelfSigned(c) => n = Len(lg)
      /\ ~(n > 1 /\ IsSelfSigned(c)) => (n = Len(lg) <=> namedG = {})
      /\ n < Len(lg) => lg[n + 1] \in namedG
      /\ n < Len(lg) /\ verifiedG # {} => lg[n + 1] \in verifiedG
  <2>1. Nth(g, b, n) = c
    BY <1>1
  <2> QED
    BY <2>1, LineSteps DEF namedG, verifiedG
<1>8. ASSUME n < Len(lf), n < Len(lg)
      PROVE  f[lf[n + 1]] = g[lg[n + 1]]
  <2> DEFINE x == lf[n + 1]
             y == lg[n + 1]
  <2>1. x \in namedF /\ y \in namedG
    BY <1>6, <1>7, <1>8
  <2>2. /\ f[x] \in CertificatesOf(f) /\ g[y] \in CertificatesOf(f) /\ c \in CertificatesOf(f)
    <3>1. x \in CertificatesIn(f) /\ y \in CertificatesIn(g)
      BY <1>4, <2>1 DEF Unused
    <3>2. f[x] \in CertificatesOf(f) /\ g[y] \in CertificatesOf(g)
      BY <3>1, CertificatesAt
    <3> QED
      BY <3>2, SameMembers, NthIn
  <2>3. IsNamed(f[x], c) /\ IsNamed(g[y], c)
    BY <1>4, <2>1
  <2>4. Signs(f[x], c) <=> Signs(g[y], c)
    <3>1. CASE verifiedF # {}
      BY <1>4, <1>5, <1>6, <1>7, <1>8, <3>1
    <3>2. CASE verifiedF = {}
      BY <1>4, <1>5, <2>1, <3>2
    <3> QED
      BY <3>1, <3>2
  <2> HIDE DEF x, y, c
  <2>5. f[x] = g[y]
    BY <2>2, <2>3, <2>4 DEF Unambiguous
  <2> QED
    BY <2>5 DEF x, y
<1>9. n = Len(lf) <=> n = Len(lg)
  BY <1>5, <1>6, <1>7
<1> QED
  BY <1>8, <1>9 DEF Nth

LEMMA SameLine ==
  ASSUME NEW f \in Seq(CertBlock), NEW g \in Seq(CertBlock),
         SameCertificates(f, g), SameCertificates(g, f), Unambiguous(f),
         NEW a \in CertificatesIn(f), NEW b \in CertificatesIn(g), f[a] = g[b]
  PROVE  /\ Len(LineOf(f, a)) = Len(LineOf(g, b))
         /\ \A n \in 1..Len(LineOf(f, a)) : Nth(f, a, n) = Nth(g, b, n)
<1> DEFINE F == Len(LineOf(f, a))
           G == Len(LineOf(g, b))
           Same(n) == /\ n \in 1..F <=> n \in 1..G
                      /\ n \in 1..F => Nth(f, a, n) = Nth(g, b, n)
           Bad == {n \in Nat \ {0} : ~Same(n)}
<1>1. F \in Nat \ {0} /\ G \in Nat \ {0}
  BY LineHolds
<1>2. Nth(f, a, 1) = Nth(g, b, 1)
  <2>1. LineOf(f, a)[1] = a /\ LineOf(g, b)[1] = b
    BY LineHolds
  <2> QED
    BY <2>1 DEF Nth
<1> HIDE DEF F, G
<1>3. Bad = {}
  <2> SUFFICES ASSUME Bad # {} PROVE FALSE
    OBVIOUS
  <2>1. PICK p \in Bad : \A n \in Bad : p <= n
    <3>1. Bad \in SUBSET Nat
      OBVIOUS
    <3> HIDE DEF Bad
    <3> QED
      BY <3>1, LeastNat
  <2>2. p \in Nat \ {0} /\ ~Same(p)
    OBVIOUS
  <2>3. \A n \in 1..(p - 1) : Same(n)
    <3> TAKE n \in 1..(p - 1)
    <3>1. n \in Nat \ {0} /\ ~(p <= n)
      BY <2>2
    <3> QED
      BY <2>1, <3>1
  <2>4. p # 1
    <3>1. 1 \in 1..F /\ 1 \in 1..G
      BY <1>1
    <3> QED
      BY <1>2, <2>2, <3>1
  <2>5. p \in 1..F \/ p \in 1..G
    BY <2>2
  <2>6. /\ p - 1 \in 1..(p - 1) /\ (p - 1) + 1 = p
        /\ p \in 1..F => p - 1 \in 1..F /\ p - 1 < F
        /\ p \in 1..G => p - 1 \in 1..G /\ p - 1 < G
        /\ p - 1 \in 1..F /\ p - 1 # F => p \in 1..F
        /\ p - 1 \in 1..G /\ p - 1 # G => p \in 1..G
        /\ p - 1 < F => p - 1 # F
        /\ p - 1 < G => p - 1 # G
        /\ \A m \in 1..(p - 1) : p - 1 \in 1..F => m \in 1..F
    BY <1>1, <2>2, <2>4
  <2>7. p - 1 \in 1..F /\ p - 1 \in 1..G
    BY <2>3, <2>5, <2>6
  <2>8. \A m \in 1..(p - 1) : Nth(f, a, m) = Nth(g, b, m)
    BY <2>3, <2>6, <2>7
  <2>9. /\ p - 1 = F <=> p - 1 = G
        /\ p - 1 < F /\ p - 1 < G => Nth(f, a, (p - 1) + 1) = Nth(g, b, (p - 1) + 1)
    <3>1. /\ p - 1 \in 1..Len(LineOf(f, a)) /\ p - 1 \in 1..Len(LineOf(g, b))
          /\ \A m \in 1..(p - 1) : Nth(f, a, m) = Nth(g, b, m)
      BY <2>7, <2>8 DEF F, G
    <3> DEFINE n == p - 1
    <3>2. /\ n = Len(LineOf(f, a)) <=> n = Len(LineOf(g, b))
          /\ n < Len(LineOf(f, a)) /\ n < Len(LineOf(g, b))
               => Nth(f, a, n + 1) = Nth(g, b, n + 1)
      <4> HIDE DEF n
      <4>1. /\ n \in 1..Len(LineOf(f, a)) /\ n \in 1..Len(LineOf(g, b))
            /\ \A m \in 1..n : Nth(f, a, m) = Nth(g, b, m)
        BY <3>1 DEF n
      <4> QED
        BY <4>1, SameStep
    <3> QED
      BY <3>2 DEF F, G
  <2>10. p \in 1..F /\ p \in 1..G
    BY <2>5, <2>6, <2>7, <2>9
  <2> QED
    BY <2>2, <2>6, <2>9, <2>10
<1>4. \A n \in Nat \ {0} : Same(n)
  BY <1>3
<1>5. F \in 1..G /\ G \in 1..F
  <2>1. F \in 1..F /\ G \in 1..G
    BY <1>1
  <2> QED
    BY <1>1, <1>4, <2>1
<1>6. F = G
  BY <1>1, <1>5
<1>7. \A n \in 1..F : n \in Nat \ {0}
  BY <1>1
<1>8. \A n \in 1..F : Nth(f, a, n) = Nth(g, b, n)
  BY <1>4, <1>7
<1> QED
  BY <1>6, <1>8 DEF F, G

\* What is served: the line, and from there on sorted by bytes.
LEMMA ServedShape ==
  ASSUME NEW file \in Seq(CertBlock), NEW leaf \in CertificatesIn(file)
  PROVE  LET served == ServedOf(file, leaf)
             L == Len(LineOf(file, leaf))
         IN /\ served \in Seq(Certs) /\ L \in Nat /\ L <= Len(served)
            /\ \A n \in 1..L : served[n] = Nth(file, leaf, n)
            /\ \A p, q \in 1..Len(served) :
                 L < p /\ p < q => Raw[served[p]] <= Raw[served[q]]
<1> DEFINE order == OrderOf(file, leaf)
           served == ServedOf(file, leaf)
           line == LineOf(file, leaf)
           L == Len(line)
           N == Len(order)
<1>1. L \in Nat
  BY LineHolds
<1>2. /\ order \in Seq(CertificatesIn(file)) /\ N \in Nat /\ L <= N
      /\ \A n \in 1..L : order[n] = line[n]
      /\ \A p, q \in 1..N : L < p /\ p < q => Earlier(file, order[p], order[q])
  BY OrderHolds
<1>3. served = [n \in 1..N |-> file[order[n]]]
  BY DEF ServedOf
<1> HIDE DEF order, served, line, L
<1>4. \A n \in 1..N : order[n] \in CertificatesIn(file) /\ file[order[n]] \in Certs
  BY <1>2, FilePositions
<1>5. served \in Seq(Certs) /\ Len(served) = N
  BY <1>2, <1>3, <1>4
<1>6. ASSUME NEW n \in 1..L
      PROVE  served[n] = Nth(file, leaf, n)
  <2>1. n \in 1..N
    BY <1>1, <1>2
  <2> QED
    BY <1>2, <1>3, <2>1 DEF Nth, line
<1>7. ASSUME NEW p \in 1..N, NEW q \in 1..N, L < p, p < q
      PROVE  Raw[served[p]] <= Raw[served[q]]
  <2>1. Raw[served[p]] \in Nat /\ Raw[served[q]] \in Nat
    BY <1>3, <1>4, PkiAssumption
  <2>2. Earlier(file, order[p], order[q])
    BY <1>2, <1>7
  <2> QED
    BY <1>3, <2>1, <2>2 DEF Earlier
<1>8. /\ served \in Seq(Certs) /\ L \in Nat /\ L <= Len(served)
      /\ \A n \in 1..L : served[n] = Nth(file, leaf, n)
      /\ \A p, q \in 1..Len(served) : L < p /\ p < q => Raw[served[p]] <= Raw[served[q]]
  BY <1>1, <1>2, <1>5, <1>6, <1>7
<1> QED
  BY <1>8 DEF served, L, line

\* Two files with the same certificates, which leave no choice, are served
\* alike from the same leaf.
LEMMA OrderIrrelevant ==
  ASSUME NEW f \in Seq(CertBlock), NEW g \in Seq(CertBlock),
         SameCertificates(f, g), Unambiguous(f),
         NEW a \in CertificatesIn(f), NEW b \in CertificatesIn(g), f[a] = g[b]
  PROVE  ServedOf(f, a) = ServedOf(g, b)
<1> DEFINE s == ServedOf(f, a)
           t == ServedOf(g, b)
           L == Len(LineOf(f, a))
<1>1. SameCertificates(g, f)
  BY DEF SameCertificates
<1>2. L = Len(LineOf(g, b)) /\ \A n \in 1..L : Nth(f, a, n) = Nth(g, b, n)
  BY <1>1, SameLine
<1>3. /\ s \in Seq(Certs) /\ L \in Nat /\ L <= Len(s)
      /\ \A n \in 1..L : s[n] = Nth(f, a, n)
      /\ \A p, q \in 1..Len(s) : L < p /\ p < q => Raw[s[p]] <= Raw[s[q]]
  BY ServedShape
<1>4. /\ t \in Seq(Certs) /\ L <= Len(t)
      /\ \A n \in 1..L : t[n] = Nth(g, b, n)
      /\ \A p, q \in 1..Len(t) : L < p /\ p < q => Raw[t[p]] <= Raw[t[q]]
  BY <1>2, ServedShape
<1>5. SameCertificates(s, t)
  <2>1. SameCertificates(s, f) /\ SameCertificates(t, g)
    BY ServedAll
  <2> QED
    BY <2>1 DEF SameCertificates
<1> HIDE DEF s, t, L
<1>6. \A n \in 1..L : s[n] = t[n]
  BY <1>2, <1>3, <1>4
<1>7. s = t
  BY <1>3, <1>4, <1>5, <1>6, SortedSame
<1> QED
  BY <1>7 DEF s, t

-----------------------------------------------------------------------------
(***************************************************************************)
(* ParseBundle                                                             *)
(***************************************************************************)
\* A bundle as the sequence that is served.
InOrder(bundle) == <<bundle.leaf>> \o bundle.chain

LEMMA SameTail ==
  ASSUME NEW S, NEW x \in S, NEW s \in Seq(S), NEW t \in Seq(S), <<x>> \o s = <<x>> \o t
  PROVE  s = t
<1>1. /\ Len(s) \in Nat /\ Len(t) \in Nat
      /\ Len(<<x>> \o s) = Len(s) + 1 /\ Len(<<x>> \o t) = Len(t) + 1
  OBVIOUS
<1>2. Len(s) = Len(t)
  BY <1>1
<1>3. ASSUME NEW n \in 1..Len(s) PROVE s[n] = t[n]
  <2>1. (<<x>> \o s)[n + 1] = s[n] /\ (<<x>> \o t)[n + 1] = t[n]
    BY <1>1, <1>2
  <2> QED
    BY <2>1
<1> QED
  BY <1>2, <1>3

LEMMA Prefixed ==
  ASSUME NEW S, NEW x \in S, NEW s \in Seq(S)
  PROVE  /\ <<x>> \o s \in Seq(S) /\ Len(<<x>> \o s) = Len(s) + 1
         /\ (<<x>> \o s)[1] = x
         /\ \A n \in 1..Len(s) : (<<x>> \o s)[n + 1] = s[n]
         /\ \A t \in Seq(S) : (<<x>> \o s) \o t = <<x>> \o (s \o t)
OBVIOUS

\* The bundle made from a leaf is what OrderOf says.
LEMMA ChainOf ==
  ASSUME NEW file \in Seq(CertBlock), NEW leaf \in CertificatesIn(file)
  PROVE  LET chain == OrderChain(file, leaf, CertificatesIn(file) \ {leaf})
         IN /\ chain \in Seq(Certs)
            /\ <<file[leaf]>> \o chain = ServedOf(file, leaf)
<1> DEFINE certs == CertificatesIn(file)
           path == WalkOf(file, leaf)
           left == LeftOf(file, leaf)
           orphans == Orphans(file, left)
           order == path \o orphans
           chain == [n \in DOMAIN order |-> file[order[n]]]
           whole == OrderOf(file, leaf)
           M == Cardinality(left)
<1>1. /\ certs \in SUBSET (Nat \ {0}) /\ IsFiniteSet(certs)
      /\ \A i \in certs : file[i] \in Certs
  BY FilePositions
<1>2. RestOf(file, leaf) \in SUBSET certs /\ left \in SUBSET certs
      /\ RestOf(file, leaf) \in SUBSET (Nat \ {0}) /\ left \in SUBSET Nat
  BY <1>1 DEF RestOf, LeftOf
<1>3. IsFiniteSet(RestOf(file, leaf)) /\ IsFiniteSet(left)
  BY <1>1, <1>2, FS_Subset
<1>4. path \in Seq(certs)
  <2>1. path \in Seq(RestOf(file, leaf))
    BY <1>2, <1>3, WalkEnds DEF WalkOf
  <2> HIDE DEF path, certs
  <2> QED
    BY <1>2, <2>1
<1>5. M \in Nat /\ orphans \in [1..M -> certs]
  <2>1. orphans \in [1..M -> left] /\ M \in Nat
    BY <1>1, <1>2, <1>3, OrphansSorted, FS_CardinalityType
  <2> HIDE DEF orphans, left, certs, M
  <2> QED
    BY <1>2, <2>1
<1>6. OrderChain(file, leaf, certs \ {leaf}) = chain
  BY DEF OrderChain, WalkOf, LeftOf, RestOf
<1>7. whole = (<<leaf>> \o path) \o orphans
  BY DEF OrderOf, LineOf, Line
<1> HIDE DEF certs, path, left, orphans, whole, M
<1>8. /\ order \in Seq(certs) /\ Len(order) \in Nat
      /\ whole \in Seq(certs) /\ Len(whole) = Len(order) + 1
      /\ whole[1] = leaf
      /\ \A n \in 1..Len(order) : whole[n + 1] = order[n]
  <2>1. orphans \in Seq(certs)
    BY <1>5
  <2>2. leaf \in certs
    BY DEF certs
  <2> QED
    BY <1>4, <1>7, <2>1, <2>2, Prefixed
<1> HIDE DEF order
<1>9. chain \in Seq(Certs) /\ Len(chain) = Len(order)
      /\ \A n \in 1..Len(order) : chain[n] = file[order[n]]
  <2>1. DOMAIN order = 1..Len(order) /\ \A n \in 1..Len(order) : order[n] \in certs
    BY <1>8
  <2>2. \A n \in 1..Len(order) : file[order[n]] \in Certs
    <3>1. \A i \in certs : file[i] \in Certs
      BY <1>1
    <3> QED
      BY <2>1, <3>1
  <2>3. chain = [n \in 1..Len(order) |-> file[order[n]]]
    BY <2>1
  <2>4. chain \in [1..Len(order) -> Certs]
    BY <2>2, <2>3
  <2> HIDE DEF chain
  <2>5. chain \in Seq(Certs) /\ Len(chain) = Len(order)
    BY <1>8, <2>4
  <2>6. \A n \in 1..Len(order) : chain[n] = file[order[n]]
    BY <2>3
  <2> QED
    BY <2>5, <2>6
<1> HIDE DEF chain
<1>10. <<file[leaf]>> \o chain = [n \in 1..Len(whole) |-> file[whole[n]]]
  <2> DEFINE both == <<file[leaf]>> \o chain
             served == [n \in 1..Len(whole) |-> file[whole[n]]]
  <2>1. file[leaf] \in Certs
    BY <1>1 DEF certs
  <2>2. /\ both \in Seq(Certs) /\ Len(both) = Len(order) + 1 /\ both[1] = file[leaf]
        /\ \A n \in 1..Len(order) : both[n + 1] = file[order[n]]
    BY <1>8, <1>9, <2>1, Prefixed
  <2>3. ASSUME NEW n \in 1..(Len(order) + 1) PROVE both[n] = served[n]
    <3>1. n \in 1..Len(whole)
      BY <1>8
    <3>2. CASE n = 1
      BY <1>8, <2>2, <3>1, <3>2
    <3>3. CASE n # 1
      <4>1. n - 1 \in 1..Len(order) /\ (n - 1) + 1 = n
        BY <1>8, <3>3
      <4>2. both[n] = file[order[n - 1]] /\ whole[n] = order[n - 1]
        BY <1>8, <2>2, <4>1
      <4> QED
        BY <3>1, <4>2
    <3> QED
      BY <3>2, <3>3
  <2>4. both = [n \in 1..(Len(order) + 1) |-> both[n]]
    BY <1>8, <2>2
  <2>5. served = [n \in 1..(Len(order) + 1) |-> served[n]]
    BY <1>8
  <2> HIDE DEF both, served
  <2>6. both = served
    BY <2>3, <2>4, <2>5
  <2> QED
    BY <2>6 DEF both, served
<1> QED
  BY <1>6, <1>9, <1>10 DEF ServedOf, whole, certs

Errors == {"none", "unparsable", "ErrNoCertificates", "ErrNoPrivateKey",
           "ErrUnsupportedKey", "ErrKeyMismatch"}

\* A bundle holds the certificates of a file, the one with the key first, in
\* the order of OrderOf.
BundleOf(bundle, file) ==
  \E leaf \in CertificatesIn(file) :
    bundle.leaf = file[leaf] /\ InOrder(bundle) = ServedOf(file, leaf)

LEMMA Selected ==
  ASSUME NEW file \in Seq(CertBlock), NEW k, SelectLeaf(file, k) # 0
  PROVE  SelectLeaf(file, k) \in CertificatesIn(file)
<1> DEFINE matching == {i \in CertificatesIn(file) : KeyOf[file[i]] = k}
<1>1. matching \in SUBSET Nat
  BY FilePositions
<1>2. matching # {} => Min(matching) \in matching
  BY <1>1, MinOf
<1>3. SelectLeaf(file, k) = IF matching = {} THEN 0 ELSE Min(matching)
  BY DEF SelectLeaf
<1> HIDE DEF matching
<1>4. SelectLeaf(file, k) \in matching
  BY <1>2, <1>3
<1> QED
  BY <1>4 DEF matching

\* Every outcome of the parser is one of its errors, or a bundle of the file.
LEMMA ParsedBundle ==
  ASSUME NEW file \in Seq(CertBlock), NEW pem
  PROVE  LET parsed == ParseBundle(file, pem)
         IN /\ parsed.error \in Errors
            /\ parsed.error = "none" =>
                 parsed.bundle \in ChainBundle /\ BundleOf(parsed.bundle, file)
<1> DEFINE parsed == ParseBundle(file, pem)
           k == pem[Min(KeysIn(pem))]
           leaf == SelectLeaf(file, k)
           chain == OrderChain(file, leaf, CertificatesIn(file) \ {leaf})
           bundle == [leaf |-> file[leaf], chain |-> chain]
<1>1. \/ \E e \in Errors \ {"none"} : parsed = Failed(e)
      \/ leaf # 0 /\ parsed = Parsed(bundle)
  BY DEF ParseBundle, Errors
<1>2. CASE \E e \in Errors \ {"none"} : parsed = Failed(e)
  <2>1. parsed.error \in Errors /\ parsed.error # "none"
    BY <1>2 DEF Failed
  <2> QED
    BY <2>1
<1>3. CASE leaf # 0 /\ parsed = Parsed(bundle)
  <2>1. leaf \in CertificatesIn(file)
    BY <1>3, Selected
  <2>2. file[leaf] \in Certs
    BY <2>1, FilePositions
  <2>3. chain \in Seq(Certs) /\ <<file[leaf]>> \o chain = ServedOf(file, leaf)
    BY <2>1, ChainOf
  <2>4. parsed.error = "none" /\ parsed.bundle = bundle
    BY <1>3 DEF Parsed
  <2> HIDE DEF parsed, chain, leaf
  <2>5. bundle \in ChainBundle /\ BundleOf(bundle, file)
    BY <2>1, <2>2, <2>3 DEF ChainBundle, BundleOf, InOrder
  <2>6. "none" \in Errors
    BY DEF Errors
  <2> QED
    BY <2>4, <2>5, <2>6 DEF parsed
<1> QED
  BY <1>1, <1>2, <1>3

-----------------------------------------------------------------------------
(***************************************************************************)
(* The files of a Secret                                                   *)
(***************************************************************************)
\* What a rewrite leaves is a file again.
LEMMA RewriteSteps ==
  ASSUME crt \in Seq(CertBlock), key \in KeyFiles,
         Reorder \/ AddBlock \/ Drop \/ Rekey
  PROVE  /\ crt' \in Seq(CertBlock) /\ key' \in KeyFiles
         /\ rewrites < MaxRewrites /\ rewrites' = rewrites + 1 /\ seen' = FALSE
         /\ UNCHANGED <<outcome, imported, source>>
<1>1. Len(crt) \in Nat /\ DOMAIN crt = 1..Len(crt)
  OBVIOUS
<1>2. CASE Reorder
  <2>1. PICK p \in Permuted(DOMAIN crt) : Rewrite([i \in DOMAIN crt |-> crt[p[i]]], key)
    BY <1>2 DEF Reorder, Reordered
  <2>2. p \in [1..Len(crt) -> 1..Len(crt)]
    BY <1>1, <2>1 DEF Permuted
  <2>3. [i \in DOMAIN crt |-> crt[p[i]]] \in Seq(CertBlock)
    <3>1. \A i \in 1..Len(crt) : crt[p[i]] \in CertBlock
      BY <2>2
    <3>2. [i \in 1..Len(crt) |-> crt[p[i]]] \in [1..Len(crt) -> CertBlock]
      BY <3>1
    <3> QED
      BY <1>1, <3>2
  <2> QED
    BY <2>1, <2>3 DEF Rewrite
<1>3. CASE AddBlock
  <2>1. PICK block \in CertBlock : Rewrite(Append(crt, block), key)
    BY <1>3 DEF AddBlock
  <2>2. Append(crt, block) \in Seq(CertBlock)
    OBVIOUS
  <2> QED
    BY <2>1, <2>2 DEF Rewrite
<1>4. CASE Drop
  <2>1. PICK i \in DOMAIN crt : Rewrite(RemoveAt(crt, i), key)
    BY <1>4 DEF Drop
  <2>2. i \in 1..Len(crt)
    BY <1>1
  <2>3. RemoveAt(crt, i) \in Seq(CertBlock)
    BY <1>1, <2>2 DEF RemoveAt
  <2> QED
    BY <2>1, <2>3 DEF Rewrite
<1>5. CASE Rekey
  BY <1>5 DEF Rekey, Rewrite
<1> QED
  BY <1>2, <1>3, <1>4, <1>5

\* The bundle in the vault was made from the file it is said to be from.
SourceInv == imported # Other => BundleOf(imported, source)
TypeInv == TypeOK /\ SourceInv

LEMMA SyncStep ==
  ASSUME TypeInv, Sync
  PROVE  TypeInv'
<1> DEFINE parsed == ParseBundle(crt, key)
<1>1. crt \in Seq(CertBlock)
  BY DEF TypeInv, TypeOK
<1>2. /\ parsed.error \in Errors
      /\ parsed.error = "none" => parsed.bundle \in ChainBundle /\ BundleOf(parsed.bundle, crt)
  BY <1>1, ParsedBundle
<1>3. /\ outcome' = parsed.error /\ seen' = TRUE
      /\ UNCHANGED <<crt, key, rewrites>>
      /\ \/ parsed.error = "none" /\ imported' = parsed.bundle /\ source' = crt
         \/ UNCHANGED <<imported, source>>
  BY DEF Sync
<1> HIDE DEF parsed
<1>4. TypeOK'
  BY <1>1, <1>2, <1>3 DEF TypeInv, TypeOK, Errors
<1>5. SourceInv'
  <2>1. CASE parsed.error = "none" /\ imported' = parsed.bundle /\ source' = crt
    BY <1>2, <2>1 DEF SourceInv
  <2>2. CASE UNCHANGED <<imported, source>>
    BY <2>2 DEF TypeInv, SourceInv
  <2> QED
    BY <1>3, <2>1, <2>2
<1> QED
  BY <1>4, <1>5 DEF TypeInv

LEMMA TypeStep ==
  ASSUME TypeInv, [Next]_vars
  PROVE  TypeInv'
<1>1. crt \in Seq(CertBlock) /\ key \in KeyFiles
  BY DEF TypeInv, TypeOK
<1>2. CASE Sync
  BY <1>2, SyncStep
<1>3. CASE Reorder \/ AddBlock \/ Drop \/ Rekey
  <2>1. /\ crt' \in Seq(CertBlock) /\ key' \in KeyFiles
        /\ rewrites < MaxRewrites /\ rewrites' = rewrites + 1 /\ seen' = FALSE
        /\ UNCHANGED <<outcome, imported, source>>
    BY <1>1, <1>3, RewriteSteps
  <2>2. rewrites' \in 0..MaxRewrites
    BY <2>1, FilesAssumption DEF TypeInv, TypeOK
  <2>3. TypeOK'
    BY <2>1, <2>2 DEF TypeInv, TypeOK
  <2>4. SourceInv'
    BY <2>1 DEF TypeInv, SourceInv
  <2> QED
    BY <2>3, <2>4 DEF TypeInv
<1>4. CASE UNCHANGED vars
  BY <1>4 DEF vars, TypeInv, TypeOK, SourceInv
<1> QED
  BY <1>2, <1>3, <1>4 DEF Next

LEMMA TypeInvHolds == Spec => []TypeInv
<1>1. Init => TypeInv
  <2> SUFFICES ASSUME Init PROVE TypeInv
    OBVIOUS
  <2>1. imported = Other /\ source = <<>> /\ seen = FALSE /\ outcome = "none"
    BY DEF Init
  <2>2. crt \in Seq(CertBlock) /\ key \in KeyFiles
    BY FilesAssumption DEF Init
  <2>3. rewrites \in 0..MaxRewrites
    BY FilesAssumption DEF Init
  <2>4. source \in Seq(CertBlock)
    BY <2>1
  <2>5. TypeOK
    BY <2>1, <2>2, <2>3, <2>4 DEF TypeOK
  <2>6. SourceInv
    BY <2>1 DEF SourceInv
  <2> QED
    BY <2>5, <2>6 DEF TypeInv
<1> QED
  BY <1>1, TypeStep, PTL DEF Spec

\* Whatever the files hold and however they are rewritten, a sync ends with a
\* bundle of the file or with one of the parser's errors, and what is stored
\* is a leaf and a chain of certificates.
THEOREM TypeCorrect == Spec => []TypeOK
<1>1. TypeInv => TypeOK
  BY DEF TypeInv
<1> QED
  BY <1>1, TypeInvHolds, PTL

\* orderChain neither drops nor doubles a certificate, for files of any length
\* over any certificates: the stored bundle has each as often as the file.
THEOREM BundleIsFile == Spec => []NothingLost
<1>1. TypeInv => NothingLost
  <2> SUFFICES ASSUME TypeInv, imported # Other
               PROVE  SameCertificates(<<imported.leaf>> \o imported.chain, source)
    BY DEF NothingLost
  <2>1. source \in Seq(CertBlock)
    BY DEF TypeInv, TypeOK
  <2>2. PICK leaf \in CertificatesIn(source) : InOrder(imported) = ServedOf(source, leaf)
    BY DEF TypeInv, SourceInv, BundleOf
  <2>3. SameCertificates(ServedOf(source, leaf), source)
    BY <2>1, ServedAll
  <2> QED
    BY <2>2, <2>3 DEF InOrder
<1> QED
  BY <1>1, TypeInvHolds, PTL

\* The chain goes from the leaf outwards, as Application Gateway wants it: what
\* the signatures link to the leaf comes first, each the issuer of the one
\* before, whatever else the file holds.
THEOREM ChainInOrder == Spec => []ChainServed
<1>1. TypeInv => ChainServed
  <2> SUFFICES ASSUME TypeInv, imported # Other, Unambiguous(source)
               PROVE  LET served == <<imported.leaf>> \o imported.chain
                          path == Above(imported.leaf, source)
                      IN \A i \in 1..Cardinality(path) :
                           /\ served[i] \in path
                           /\ i > 1 => <<served[i - 1], served[i]>> \in Verifies
    BY DEF ChainServed
  <2>1. source \in Seq(CertBlock)
    BY DEF TypeInv, TypeOK
  <2>2. PICK leaf \in CertificatesIn(source) :
          imported.leaf = source[leaf] /\ InOrder(imported) = ServedOf(source, leaf)
    BY DEF TypeInv, SourceInv, BundleOf
  <2>3. \A i \in 1..Cardinality(Above(source[leaf], source)) :
          /\ ServedOf(source, leaf)[i] \in Above(source[leaf], source)
          /\ i > 1 => <<ServedOf(source, leaf)[i - 1], ServedOf(source, leaf)[i]>> \in Verifies
    BY <2>1, AboveFirst
  <2> QED
    BY <2>2, <2>3 DEF InOrder
<1> QED
  BY <1>1, TypeInvHolds, PTL

\* A producer that writes the same certificates in another order causes no
\* import: the order of tls.crt does not reach the bundle.
THEOREM OrderNotTrusted == Spec => ReorderMintsNothing
<1> DEFINE Minted == imported' # imported /\ imported # Other /\ Unambiguous(crt)
                       => ~SameCertificates(crt, source) \/ imported'.leaf # imported.leaf
<1>1. ASSUME TypeInv, [Next]_vars PROVE [Minted]_vars
  <2> SUFFICES ASSUME imported' # imported, imported # Other, Unambiguous(crt),
                      SameCertificates(crt, source), imported'.leaf = imported.leaf
               PROVE  FALSE
    OBVIOUS
  <2>1. /\ crt \in Seq(CertBlock) /\ source \in Seq(CertBlock) /\ imported \in ChainBundle
        /\ key \in KeyFiles
    BY <1>1 DEF TypeInv, TypeOK
  <2>2. Sync
    BY <1>1, <2>1, RewriteSteps DEF Next, vars
  <2>3. /\ ParseBundle(crt, key).error = "none"
        /\ imported' = ParseBundle(crt, key).bundle
    BY <2>2 DEF Sync
  <2>4. imported' \in ChainBundle /\ BundleOf(imported', crt)
    BY <2>1, <2>3, ParsedBundle
  <2>5. PICK a \in CertificatesIn(crt) :
          imported'.leaf = crt[a] /\ InOrder(imported') = ServedOf(crt, a)
    BY <2>4 DEF BundleOf
  <2>6. PICK b \in CertificatesIn(source) :
          imported.leaf = source[b] /\ InOrder(imported) = ServedOf(source, b)
    BY <1>1 DEF TypeInv, SourceInv, BundleOf
  <2>7. InOrder(imported') = InOrder(imported)
    <3>1. crt[a] = source[b]
      BY <2>5, <2>6
    <3>2. ServedOf(crt, a) = ServedOf(source, b)
      BY <2>1, <3>1, OrderIrrelevant
    <3> QED
      BY <2>5, <2>6, <3>2
  <2>8. imported'.chain = imported.chain
    <3>1. /\ imported.leaf \in Certs /\ imported.chain \in Seq(Certs)
          /\ imported'.chain \in Seq(Certs)
      BY <2>1, <2>4 DEF ChainBundle
    <3>2. <<imported.leaf>> \o imported'.chain = <<imported.leaf>> \o imported.chain
      BY <2>7 DEF InOrder
    <3> QED
      BY <3>1, <3>2, SameTail
  <2> QED
    BY <2>1, <2>4, <2>8 DEF ChainBundle
<1> QED
  BY <1>1, TypeInvHolds, PTL DEF Spec, ReorderMintsNothing

=============================================================================
