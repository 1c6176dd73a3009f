--------------------------- MODULE BundleParsing ---------------------------
(***************************************************************************)
(* How the bytes of a TLS Secret become a bundle: ParseBundle of            *)
(* internal/domain/certificate.go and orderChain of internal/domain/chain.go. *)
(*                                                                         *)
(* A certificate is what the algorithm can tell of it: its two names, its   *)
(* public key, which certificates its signature verifies from, and where    *)
(* its raw bytes sort.  A PEM file is the sequence of its blocks.           *)
(***************************************************************************)
EXTENDS Integers, Sequences, FiniteSets, SequencesExt, FiniteSetsExt

CONSTANTS
  Certs,       \* certificates
  Keys,        \* key pairs
  Subject,     \* [Certs -> names]
  Issuer,      \* [Certs -> names]
  KeyOf,       \* [Certs -> Keys]
  Verifies,    \* pairs <<c, d>>: CheckSignatureFrom accepts d as issuer of c
  Raw,         \* [Certs -> Nat], the order of the certificates' bytes
  Unsupported, \* keys of a type other than RSA, ECDSA and Ed25519
  Garbled,     \* a CERTIFICATE block that is no certificate
  Other        \* a block of another type; in a key file, one that is no key

ASSUME PkiAssumption ==
  /\ KeyOf \in [Certs -> Keys] /\ Unsupported \subseteq Keys
  /\ Verifies \subseteq Certs \X Certs
  /\ Raw \in [Certs -> Nat] /\ \A c, d \in Certs : Raw[c] = Raw[d] => c = d
  /\ {Garbled, Other} \cap (Certs \cup Keys) = {} /\ Garbled # Other

CertBlock == Certs \cup {Garbled, Other}  \* the blocks of a tls.crt
KeyBlock == Keys \cup {Garbled, Other}    \* the blocks of a tls.key

\* A bundle is its leaf and its chain, from the leaf outwards.
ChainBundle == [leaf : Certs, chain : Seq(Certs)]
Parsed(bundle) == [error |-> "none", bundle |-> bundle]
Failed(error) == [error |-> error, bundle |-> Other]

\* parseCertificates: where the certificates are; other blocks are ignored.
CertificatesIn(crt) == {i \in DOMAIN crt : crt[i] \in Certs}

\* ParsePrivateKey: the first block that parses as a key decides, a
\* CERTIFICATE block (Garbled stands for any) and what does not parse aside.
KeysIn(pem) == {i \in DOMAIN pem : pem[i] \in Keys}

-----------------------------------------------------------------------------
(***************************************************************************)
(* orderChain, over positions in the file                                  *)
(***************************************************************************)
\* A fault: the first certificate that bears the issuer's name is taken.
FindIssuer_ByName(crt, child, unused) ==
  LET named == {i \in unused : Subject[crt[i]] = Issuer[crt[child]]}
  IN IF named = {} THEN 0 ELSE Min(named)

\* findIssuer: of the certificates not used yet, the first that bears the
\* issuer's name and verifies, or else the first that bears the name; 0 if none.
FindIssuer(crt, child, unused) ==
  LET named == {i \in unused : Subject[crt[i]] = Issuer[crt[child]]}
      verified == {i \in named : <<crt[child], crt[i]>> \in Verifies}
  IN IF verified # {} THEN Min(verified) ELSE IF named # {} THEN Min(named) ELSE 0

IsSelfSigned(cert) == Subject[cert] = Issuer[cert] /\ <<cert, cert>> \in Verifies

\* What follows the n-th of a line that begins with the leaf: its issuer, or
\* nothing (0) after a root.
IssuerAfter(crt, rest, line, n) ==
  IF n > 1 /\ IsSelfSigned(crt[line[n]]) THEN 0
  ELSE FindIssuer(crt, line[n], rest \ {line[m] : m \in 1..n})

\* The walk from the leaf outwards: each is the issuer of the one before, and
\* it goes on until no issuer is left.
Walk(crt, leaf, rest) ==
  CHOOSE path \in BoundedSeq(rest, Cardinality(rest)) :
    LET line == <<leaf>> \o path
    IN \A n \in DOMAIN line :
         IssuerAfter(crt, rest, line, n) = IF n < Len(line) THEN line[n + 1] ELSE 0

\* A fault: certificates outside the walk keep the order of the file.
Orphans_Unsorted(crt, left) ==
  CHOOSE s \in [1..Cardinality(left) -> left] : \A p, q \in DOMAIN s : p < q => s[p] < s[q]

\* What did not link in, sorted by its bytes; the sort is stable.
Orphans(crt, left) ==
  CHOOSE s \in [1..Cardinality(left) -> left] :
    \A p, q \in DOMAIN s : p < q =>
      \/ Raw[crt[s[p]]] < Raw[crt[s[q]]]
      \/ crt[s[p]] = crt[s[q]] /\ s[p] < s[q]

\* A fault: what did not link in is dropped.
OrderChain_DropsOrphans(crt, leaf, rest) ==
  LET path == Walk(crt, leaf, rest) IN [n \in DOMAIN path |-> crt[path[n]]]

OrderChain(crt, leaf, rest) ==
  LET path == Walk(crt, leaf, rest)
      order == path \o Orphans(crt, rest \ ToSet(path))
  IN [n \in DOMAIN order |-> crt[order[n]]]

-----------------------------------------------------------------------------
\* selectLeaf: the position of the first certificate of this key, or 0.
SelectLeaf(crt, key) ==
  LET matching == {i \in CertificatesIn(crt) : KeyOf[crt[i]] = key}
  IN IF matching = {} THEN 0 ELSE Min(matching)

\* ParseBundle, with its errors in the order the code meets them.
ParseBundle(crt, pem) ==
  LET certs == CertificatesIn(crt)
      key == pem[Min(KeysIn(pem))]
      leaf == SelectLeaf(crt, key)
  IN IF \E i \in DOMAIN crt : crt[i] = Garbled THEN Failed("unparsable")
     ELSE IF certs = {} THEN Failed("ErrNoCertificates")
     ELSE IF KeysIn(pem) = {} THEN Failed("ErrNoPrivateKey")
     ELSE IF key \in Unsupported THEN Failed("ErrUnsupportedKey")
     ELSE IF leaf = 0 THEN Failed("ErrKeyMismatch")
     ELSE Parsed([leaf |-> crt[leaf], chain |-> OrderChain(crt, leaf, certs \ {leaf})])

=============================================================================
