----------------------------- MODULE SecretFile -----------------------------
(***************************************************************************)
(* The two files of a TLS Secret, rewritten by whoever produces them, and   *)
(* the sync that parses them and imports what Key Vault does not hold.      *)
(*                                                                         *)
(* CertSync takes a bundle as a value; here it is computed, because what a  *)
(* rewrite of the files costs (a permanent version in the vault) depends on *)
(* how they are parsed.  The steps of a pass are CertSync's business, so a  *)
(* whole sync is one action.                                                *)
(***************************************************************************)
EXTENDS BundleParsing

CONSTANTS
  CrtFiles,    \* what tls.crt may hold at first
  KeyFiles,    \* what tls.key may hold
  MaxBlocks,   \* bound: certificate blocks in a file
  MaxRewrites  \* bound: rewrites of the files

ASSUME FilesAssumption ==
  /\ \A f \in CrtFiles : f \in Seq(CertBlock)
  /\ \A f \in KeyFiles : f \in Seq(KeyBlock)
  /\ MaxBlocks \in Nat /\ MaxRewrites \in Nat

VARIABLES
  crt, key,    \* the files
  seen,        \* the operator has synced these very files
  outcome,     \* "none", or the error of the last sync
  imported,    \* the bundle the vault holds, Other for none
  source,      \* history: the tls.crt that bundle was parsed from
  rewrites     \* how many rewrites there have been

vars == <<crt, key, seen, outcome, imported, source, rewrites>>

Init == /\ crt \in CrtFiles /\ key \in KeyFiles
        /\ seen = FALSE /\ outcome = "none"
        /\ imported = Other /\ source = <<>>
        /\ rewrites = 0

\* A fault: the error of the parser is not looked at.
Sync_IgnoresError ==
  /\ ~seen /\ seen' = TRUE
  /\ LET parsed == ParseBundle(crt, key)
     IN /\ outcome' = parsed.error
        /\ IF parsed.bundle # imported
             THEN imported' = parsed.bundle /\ source' = crt
             ELSE UNCHANGED <<imported, source>>
  /\ UNCHANGED <<crt, key, rewrites>>

\* The Secret's event leads to one sync: Load, Snapshot, Decide, Import.  The
\* leaf and the chain digest together stand for the bundle.
Sync ==
  /\ ~seen /\ seen' = TRUE
  /\ LET parsed == ParseBundle(crt, key)
     IN /\ outcome' = parsed.error
        /\ IF parsed.error = "none" /\ parsed.bundle # imported
             THEN imported' = parsed.bundle /\ source' = crt
             ELSE UNCHANGED <<imported, source>>
  /\ UNCHANGED <<crt, key, rewrites>>

Rewrite(newCrt, newKey) ==
  /\ rewrites < MaxRewrites /\ rewrites' = rewrites + 1
  /\ Len(newCrt) <= MaxBlocks
  /\ crt' = newCrt /\ key' = newKey
  /\ seen' = FALSE
  /\ UNCHANGED <<outcome, imported, source>>

\* The same blocks in another order.
Permuted(D) == {p \in [D -> D] : ToSet(p) = D}
Reordered(f) == {[i \in DOMAIN f |-> f[p[i]]] : p \in Permuted(DOMAIN f)}
Reorder == \E f \in Reordered(crt) : Rewrite(f, key)
AddBlock == \E block \in CertBlock : Rewrite(Append(crt, block), key)
Drop == \E i \in DOMAIN crt : Rewrite(RemoveAt(crt, i), key)
Rekey == \E f \in KeyFiles : Rewrite(crt, f)

Next == Sync \/ Reorder \/ AddBlock \/ Drop \/ Rekey
Spec == Init /\ [][Next]_vars

-----------------------------------------------------------------------------
\* Every variable keeps its type, and an import has a source.
TypeOK ==
  /\ crt \in Seq(CertBlock) /\ key \in KeyFiles
  /\ seen \in BOOLEAN /\ rewrites \in 0..MaxRewrites
  /\ (imported = Other /\ source = <<>>) \/ imported \in ChainBundle
  /\ source \in Seq(CertBlock)
  /\ outcome \in {"none", "unparsable", "ErrNoCertificates", "ErrNoPrivateKey",
                  "ErrUnsupportedKey", "ErrKeyMismatch"}

Count(c, f) == Cardinality({i \in DOMAIN f : f[i] = c})
SameCertificates(f, g) == \A c \in Certs : Count(c, f) = Count(c, g)

CertificatesOf(f) == ToSet(f) \cap Certs
IsNamed(d, c) == Subject[d] = Issuer[c]
Signs(d, c) == IsNamed(d, c) /\ <<c, d>> \in Verifies

\* No certificate has two signers, or two of its issuer's name that did not
\* sign it.
Unambiguous(f) ==
  \A c, d, e \in CertificatesOf(f) :
    IsNamed(d, c) /\ IsNamed(e, c) /\ (Signs(d, c) <=> Signs(e, c)) => d = e

\* The order of tls.crt cannot be trusted and must not matter: a rewrite that
\* only reorders the certificates, or adds blocks that are none, mints no new
\* version, as long as the certificates themselves leave no choice.
ReorderMintsNothing ==
  [][imported' # imported /\ imported # Other /\ Unambiguous(crt)
       => ~SameCertificates(crt, source) \/ imported'.leaf # imported.leaf]_vars

\* "so that a partially understood bundle still round trips rather than
\* silently losing data": leaf and chain are the certificates of the file,
\* each as often as it is there.
NothingLost ==
  imported # Other => SameCertificates(<<imported.leaf>> \o imported.chain, source)

\* The certificates whose signatures link them to c: the least set that has c
\* and the signers of its members.
Above(c, f) ==
  LET certs == CertificatesOf(f)
      closed == {S \in SUBSET certs :
                   c \in S /\ \A e \in S : \A d \in certs \ S : ~Signs(d, e)}
  IN {d \in certs : \A S \in closed : d \in S}

\* "the full chain with the leaf topmost": the certificates that verify step
\* by step from the leaf come first, in the order of issue, ahead of whatever
\* merely bears a name or is foreign.
ChainServed ==
  imported # Other /\ Unambiguous(source) =>
    LET served == <<imported.leaf>> \o imported.chain
        path == Above(imported.leaf, source)
    IN \A i \in 1..Cardinality(path) :
         /\ served[i] \in path
         /\ i > 1 => <<served[i - 1], served[i]>> \in Verifies

-----------------------------------------------------------------------------
(***************************************************************************)
(* Claims of the comments that the code does not keep.                     *)
(***************************************************************************)
\* Chain "never contains the leaf itself".
LeafNotInChain == imported # Other => ~Contains(imported.chain, imported.leaf)

\* "Since the input order cannot be trusted, we rebuild it here from the
\* certificates themselves": the same certificates give the same bundle.
OrderFromCertificates ==
  [][imported' # imported /\ imported # Other
       => ~SameCertificates(crt, source) \/ imported'.leaf # imported.leaf]_vars

\* The key, "rather than input position, is what makes a certificate the
\* leaf": the same certificates and the same key give the same leaf.
LeafFromKey ==
  [][imported' # imported /\ imported # Other /\ SameCertificates(crt, source)
     /\ KeyOf[imported'.leaf] = KeyOf[imported.leaf]
       => imported'.leaf = imported.leaf]_vars

=============================================================================
