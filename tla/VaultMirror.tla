---------------------------- MODULE VaultMirror ----------------------------
(***************************************************************************)
(* What the sync half of the operator promises to whoever reads a Key Vault *)
(* (an Application Gateway listener), without the controller: no resource,  *)
(* pass, cache, queue or status.                                            *)
(*                                                                         *)
(* The cluster asks objects to hold certificates, and changes its mind.     *)
(* The operator writes an object only to make it a certificate the cluster  *)
(* has asked for there and the object is not; it never deletes or disables; *)
(* and as long as the vault is reachable it does not leave what is asked    *)
(* for undone.  Others may write the objects too.  CertSyncMirror shows     *)
(* that CertSync implements this.                                           *)
(***************************************************************************)
EXTENDS CertificateDecision

VARIABLES
  wanted,     \* [Names -> SUBSET Bundle]: what each object is asked to hold now
  asked,      \* [Names -> SUBSET Bundle]: and what it was ever asked to hold
  reachable,  \* the vault answers
  vault       \* the objects

-----------------------------------------------------------------------------
\* The cluster's side of every step: what has been asked stays on record.
Demand == \A n \in Names : asked[n] \cup wanted'[n] \subseteq asked'[n]

\* The operator stores a certificate that was asked for, as a new version.
\* A demand may have been withdrawn while the import was on its way, and the
\* vault may take it although the operator never hears of it.
Store(n, b) == /\ ~Mirrors(vault[n], b)
               /\ vault' = [vault EXCEPT ![n] = ImportedObject(@, b)]

\* Others write an object.  They do not forge the operator's digest tag.
Foreign(n) == /\ vault' = [vault EXCEPT ![n] = vault'[n]]
              /\ vault'[n].digest \in {None, vault[n].digest}
              /\ vault'[n].version \in {vault[n].version, vault[n].version + 1}

\* What the operator owes an object: what is wanted there now.
Serve(n) == reachable /\ \E b \in wanted[n] : Store(n, b)

Init == /\ vault = [n \in Names |-> EmptyVaultObject]
        /\ \A n \in Names : wanted[n] \subseteq asked[n]

Next == /\ Demand
        /\ \/ UNCHANGED vault
           \/ \E n \in Names : \/ \E b \in asked[n] : Store(n, b)
                               \/ Foreign(n)

Spec == /\ Init /\ [][Next]_<<wanted, asked, reachable, vault>>
        /\ \A n \in Names : WF_vault(Serve(n))

============================================================================
