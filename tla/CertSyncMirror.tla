--------------------------- MODULE CertSyncMirror ---------------------------
(***************************************************************************)
(* CertSync implements VaultMirror.  What the cluster wants follows from    *)
(* the resources and Secrets at the API server; what it ever asked for      *)
(* needs a history, because a pass may join the copy of a resource from one *)
(* moment with the copy of a Secret from another.                           *)
(***************************************************************************)
EXTENDS CertSync

VARIABLE heard  \* history: every spec a resource had, every bundle a Secret held

Said ==
  [specs |-> {api[s].spec : s \in {t \in Syncs : api[t].exists}},
   held |-> {<<k, secret[k].bundle>> : k \in {j \in Secrets : secret[j].state = "bundle"}}]

HeardInit == heard = Said
Hear == heard' = [specs |-> heard.specs \cup Said'.specs, held |-> heard.held \cup Said'.held]

\* Resource s asks for something that can be had: a permitted vault, a valid
\* certificate, a name to put it under.
Demanding(s) ==
  LET spec == api[s].spec
      content == secret[spec.secret]
  IN /\ api[s].exists /\ ~api[s].deleting /\ spec.sound
     /\ content.state = "bundle"
     /\ TargetName(spec.name, content.bundle) # None
     /\ Validate(content.bundle, now) = "Valid"

Wanted ==
  [n \in Names |->
     {secret[api[s].spec.secret].bundle :
        s \in {t \in Syncs :
                 Demanding(t) /\ TargetName(api[t].spec.name, secret[api[t].spec.secret].bundle) = n}}]

Asked ==
  [n \in Names |->
     {b \in Bundle : \E spec \in heard.specs :
        spec.sound /\ <<spec.secret, b>> \in heard.held /\ TargetName(spec.name, b) = n}]

Mirror == INSTANCE VaultMirror WITH wanted <- Wanted, asked <- Asked, reachable <- azureUp

MirrorSafety == Init /\ HeardInit /\ [][Next /\ Hear]_<<vars, heard>>
MirrorSpec == MirrorSafety /\ EventFairness /\ ResyncFairness

\* Whatever is stale, lost or restarted, Key Vault sees no more than this:
\* each object becomes, one version at a time, a certificate that some
\* resource asked for under that name (its vault permitted) and the object
\* does not hold; and while the vault is reachable, what the cluster goes on
\* wanting for an object is stored there.
ImplementsMirror == Mirror!Spec

=============================================================================
