------------------------ MODULE CertSyncMirrorProofs ------------------------
(***************************************************************************)
(* Every step of CertSync is a step of VaultMirror, or changes nothing that *)
(* VaultMirror speaks of: the safety half of ImplementsMirror, for every    *)
(* value of the constants.  Its fairness is left to the runs.               *)
(***************************************************************************)
EXTENDS CertSyncMirror, CertSyncProofs

-----------------------------------------------------------------------------
(***************************************************************************)
(* What has been asked for                                                 *)
(***************************************************************************)
HeardSpec(spec) == spec \in heard.specs
HeardContent(k, content) == content.state = "bundle" => <<k, content.bundle>> \in heard.held

\* The history has all that is said now, and so have the informers' copies
\* and the pass, each of which may show an earlier moment.
SaidHeard ==
  /\ \A s \in Syncs : api[s].exists => HeardSpec(api[s].spec)
  /\ \A k \in Secrets : HeardContent(k, secret[k])
CopiesHeard ==
  /\ \A s \in Syncs : cache[s].exists => HeardSpec(cache[s].spec)
  /\ \A k \in Secrets : HeardContent(k, secretCache[k])
PassHeard == worker.step # "idle" => HeardSpec(worker.object.spec)

\* What a pass carries to the vault was held by the Secret it names.
CarriedHeard ==
  worker.step \in {"read", "import"} =>
    <<worker.object.spec.secret, worker.bundle>> \in heard.held

AskedInv == SaidHeard /\ CopiesHeard /\ PassHeard /\ CarriedHeard

\* The history only grows, and hears what is said.
LEMMA HeardGrows ==
  ASSUME Hear
  PROVE  /\ heard.specs \subseteq heard'.specs /\ heard.held \subseteq heard'.held
         /\ SaidHeard'
<1>1. /\ heard'.specs = heard.specs \cup Said'.specs
      /\ heard'.held = heard.held \cup Said'.held
  BY DEF Hear
<1>2. \A s \in Syncs : api'[s].exists => api'[s].spec \in Said'.specs
  BY DEF Said
<1>3. \A k \in Secrets : secret'[k].state = "bundle" => <<k, secret'[k].bundle>> \in Said'.held
  BY DEF Said
<1> QED
  BY <1>1, <1>2, <1>3 DEF SaidHeard, HeardSpec, HeardContent

LEMMA AskedInit == Init /\ HeardInit => AskedInv
<1> SUFFICES ASSUME Init, HeardInit PROVE AskedInv
  OBVIOUS
<1>1. /\ \A s \in Syncs : api[s].exists => HeardSpec(api[s].spec)
      /\ \A k \in Secrets : HeardContent(k, secret[k])
  BY DEF HeardInit, Said, HeardSpec, HeardContent
<1> QED
  BY <1>1 DEF Init, Idle, AskedInv, SaidHeard, CopiesHeard, PassHeard, CarriedHeard

-----------------------------------------------------------------------------
(***************************************************************************)
(* What the pass carries was asked for                                     *)
(***************************************************************************)
LEMMA CopiesHeardNext ==
  ASSUME TypeOK, AskedInv, Next, Hear
  PROVE  CopiesHeard'
<1>1. /\ heard.specs \subseteq heard'.specs /\ heard.held \subseteq heard'.held
      /\ SaidHeard'
  BY HeardGrows
<1>2. ASSUME NEW s \in Syncs PROVE cache'[s].exists => HeardSpec(cache[s].spec)'
  BY <1>1, CopiesFollow DEF AskedInv, SaidHeard, CopiesHeard, HeardSpec
<1>3. ASSUME NEW k \in Secrets PROVE HeardContent(k, secretCache[k])'
  BY <1>1, CopiesFollow DEF AskedInv, SaidHeard, CopiesHeard, HeardContent
<1> QED
  BY <1>2, <1>3 DEF CopiesHeard

LEMMA PassHeardNext ==
  ASSUME TypeOK, AskedInv, Next, Hear
  PROVE  PassHeard'
<1>1. heard.specs \subseteq heard'.specs
  BY HeardGrows
<1>2. CASE worker.step # "idle" /\ worker'.object.spec = worker.object.spec
  BY <1>1, <1>2 DEF AskedInv, PassHeard, HeardSpec
<1>3. CASE PassBegins
  BY <1>1, <1>3 DEF PassBegins, AskedInv, CopiesHeard, PassHeard, HeardSpec
<1>4. CASE PassEnds
  BY <1>4 DEF PassEnds, PassHeard
<1> QED
  BY <1>2, <1>3, <1>4, CarriesNext DEF PassCarries, PassLoads, PassGoesOn

LEMMA CarriedNext ==
  ASSUME TypeOK, AskedInv, Next, Hear
  PROVE  CarriedHeard'
<1>1. heard.held \subseteq heard'.held
  BY HeardGrows
<1>2. CASE PassEnds \/ PassBegins
  BY <1>2 DEF PassEnds, PassBegins, CarriedHeard
<1>3. CASE PassLoads
  <2> DEFINE spec == worker.object.spec
             content == secretCache[spec.secret]
  <2>1. spec \in Spec /\ spec.secret \in Secrets /\ content \in Contents
    BY <1>3 DEF PassLoads, TypeOK, SyncObject, Spec
  <2>2. content.state = "bundle"
    BY <1>3, <2>1, LoadedSound DEF PassLoads
  <2>3. <<spec.secret, content.bundle>> \in heard'.held
    BY <1>1, <2>1, <2>2 DEF AskedInv, CopiesHeard, HeardContent
  <2> QED
    BY <1>3, <2>3 DEF PassLoads, CarriedHeard
<1>4. CASE PassGoesOn
  BY <1>1, <1>4 DEF PassGoesOn, AskedInv, CarriedHeard
<1> QED
  BY <1>2, <1>3, <1>4, CarriesNext DEF PassCarries

LEMMA AskedNext == TypeOK /\ AskedInv /\ [Next /\ Hear]_<<vars, heard>> => AskedInv'
<1> SUFFICES ASSUME TypeOK, AskedInv, [Next /\ Hear]_<<vars, heard>> PROVE AskedInv'
  OBVIOUS
<1>1. CASE Next /\ Hear
  BY <1>1, HeardGrows, CopiesHeardNext, PassHeardNext, CarriedNext DEF AskedInv
<1>2. CASE UNCHANGED <<vars, heard>>
  BY <1>2 DEF vars, AskedInv, SaidHeard, CopiesHeard, PassHeard, CarriedHeard, HeardSpec,
     HeardContent
<1> QED
  BY <1>1, <1>2

-----------------------------------------------------------------------------
(***************************************************************************)
(* The refinement                                                          *)
(***************************************************************************)
\* What is wanted now has been asked for.
WantedAsked == \A n \in Names : Wanted[n] \subseteq Asked[n]

LEMMA WantedHeard == TypeOK /\ SaidHeard => WantedAsked
<1> SUFFICES ASSUME TypeOK, SaidHeard, NEW n \in Names, NEW b \in Wanted[n]
             PROVE  b \in Asked[n]
  BY DEF WantedAsked
<1> PICK s \in Syncs : /\ Demanding(s) /\ b = secret[api[s].spec.secret].bundle
                       /\ TargetName(api[s].spec.name, b) = n
  BY DEF Wanted
<1> DEFINE spec == api[s].spec
<1>1. spec.secret \in Secrets /\ secret[spec.secret] \in Contents
  BY DEF TypeOK, SyncObject, Spec
<1>2. spec.sound /\ api[s].exists /\ secret[spec.secret].state = "bundle"
  BY DEF Demanding
<1>3. b \in Bundle
  BY <1>1, <1>2, ContentsAssumption, WellFormedContents DEF Secret
<1>4. spec \in heard.specs /\ <<spec.secret, b>> \in heard.held
  BY <1>1, <1>2 DEF SaidHeard, HeardSpec, HeardContent
<1> QED
  BY <1>2, <1>3, <1>4 DEF Asked

\* Nothing that was asked is forgotten.
LEMMA MirrorDemand ==
  ASSUME Hear, WantedAsked'
  PROVE  Mirror!Demand
<1>1. \A n \in Names : Asked[n] \subseteq Asked'[n]
  BY HeardGrows DEF Asked
<1> QED
  BY <1>1 DEF WantedAsked, Mirror!Demand

\* An import stores what was asked for, where the vault does not hold it.
LEMMA MirrorMint ==
  ASSUME TypeOK, AskedInv, CarryInv, worker.step = "import",
         Mint(worker.target, worker.bundle)
  PROVE  \E n \in Names : \E b \in Asked[n] : Mirror!Store(n, b)
<1> DEFINE n == worker.target
           b == worker.bundle
           spec == worker.object.spec
<1>1. n \in Names /\ b \in Bundle
  BY DEF TypeOK
<1>2. /\ spec \in heard.specs /\ spec.sound /\ <<spec.secret, b>> \in heard.held
      /\ TargetName(spec.name, b) = n /\ ~Mirrors(vault[n], b)
  BY DEF AskedInv, PassHeard, CarriedHeard, CarryInv, PassCarried, HeardSpec
<1>3. b \in Asked[n]
  BY <1>1, <1>2 DEF Asked
<1>4. Mirror!Store(n, b)
  BY <1>2 DEF Mint, ImportedObject, Mirrors, Mirror!Store, Mirror!ImportedObject, Mirror!Mirrors
<1> QED
  BY <1>1, <1>3, <1>4

\* What somebody else writes does not forge the operator's digest.
LEMMA MirrorForeign ==
  ASSUME TypeOK, NEW n \in Names, NEW object \in OutOfBand(n),
         vault' = [vault EXCEPT ![n] = object]
  PROVE  Mirror!Foreign(n)
<1>1. vault[n] \in VaultObject /\ vault'[n] = object
  BY DEF TypeOK
<1>2. /\ object.digest \in {None, vault[n].digest}
      /\ object.version \in {vault[n].version, vault[n].version + 1}
  <2>1. CASE object = [vault[n] EXCEPT !.exists = FALSE, !.leaf = None, !.digest = None,
                                       !.enabled = FALSE]
    BY <1>1, <2>1 DEF VaultObject
  <2>2. CASE object = [vault[n] EXCEPT !.enabled = vault[n].exists /\ ~@]
    BY <1>1, <2>2 DEF VaultObject
  <2>3. CASE \E l \in Leaves : object = [exists |-> TRUE, leaf |-> l, digest |-> None,
                                         enabled |-> TRUE, version |-> vault[n].version + 1]
    BY <2>3
  <2> QED
    BY <2>1, <2>2, <2>3 DEF OutOfBand
<1> QED
  BY <1>1, <1>2 DEF Mirror!Foreign

LEMMA MirrorNext ==
  TypeOK /\ AskedInv /\ CarryInv /\ WantedAsked' /\ [Next /\ Hear]_<<vars, heard>>
    => [Mirror!Next]_<<Wanted, Asked, azureUp, vault>>
<1> SUFFICES ASSUME TypeOK, AskedInv, CarryInv, WantedAsked', [Next /\ Hear]_<<vars, heard>>
             PROVE  [Mirror!Next]_<<Wanted, Asked, azureUp, vault>>
  OBVIOUS
<1>1. CASE Next /\ Hear
  <2>1. Mirror!Demand
    BY <1>1, MirrorDemand
  <2>2. CASE vault' = vault
    BY <2>1, <2>2 DEF Mirror!Next
  <2>3. CASE worker.step = "import" /\ Mint(worker.target, worker.bundle)
    BY <2>1, <2>3, MirrorMint DEF Mirror!Next
  <2>4. CASE \E n \in Names : \E object \in OutOfBand(n) : vault' = [vault EXCEPT ![n] = object]
    <3> PICK n \in Names : \E object \in OutOfBand(n) : vault' = [vault EXCEPT ![n] = object]
      BY <2>4
    <3>1. Mirror!Foreign(n)
      BY MirrorForeign
    <3> QED
      BY <2>1, <3>1 DEF Mirror!Next
  <2> QED
    BY <1>1, <2>2, <2>3, <2>4, VaultSteps DEF VaultEvents
<1>2. CASE UNCHANGED <<vars, heard>>
  <2>1. UNCHANGED <<azureUp, vault>> /\ UNCHANGED <<api, secret, now, heard>>
    BY <1>2 DEF vars
  <2>2. Wanted' = Wanted
    BY <2>1 DEF Wanted, Demanding
  <2>3. Asked' = Asked
    BY <2>1 DEF Asked
  <2> QED
    BY <2>1, <2>2, <2>3
<1> QED
  BY <1>1, <1>2

\* Every behaviour of the controller, whatever it loses or reads late, is one
\* of VaultMirror's, its fairness apart: Syncer.Sync imports only what some
\* resource asked to have under that name and the object does not hold.
THEOREM MirrorImplemented ==
  MirrorSafety => Mirror!Init /\ [][Mirror!Next]_<<Wanted, Asked, azureUp, vault>>
<1>1. Init /\ HeardInit => TypeOK /\ CarryInv /\ AskedInv
  BY TypeInit, CarryInit, AskedInit
<1>2. [Next /\ Hear]_<<vars, heard>> => [Next]_vars
  BY DEF vars
<1>3. MirrorSafety => [](TypeOK /\ CarryInv /\ AskedInv)
  BY <1>1, <1>2, TypeNext, CarryNext, AskedNext, PTL DEF MirrorSafety
<1>4. TypeOK /\ AskedInv => WantedAsked
  BY WantedHeard DEF AskedInv
<1>5. Init /\ HeardInit => Mirror!Init
  <2>1. Init /\ HeardInit => WantedAsked
    BY <1>1, <1>4
  <2>2. Mirror!EmptyVaultObject = EmptyVaultObject
    BY DEF Mirror!EmptyVaultObject, EmptyVaultObject
  <2> QED
    BY <2>1, <2>2 DEF Init, WantedAsked, Mirror!Init
<1> QED
  BY <1>3, <1>4, <1>5, MirrorNext, PTL DEF MirrorSafety

=============================================================================
