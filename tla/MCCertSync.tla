----------------------------- MODULE MCCertSync -----------------------------
(***************************************************************************)
(* Small instances of CertSync for TLC.  Which instance a run checks is    *)
(* chosen by its .cfg: the sets below give the constants that a .cfg cannot *)
(* write down.                                                              *)
(***************************************************************************)
EXTENDS CertSync

CONSTANTS l1, l2, l3, c1, c2, n1, n2, s1, s2, k1, k2

\* Two leaves and two chains; l1 expires after instant 0, the others outlive
\* the clock.  l3 carries no subject alternative name.
MCNotBefore == [l \in Leaves |-> 0]
MCNotAfter == [l \in Leaves |-> IF l = l1 THEN 0 ELSE 2]
MCDerivedName == [l \in Leaves |-> IF l = l3 THEN None ELSE IF l = l2 /\ n2 \in Names THEN n2 ELSE n1]

Carrying(l, c) == [state |-> "bundle", bundle |-> [leaf |-> l, chain |-> c]]
Spoiled(state) == [state |-> state, bundle |-> None]

SpecFor(k, n) == [secret |-> k, name |-> n, sound |-> TRUE]
Unsound(k, n) == [SpecFor(k, n) EXCEPT !.sound = FALSE]

\* Two renewals and a rotated chain.
Renewals == {AbsentSecret, Carrying(l1, c1), Carrying(l2, c1), Carrying(l2, c2)}
\* Every way a Secret can be of no use.
Defects == {AbsentSecret, Spoiled("defective"), Spoiled("unreadable"), Carrying(l3, c1),
            Carrying(l1, c1)}
Issued == {AbsentSecret, Carrying(l1, c1)}
DefectsAndRenewal == Defects \cup {Carrying(l2, c1)}
Unclassified == {AbsentSecret, Carrying(l1, c1), Spoiled("unreadable")}
Anything == Unclassified \cup {Carrying(l2, c1)}
TwoLeaves == {AbsentSecret, Carrying(l1, c1), Carrying(l2, c1)}

\* One resource that a user renames, or points at a forbidden vault.
Renamed == [s \in Syncs |-> {SpecFor(k1, n1), SpecFor(k1, n2)}]
Moved == [s \in Syncs |-> {SpecFor(k1, n1), SpecFor(k1, n2), Unsound(k1, n1)}]
Either == [s \in Syncs |-> {SpecFor(k1, n1), SpecFor(k1, None)}]
\* Two resources that share a Secret, one of which a user may rename, so that
\* they share the Key Vault name or do not; and two resources with a Secret
\* each that name one Key Vault object.
Sharing == [s \in Syncs |-> IF s = s1 THEN {SpecFor(k1, n1)}
                                      ELSE {SpecFor(k1, n1), SpecFor(k1, n2)}]
Contending == [s \in Syncs |-> {SpecFor(IF s = s1 THEN k1 ELSE k2, n1)}]
Fixed == [s \in Syncs |-> {SpecFor(k1, n1)}]

MCAnonymous == Leaves \cap {l3}

Budget(edits, secretWrites, vaultWrites, restarts, faults, ticks) ==
  [edits |-> edits, secretWrites |-> secretWrites, vaultWrites |-> vaultWrites,
   restarts |-> restarts, faults |-> faults, ticks |-> ticks]
\* An edit, a renewal and a restart; a renewal, a change out of band and a tick.
SafetyBudget == {Budget(1, 1, 0, 1, 0, 0)}
DriftBudget == {Budget(0, 1, 1, 0, 0, 1)}
\* Two of a renewal, a change out of band and a failing call; two edits (a
\* deletion and a creation) and a restart or a failing call; two ticks of the
\* clock, or one with a renewal, a change out of band, a restart or a failing
\* call.
LiveBudgets == {Budget(0, 1, 1, 0, 0, 0), Budget(0, 1, 0, 0, 1, 0), Budget(0, 0, 1, 0, 1, 0),
                Budget(2, 0, 0, 1, 0, 0), Budget(2, 0, 0, 0, 1, 0),
                Budget(0, 0, 0, 0, 0, 2), Budget(0, 1, 0, 0, 0, 1), Budget(0, 0, 1, 0, 0, 1),
                Budget(0, 0, 0, 1, 0, 1), Budget(0, 0, 0, 0, 1, 1)}
\* An edit with a renewal; a restart with a change out of band.
MirrorBudgets == {Budget(1, 1, 0, 0, 0, 0), Budget(0, 0, 1, 1, 0, 0)}
\* Little is enough for what the code does otherwise than it says.
OneRenewal == {Budget(0, 1, 0, 0, 0, 0)}
OneOfEach == {Budget(1, 1, 0, 0, 0, 0)}
FewBudgets == {Budget(2, 0, 0, 0, 0, 0), Budget(0, 1, 0, 1, 0, 0)}

=============================================================================
