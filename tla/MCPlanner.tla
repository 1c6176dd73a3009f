----------------------------- MODULE MCPlanner -----------------------------
(***************************************************************************)
(* A universe of DNS names for TLC: two zones one inside the other, one     *)
(* whose names derive the same Key Vault names as the nested one, one that  *)
(* derives none, and hosts of every kind under and beside them.             *)
(***************************************************************************)
EXTENDS Planner

Com == << <<"com">> >>
Under(parent, label) == Append(parent, label)

X == Under(Com, <<"x">>)          \* x.com
AX == Under(X, <<"a">>)           \* a.x.com
Dash == Under(Com, <<"a", "x">>)  \* a-x.com
Score == Under(Com, <<"_">>)      \* _.com
Other == Under(Com, <<"y">>)      \* y.com

MCWords == {"a", "b", "c", "com", "wildcard", "x", "y", "_"}
MCSuffixes == {Com}

Double == WildcardOf(Under(X, Star))      \* *.*.x.com
Inner == Under(Under(X, Star), <<"b">>)   \* b.*.x.com

\* Every name that can come up, as the strings sort.
DnsSorted == <<Double, WildcardOf(Score), WildcardOf(Dash), WildcardOf(AX), WildcardOf(Com),
               WildcardOf(X), Score, Dash, AX, Inner, Under(Dash, <<"b">>),
               Under(AX, <<"b">>), Com, X, Other>>
MCDnsRank(n) == CHOOSE i \in DOMAIN DnsSorted : DnsSorted[i] = n

\* Their derived names, as those sort; a-x.com and a.x.com share one.
VaultSorted == <<Derive(Score), Derive(AX), Derive(Under(AX, <<"b">>)), Derive(Inner),
                 Derive(Com), Derive(WildcardOf(Score)), Derive(WildcardOf(AX)),
                 Derive(WildcardOf(Com)), Derive(Double), Derive(WildcardOf(X)),
                 Derive(X), Derive(Other)>>
MCVaultRank(v) == CHOOSE i \in DOMAIN VaultSorted : VaultSorted[i] = v

MCHosts == {X, AX, Dash, WildcardOf(AX), Under(AX, <<"b">>), Under(Dash, <<"b">>), Other,
            Inner}

ZoneSets == {{}, {Com, X}, {X}, {X, AX}, {X, Dash}, {X, AX, Dash}, {X, Score}}
Generated == {Derive(WildcardOf(X)), Disambiguate(Derive(WildcardOf(AX)), {WildcardOf(AX)})}

MCInputs ==
  [hosts : {{}, {X, Under(AX, <<"b">>), Under(Dash, <<"b">>)}},
   zones : ZoneSets, max : {0, 1, 2}, existing : SUBSET Generated,
   grouping : Groupings, seed : BOOLEAN]

\* A policy at its cap, over zones whose names derive one Key Vault name.
CollidingInputs ==
  [hosts : {{Under(AX, <<"b">>)}}, zones : {{AX, Dash}}, max : {1}, existing : {{}},
   grouping : Groupings, seed : {FALSE}]

=============================================================================
