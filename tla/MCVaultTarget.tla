--------------------------- MODULE MCVaultTarget ---------------------------
(***************************************************************************)
(* Instances of VaultTarget: one vault written in several ways, its         *)
(* namesake in another cloud, and what is no vault.                         *)
(***************************************************************************)
EXTENDS VaultTarget

Public == [https |-> TRUE, label |-> "kv", suffix |-> "vault.azure.net",
           capitals |-> FALSE, port |-> FALSE, slashes |-> 0]
China == [Public EXCEPT !.suffix = "vault.azure.cn"]
Elsewhere == [Public EXCEPT !.suffix = "elsewhere"]

Named(label) == [name |-> label, url |-> None]
At(url) == [name |-> None, url |-> url]
Plain(entry) == [entry |-> entry, cloud |-> None]

\* The URL in capitals, with slashes, and with a port.
Loud == At([Public EXCEPT !.capitals = TRUE, !.slashes = 1])
Slashed == At([Public EXCEPT !.slashes = 2])
Ported == At([Public EXCEPT !.port = TRUE])

MCSpecs == {Plain(Named("kv")), [Plain(Named("kv")) EXCEPT !.cloud = "AzureChinaCloud"],
            Plain(Loud), Plain(Slashed), Plain(At(Elsewhere))}
Spellings == {Plain(Named("kv")), Plain(Ported), Plain(Slashed)}

\* The flag unset, a sovereign cloud, a typo.
MCCloudFlags == {None, "AzureChinaCloud", "AzurePublic"}

\* No allowlist; a name; a URL; a namesake and another vault; an entry that
\* is none.
MCVaultFlags == {{}, {Named("kv")}, {Slashed}, {At(China), Named("other")}, {Named("bad")}}
OneName == {{}, {Named("kv")}}

=============================================================================
