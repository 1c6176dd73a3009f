---------------------------- MODULE MCSecretFile ----------------------------
(***************************************************************************)
(* A small public key infrastructure for SecretFile: a leaf, its previous   *)
(* issue with the same key, its intermediate, a cross-signed variant of     *)
(* that intermediate whose own issuer is never supplied, a newer            *)
(* intermediate of the same name and another key, a root, and a stranger.   *)
(***************************************************************************)
EXTENDS SecretFile

CONSTANTS Present, \* the certificates this instance has
          Longest  \* blocks of the longest file to start from

MCKeys == {"kL", "kI", "kT", "kR", "kS", "kEC"}
Pki(leaf, old, int, cross, twin, root, stray) ==
  [c \in Present |->
     CASE c = "leaf" -> leaf [] c = "old" -> old [] c = "int" -> int [] c = "cross" -> cross
       [] c = "twin" -> twin [] c = "root" -> root [] OTHER -> stray]
MCSubject == Pki("L", "L", "I", "I", "I", "R", "S")
MCIssuer == Pki("I", "I", "R", "X", "R", "R", "S")
MCKeyOf == Pki("kL", "kL", "kI", "kI", "kT", "kR", "kS")
MCRaw == Pki(3, 4, 5, 2, 6, 7, 1)
MCVerifies ==
  {<<"leaf", "int">>, <<"leaf", "cross">>, <<"old", "int">>, <<"old", "cross">>,
   <<"int", "root">>, <<"twin", "root">>, <<"root", "root">>, <<"stray", "stray">>}
  \cap (Present \X Present)

\* Files of every shape, and keys preceded by what is none, of a type that is
\* not supported, of an intermediate, of nobody, or missing.
MCCrtFiles == BoundedSeq(Present \cup {Garbled, Other}, Longest)
MCKeyFiles == {<<"kL">>, <<Garbled, Other, "kL">>, <<"kI", "kL">>, <<"kEC">>, <<"kS">>, <<>>}
OneKey == {<<"kL">>}

=============================================================================
