----------------------------- MODULE MCSettings -----------------------------
(***************************************************************************)
(* All short files, and all with one component and a short rest.           *)
(***************************************************************************)
EXTENDS Settings

CONSTANTS MaxLength

UpTo(n) == UNION {[1 .. k -> Letters] : k \in 0 .. n}
OneComponent == {<<"_", "_", "x", " ">> \o rest : rest \in UpTo(MaxLength)}
ShortTexts == UpTo(MaxLength) \cup OneComponent
=============================================================================
