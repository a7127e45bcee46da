------------------------------ MODULE MCHistory ------------------------------
(* An instance of Comparison for TLC: two installers, two runs that can be    *)
(* saved, one too large, one that names the same public URL twice, and one    *)
(* from before schema 4; a site of two public URLs, each with and without a   *)
(* query.                                                                     *)
EXTENDS Comparison, TLC

CONSTANTS i1, i2, one, two, big, twice, old, a, b, root, rootQ, page, pageQ

TargetsOf == one :> <<a>> @@ two :> <<a>> @@ big :> <<b>> @@ twice :> <<a, b, a>> @@ old :> <<a>>
ShownAs == root :> a @@ rootQ :> a @@ page :> b @@ pageQ :> b

\* The installers are interchangeable.
Alike == Permutations(Installers)
=============================================================================
