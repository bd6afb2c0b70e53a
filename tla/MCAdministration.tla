---------------------------- MODULE MCAdministration ----------------------------
(* Instances of Administration for TLC. *)
EXTENDS Administration, TLC

CONSTANTS s1, s2, d1, d2

\* A schema for each dataset.
OneSchemaEach == d1 :> s1 @@ d2 :> s2

\* A single column, and both in the order they do not have in the source.
TwoKeys == {<<"a">>, <<"b", "a">>}

\* Requests are alike, and so are the datasets with their schemas.
Alike ==
  Permutations(Client)
  \cup {d1 :> d2 @@ d2 :> d1 @@ s1 :> s2 @@ s2 :> s1}
=============================================================================
