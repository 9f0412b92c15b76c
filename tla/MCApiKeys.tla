----------------------------- MODULE MCApiKeys -----------------------------
(***************************************************************************)
(* ApiKeys with the symmetries TLC may use: users, keys, creators and      *)
(* requests are interchangeable.                                           *)
(***************************************************************************)
EXTENDS ApiKeys, TLC

Symmetric ==
  Permutations(Users) \cup Permutations(KeyIds) \cup Permutations(Creators)
    \cup Permutations(Requests)
=============================================================================
