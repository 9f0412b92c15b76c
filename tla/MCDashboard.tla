---------------------------- MODULE MCDashboard ----------------------------
(***************************************************************************)
(* Dashboard with the symmetry TLC may use when no liveness is checked.    *)
(***************************************************************************)
EXTENDS Dashboard, TLC

Symmetric ==
  Permutations(Users) \cup Permutations(KeyIds) \cup Permutations(Calls)
    \cup Permutations(SigningKeys)
=============================================================================
