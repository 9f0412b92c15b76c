---------------------------- MODULE MCTokenCache ----------------------------
(***************************************************************************)
(* TokenCache with the grants TLC tries: a lifetime that is announced, the *)
(* same one left unsaid, and one that is shorter than the margin.          *)
(***************************************************************************)
EXTENDS TokenCache

SomeGrants == {[lifetime |-> 4, expiresIn |-> 4],
               [lifetime |-> 4, expiresIn |-> 0],
               [lifetime |-> 1, expiresIn |-> 1]}
=============================================================================
