--------------------------- MODULE MCMemoryTable ---------------------------
(***************************************************************************)
(* MemoryTable with the symmetries TLC may use: callers, keys and contents *)
(* are interchangeable, ids are not (they are ordered).                    *)
(***************************************************************************)
EXTENDS MemoryTable, TLC

Symmetric == Permutations(Callers) \cup Permutations(Keys) \cup Permutations(Contents)
=============================================================================
