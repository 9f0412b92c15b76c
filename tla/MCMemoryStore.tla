--------------------------- MODULE MCMemoryStore ---------------------------
(***************************************************************************)
(* MemoryStore with the symmetries TLC may use in safety runs: callers,    *)
(* workers, detached goroutines and contents are interchangeable.          *)
(***************************************************************************)
EXTENDS MemoryStore, TLC

Symmetric ==
  Permutations(Callers) \cup Permutations(Workers) \cup Permutations(Detached)
    \cup Permutations(Contents)
=============================================================================
