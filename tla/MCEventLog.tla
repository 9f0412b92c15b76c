----------------------------- MODULE MCEventLog -----------------------------
(***************************************************************************)
(* EventLog with the symmetries TLC may use: callers and polls are         *)
(* interchangeable, partitions are not (peeks read partition 0).           *)
(***************************************************************************)
EXTENDS EventLog, TLC

Symmetric == Permutations(Callers) \cup Permutations(Polls)
=============================================================================
