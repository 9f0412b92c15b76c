---------------------------- MODULE ParallelMap ----------------------------
(***************************************************************************)
(* What a fan-out promises its caller: one answer, with the outcome of     *)
(* every item in the item's own place, and no item given up because of     *)
(* another.  How many calls run at a time, in which order they end, and    *)
(* what became of the others is nobody's concern.                          *)
(***************************************************************************)
EXTENDS Naturals

CONSTANTS
  N,          \* items, in the order requested
  Outcomes,   \* what a call can come to
  Cancelled,  \* the one for a call that was given up
  None        \* no answer yet

VARIABLES
  answer,
  gone  \* has the caller gone away

mapVars == <<answer, gone>>

Answers == [1 .. N -> Outcomes]

MapInit == answer = None /\ gone = FALSE

\* The one answer, each place holding an outcome of that very item.
Respond ==
  /\ answer = None
  /\ \E r \in Answers :
       /\ \A i \in 1 .. N : r[i] = Cancelled => gone
       /\ answer' = [i \in 1 .. N |-> <<i, r[i]>>]
  /\ UNCHANGED gone

Leave ==
  /\ ~ gone
  /\ gone' = TRUE
  /\ UNCHANGED answer

MapSpec == MapInit /\ [][Respond \/ Leave]_mapVars
=============================================================================
