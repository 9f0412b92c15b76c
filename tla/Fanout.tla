------------------------------- MODULE Fanout -------------------------------
(***************************************************************************)
(* The bounded fan-outs of the tools: findHandler and Download of          *)
(* internal/skills start one goroutine per item, each of which waits for a *)
(* place in a channel; inspectMany of internal/gsc uses an errgroup with a *)
(* limit, where it is the loop that waits for the place.  Each goroutine   *)
(* calls out, writes its item's slot of the result slice, gives its place  *)
(* back and leaves the wait group.                                         *)
(*                                                                         *)
(* External: errgroup, whose SetLimit is a channel of that size and whose  *)
(* context is cancelled when a function of the group returns an error.     *)
(***************************************************************************)
EXTENDS Naturals, FiniteSets

CONSTANTS
  N,      \* items of the request
  Limit,  \* maxConcurrentFinds, maxDownloadConcurrency, SetLimit's 5
  None    \* an empty slot, no answer

Items == 1 .. N

\* Who waits for a place: the goroutine (skills) or the loop (errgroup).
Styles == {"goroutine", "loop"}

\* A call succeeds, fails by itself, or fails because its context is over.
Outcomes == {"ok", "failed", "cancelled"}

ASSUME FanoutAssumption ==
  /\ N \in Nat \ {0}
  /\ Limit \in Nat \ {0}
  /\ None \notin [Items -> Items \X Outcomes]
  /\ None \notin Items \X Outcomes

VARIABLES
  style,    \* which of the fan-outs this is
  next,     \* the loop variable: items whose goroutine has been started
  task,     \* where each goroutine is
  places,   \* places taken in the channel
  wg,       \* the wait group's counter
  results,  \* the result slice: an item and its outcome per slot
  ctx,      \* is the context of the calls over
  gone,     \* has the caller gone away
  answer    \* what the handler returned

vars == <<style, next, task, places, wg, results, ctx, gone, answer>>

\* i, q := i, q: the slot is the goroutine's own.
Slot(i) == i

Init ==
  /\ style \in Styles
  /\ next = 0
  /\ task = [i \in Items |-> "unborn"]
  /\ places = 0
  /\ wg = 0
  /\ results = [i \in Items |-> None]
  /\ ctx = FALSE
  /\ gone = FALSE
  /\ answer = None

\* The loop of skills: wg.Add(1) and go.
Spawn ==
  /\ style = "goroutine"
  /\ next < N
  /\ next' = next + 1
  /\ wg' = wg + 1
  /\ task' = [task EXCEPT ![next + 1] = "ready"]
  /\ UNCHANGED <<style, places, results, ctx, gone, answer>>

\* Mutant of Acquire: one place more than the limit.
AcquireOneMore(i) ==
  /\ task[i] = "ready"
  /\ places <= Limit
  /\ places' = places + 1
  /\ task' = [task EXCEPT ![i] = "calling"]
  /\ UNCHANGED <<style, next, wg, results, ctx, gone, answer>>

\* sem <- struct{}{}
Acquire(i) ==
  /\ task[i] = "ready"
  /\ places < Limit
  /\ places' = places + 1
  /\ task' = [task EXCEPT ![i] = "calling"]
  /\ UNCHANGED <<style, next, wg, results, ctx, gone, answer>>

\* The loop of inspectMany: g.Go waits for a place, adds one and starts.
Go ==
  /\ style = "loop"
  /\ next < N
  /\ places < Limit
  /\ next' = next + 1
  /\ places' = places + 1
  /\ wg' = wg + 1
  /\ task' = [task EXCEPT ![next + 1] = "calling"]
  /\ UNCHANGED <<style, results, ctx, gone, answer>>

\* Mutant of Finish: the failure is returned to the errgroup, which cancels
\* the context the other calls share.
FinishReturningError(i, o) ==
  /\ task[i] = "calling"
  /\ o = "cancelled" => ctx
  /\ results' = [results EXCEPT ![Slot(i)] = <<i, o>>]
  /\ task' = [task EXCEPT ![i] = "written"]
  /\ ctx' = (ctx \/ (style = "loop" /\ o = "failed"))
  /\ UNCHANGED <<style, next, places, wg, gone, answer>>

\* The call ends and its outcome, error or not, goes into the slot; to the
\* group the goroutine reports no error.
Finish(i, o) ==
  /\ task[i] = "calling"
  /\ o = "cancelled" => ctx
  /\ results' = [results EXCEPT ![Slot(i)] = <<i, o>>]
  /\ task' = [task EXCEPT ![i] = "written"]
  /\ UNCHANGED <<style, next, places, wg, ctx, gone, answer>>

\* Mutant of Release: the early return of the error path gives nothing back.
ReleaseUnlessFailed(i) ==
  /\ task[i] = "written"
  /\ places' = IF results[i] = <<i, "failed">> THEN places ELSE places - 1
  /\ task' = [task EXCEPT ![i] = "released"]
  /\ UNCHANGED <<style, next, wg, results, ctx, gone, answer>>

\* The deferred calls, last one first: <-sem, then wg.Done().
Release(i) ==
  /\ task[i] = "written"
  /\ places' = places - 1
  /\ task' = [task EXCEPT ![i] = "released"]
  /\ UNCHANGED <<style, next, wg, results, ctx, gone, answer>>

Done(i) ==
  /\ task[i] = "released"
  /\ wg' = wg - 1
  /\ task' = [task EXCEPT ![i] = "done"]
  /\ UNCHANGED <<style, next, places, results, ctx, gone, answer>>

\* The caller's context ends.  Nobody waiting for a place or for the group
\* looks at it; the calls do.
CallerGoes ==
  /\ ~ gone
  /\ gone' = TRUE
  /\ ctx' = TRUE
  /\ UNCHANGED <<style, next, task, places, wg, results, answer>>

\* Wait returns, and with it the handler.
Wait ==
  /\ answer = None
  /\ next = N
  /\ wg = 0
  /\ answer' = results
  /\ UNCHANGED <<style, next, task, places, wg, results, ctx, gone>>

Step(i) ==
  \/ Acquire(i)
  \/ \E o \in Outcomes : Finish(i, o)
  \/ Release(i)
  \/ Done(i)

Next == Spawn \/ Go \/ (\E i \in Items : Step(i)) \/ CallerGoes \/ Wait

Spec == Init /\ [][Next]_vars

\* A call that is sure to end: the clients of skills have a timeout, the Search
\* Console service has only the context of the request.
Ends(i) == (style = "goroutine" \/ ctx) /\ \E o \in Outcomes : Finish(i, o)

\* The loop and the goroutines run on, and calls end where something ends them.
FairSpec ==
  /\ Spec
  /\ WF_vars(Spawn \/ Go \/ Wait)
  /\ \A i \in Items : /\ WF_vars(Acquire(i))
                      /\ WF_vars(Ends(i))
                      /\ WF_vars(Release(i) \/ Done(i))
-----------------------------------------------------------------------------
Holding == {i \in Items : task[i] \in {"calling", "written"}}
Alive == {i \in Items : task[i] \notin {"unborn", "done"}}

\* Values are of their kinds: the channel is never over-full and the wait
\* group never negative.
TypeOK ==
  /\ style \in Styles
  /\ next \in 0 .. N
  /\ task \in [Items -> {"unborn", "ready", "calling", "written", "released", "done"}]
  /\ places \in Nat
  /\ wg \in Nat
  /\ results \in [Items -> (Items \X Outcomes) \cup {None}]
  /\ ctx \in BOOLEAN
  /\ gone \in BOOLEAN
  /\ answer \in [Items -> (Items \X Outcomes) \cup {None}] \cup {None}

\* Never more than the limit call out at a time ("the Inspection API is
\* quota-sensitive", inspection.go:104), whoever waits for the places.
InFlightBounded == Cardinality({i \in Items : task[i] = "calling"}) <= Limit

\* "A single failure is recorded per-requirement rather than aborting the
\* batch": a call is cancelled only when the caller has gone.
FailuresStayApart ==
  \A i \in Items : results[i] # None /\ results[i][2] = "cancelled" => gone

\* The handler implements the parallel map: what it returns has every item's
\* outcome in the item's own slot, it returns once, and no item is given up
\* because another failed (the errgroup of inspectMany shares one context).
Map == INSTANCE ParallelMap WITH Cancelled <- "cancelled", answer <- answer, gone <- gone
ImplementsMap == Map!MapSpec

\* The handler of skills returns, whoever fails and whoever goes away; that of gsc
\* does once its caller has gone, and may wait for ever for a caller that stays.
Returns == style = "goroutine" \/ gone ~> answer # None
=============================================================================
