------------------------------ MODULE EventLog ------------------------------
(***************************************************************************)
(* The event namespace: event_publish and event_consume (client.go and     *)
(* tools.go of internal/event) over one Kafka topic that every caller      *)
(* shares.  A caller is its api_key_id, resolved before either tool reads  *)
(* or writes anything (callerScope); the lookup itself is in ApiKeys.      *)
(*                                                                         *)
(* External, as the code relies on it: a partition is an append-only log;  *)
(* a consumer group has one cursor per partition, its members share the    *)
(* partitions out among themselves, and whoever is given a partition reads *)
(* on from the group's cursor.                                             *)
(*                                                                         *)
(* Key, value and time stamp of a record are left out; of the headers only *)
(* the one named ownerHeader is kept.                                      *)
(***************************************************************************)
EXTENDS Naturals, Sequences, FiniteSets

CONSTANTS
  Callers,         \* api_key_ids
  Bases,           \* the group names callers pass or the server defaults to
  Polls,           \* event_consume calls that may be open at once
  PartitionCount,  \* partitions of the topic
  Limit,           \* messages a poll may return (clampMax)
  Modes,           \* where callers read from: "group", "earliest" or "latest"
  MaxEvents,       \* bound: records published to one partition
  OwnerHeader,     \* the header name x-mcp-owner
  Idle             \* a slot with no poll

Partitions == 0 .. PartitionCount - 1
Groups == Bases \X Callers
Headers == [{OwnerHeader} -> Callers]

\* What a publisher may send: no such header, or one that names a caller.
Supplied == UNION {[names -> Callers] : names \in SUBSET {OwnerHeader}}

\* A published record; by (history) is who published it.
Record == [headers : Headers, by : Callers]

\* An event is a partition and a place in it, counted from 1.
Event == Partitions \X (Nat \ {0})

\* A poll under way: the reader's assignment and positions, one past the last
\* offset collected from each partition, and the messages for the answer.
Poll == [owner : Callers, group : Groups, from : Modes, pc : {"polling", "answering"},
         parts : SUBSET Partitions, pos : [Partitions -> Nat],
         upTo : [Partitions -> Nat], msgs : Seq(Event)]

ASSUME EventAssumption ==
  /\ PartitionCount \in Nat \ {0}
  /\ Limit \in Nat \ {0}
  /\ MaxEvents \in Nat
  /\ Modes \subseteq {"group", "earliest", "latest"}
  /\ Idle \notin Poll

VARIABLES
  log,     \* the topic: a sequence of records per partition
  cursor,  \* committed offsets: records each group is past, per partition
  poll,    \* the event_consume calls under way
  handed,  \* history: <<group, event>> returned to the caller of a group poll
  lost     \* history: committed by a poll whose answer reached nobody

vars == <<log, cursor, poll, handed, lost>>

\* A group poll that is still fetching is a member of its group.
Members(g) ==
  {q \in Polls : /\ poll[q] # Idle
                 /\ poll[q].from = "group"
                 /\ poll[q].group = g
                 /\ poll[q].pc = "polling"}

InBatch(q, e) == \E n \in DOMAIN poll[q].msgs : poll[q].msgs[n] = e
Batch(q) == {<<poll[q].group, poll[q].msgs[n]>> : n \in DOMAIN poll[q].msgs}
Collected(q) == \E p \in Partitions : poll[q].upTo[p] > 0

\* Mutant of StampOwner: a header the caller sent stands.
StampOwnerUnlessSent(supplied, ownerId) ==
  [h \in DOMAIN supplied \cup {OwnerHeader} |->
     IF h \in DOMAIN supplied THEN supplied[h] ELSE ownerId]

\* The caller's headers with the owner header replaced.
StampOwner(supplied, ownerId) ==
  [h \in DOMAIN supplied \cup {OwnerHeader} |->
     IF h = OwnerHeader THEN ownerId ELSE supplied[h]]

\* Each owner has a group, hence cursors, of its own.
ScopedGroup(base, ownerId) == <<base, ownerId>>

Init ==
  /\ log = [p \in Partitions |-> <<>>]
  /\ cursor = [g \in Groups |-> [p \in Partitions |-> 0]]
  /\ poll = [q \in Polls |-> Idle]
  /\ handed = {}
  /\ lost = {}

\* event_publish: stamp, then append to the partition the balancer chose.
\* Whether the answer arrives makes no difference to the log; a failed produce
\* leaves it alone.
Publish(o, p, supplied) ==
  /\ Len(log[p]) < MaxEvents
  /\ log' = [log EXCEPT ![p] = Append(@, [headers |-> StampOwner(supplied, o), by |-> o])]
  /\ UNCHANGED <<cursor, poll, handed, lost>>

(***************************************************************************)
(* event_consume.  newReader joins the caller's group and waits for an     *)
(* assignment, or peeks at partition 0.  A peek for the latest asks for    *)
(* StartOffset = LastOffset and names no group; kafka-go heeds StartOffset *)
(* for groups only, so the library, not the request, decides at which end  *)
(* of the partition the peek begins: either, here.                         *)
(***************************************************************************)
OpenPoll(q, o, b, from) ==
  /\ poll[q] = Idle
  /\ \E atEnd \in {FALSE, from = "latest"} :
       poll' = [poll EXCEPT ![q] =
         [owner |-> o, group |-> ScopedGroup(b, o), from |-> from, pc |-> "polling",
          parts |-> IF from = "group" THEN {} ELSE {0},
          pos |-> [p \in Partitions |-> IF atEnd THEN Len(log[p]) ELSE 0],
          upTo |-> [p \in Partitions |-> 0], msgs |-> <<>>]]
  /\ UNCHANGED <<log, cursor, handed, lost>>

\* Mutant of Rebalance: a group that has committed nothing starts at the end
\* of the partition (StartOffset = LastOffset).
RebalanceFromLast(g) ==
  /\ Members(g) # {}
  /\ \E share \in [Partitions -> Members(g)] :
       poll' = [q \in Polls |->
         IF q \in Members(g)
         THEN [poll[q] EXCEPT !.parts = {p \in Partitions : share[p] = q},
                              !.pos = [p \in Partitions |-> IF cursor[g][p] = 0 THEN Len(log[p])
                                                            ELSE cursor[g][p]]]
         ELSE poll[q]]
  /\ UNCHANGED <<log, cursor, handed, lost>>

\* External: the group shares out its partitions, after a member came, left or
\* was late with a heartbeat; each member reads on from the cursor, which is
\* the first record while nothing is committed (StartOffset = FirstOffset).
Rebalance(g) ==
  /\ Members(g) # {}
  /\ \E share \in [Partitions -> Members(g)] :
       poll' = [q \in Polls |->
         IF q \in Members(g)
         THEN [poll[q] EXCEPT !.parts = {p \in Partitions : share[p] = q},
                              !.pos = cursor[g]]
         ELSE poll[q]]
  /\ UNCHANGED <<log, cursor, handed, lost>>

Larger(m, n) == IF m > n THEN m ELSE n

Readable(q, p) ==
  /\ poll[q] # Idle
  /\ poll[q].pc = "polling"
  /\ p \in poll[q].parts
  /\ poll[q].pos[p] < Len(log[p])

\* Mutant of Fetch: the limit is looked at after the fetch, whose message is
\* then collected and not returned.
FetchThenStop(q, p) ==
  LET i == poll[q].pos[p] + 1 IN
    /\ Readable(q, p)
    /\ poll' = [poll EXCEPT
         ![q].pos[p] = i,
         ![q].upTo[p] = Larger(@, i),
         ![q].msgs = IF /\ log[p][i].headers[OwnerHeader] = poll[q].owner
                        /\ Len(@) < Limit
                     THEN Append(@, <<p, i>>) ELSE @]
    /\ UNCHANGED <<log, cursor, handed, lost>>

\* Mutant of Fetch: only the caller's own messages are collected.
FetchCollectOwn(q, p) ==
  LET i == poll[q].pos[p] + 1
      own == log[p][i].headers[OwnerHeader] = poll[q].owner IN
    /\ Readable(q, p)
    /\ Len(poll[q].msgs) < Limit
    /\ poll' = [poll EXCEPT
         ![q].pos[p] = i,
         ![q].upTo[p] = IF own THEN Larger(@, i) ELSE @,
         ![q].msgs = IF own THEN Append(@, <<p, i>>) ELSE @]
    /\ UNCHANGED <<log, cursor, handed, lost>>

\* One turn of the loop: fetch, collect, and keep the message if its owner
\* header names the caller.
Fetch(q, p) ==
  LET i == poll[q].pos[p] + 1 IN
    /\ Readable(q, p)
    /\ Len(poll[q].msgs) < Limit
    /\ poll' = [poll EXCEPT
         ![q].pos[p] = i,
         ![q].upTo[p] = Larger(@, i),
         ![q].msgs = IF log[p][i].headers[OwnerHeader] = poll[q].owner
                     THEN Append(@, <<p, i>>) ELSE @]
    /\ UNCHANGED <<log, cursor, handed, lost>>

\* A fetch fails otherwise than by the deadline, or the process stops: no commit.
FetchFails(q) ==
  /\ poll[q] # Idle
  /\ poll[q].pc = "polling"
  /\ poll' = [poll EXCEPT ![q] = Idle]
  /\ UNCHANGED <<log, cursor, handed, lost>>

(***************************************************************************)
(* The loop ends at the limit, at the deadline or when the caller goes     *)
(* away: at any time, therefore.  A group poll that collected anything     *)
(* commits before it answers, wherever its partitions have gone meanwhile. *)
(***************************************************************************)
Committing(q) ==
  /\ poll[q] # Idle
  /\ poll[q].pc = "polling"
  /\ poll[q].from = "group"
  /\ Collected(q)

Committed(q) ==
  [cursor EXCEPT ![poll[q].group] =
     [p \in Partitions |-> IF poll[q].upTo[p] > 0 THEN poll[q].upTo[p] ELSE @[p]]]

CommitOk(q) ==
  /\ Committing(q)
  /\ cursor' = Committed(q)
  /\ poll' = [poll EXCEPT ![q].pc = "answering"]
  /\ UNCHANGED <<log, handed, lost>>

\* CommitMessages returns an error and the group has not moved.
CommitRefused(q) ==
  /\ Committing(q)
  /\ poll' = [poll EXCEPT ![q] = Idle]
  /\ UNCHANGED <<log, cursor, handed, lost>>

\* It returns an error and the group has moved: the messages are dropped.
CommitLost(q) ==
  /\ Committing(q)
  /\ cursor' = Committed(q)
  /\ poll' = [poll EXCEPT ![q] = Idle]
  /\ lost' = lost \cup Batch(q)
  /\ UNCHANGED <<log, handed>>

\* The batch reaches the caller, after the commit or with nothing to commit.
Answer(q) ==
  /\ poll[q] # Idle
  /\ poll[q].pc = "answering" \/ ~ Committing(q)
  /\ poll' = [poll EXCEPT ![q] = Idle]
  /\ IF poll[q].from = "group"
     THEN handed' = handed \cup Batch(q)
     ELSE UNCHANGED handed
  /\ UNCHANGED <<log, cursor, lost>>

\* The caller has gone, or the process stops, between commit and answer.
AnswerLost(q) ==
  /\ poll[q] # Idle
  /\ poll[q].pc = "answering"
  /\ poll' = [poll EXCEPT ![q] = Idle]
  /\ lost' = lost \cup Batch(q)
  /\ UNCHANGED <<log, cursor, handed>>

Next ==
  \/ \E o \in Callers, p \in Partitions, supplied \in Supplied : Publish(o, p, supplied)
  \/ \E q \in Polls, o \in Callers, b \in Bases, from \in Modes : OpenPoll(q, o, b, from)
  \/ \E g \in Groups : Rebalance(g)
  \/ \E q \in Polls, p \in Partitions : Fetch(q, p)
  \/ \E q \in Polls :
       \/ FetchFails(q)
       \/ CommitOk(q)
       \/ CommitRefused(q)
       \/ CommitLost(q)
       \/ Answer(q)
       \/ AnswerLost(q)

Spec == Init /\ [][Next]_vars

\* What a broker that is reachable at times gives a caller that keeps polling:
\* again and again a poll of its group opens, gets partitions, reads from each
\* that has records, and commits; and a committed poll ends.
Polling(g) == \E q \in Polls : OpenPoll(q, g[2], g[1], "group")
Reading(g, p) == \E q \in Members(g) : Fetch(q, p)
Advancing(g) == \E q \in Members(g) : CommitOk(q)
Ending(q) == Answer(q) \/ AnswerLost(q)

FairSpec ==
  /\ Spec
  /\ \A g \in Groups : SF_vars(Polling(g)) /\ SF_vars(Rebalance(g)) /\ SF_vars(Advancing(g))
  /\ \A g \in Groups, p \in Partitions : SF_vars(Reading(g, p))
  /\ \A q \in Polls : WF_vars(Ending(q))

-----------------------------------------------------------------------------
\* Values are of their kinds, and
\* no poll holds more than max messages (the loop of consume).
TypeOK ==
  /\ log \in [Partitions -> Seq(Record)]
  /\ cursor \in [Groups -> [Partitions -> Nat]]
  /\ poll \in [Polls -> {Idle} \cup Poll]
  /\ handed \subseteq Groups \X Event
  /\ lost \subseteq Groups \X Event
  /\ \A q \in Polls : poll[q] # Idle => Len(poll[q].msgs) <= Limit

\* "A user only ever receives its own events": what any poll will answer was
\* published by the caller, whatever headers publishers sent (stampOwner and
\* the filter in consume).  The site's Authentication page denies it, "any valid
\* key sees the same thing" (docs.tsx:1091-1093); the code is with the property.
OwnEventsOnly ==
  \A q \in Polls : poll[q] # Idle =>
    \A n \in DOMAIN poll[q].msgs :
      LET e == poll[q].msgs[n] IN log[e[1]][e[2]].by = poll[q].owner

Own(g, p, i) == log[p][i].by = g[2]

\* The event was handed out in its group, is about to be, or went down with an
\* answer after its commit.
Accounted(g, e) ==
  \/ <<g, e>> \in handed \cup lost
  \/ \E q \in Polls : /\ poll[q] # Idle
                      /\ poll[q].pc = "answering"
                      /\ poll[q].group = g
                      /\ InBatch(q, e)

\* A cursor passes none of the caller's own events but those some poll took
\* for its answer, however polls of a group overlap, fail and lose partitions:
\* only what was collected is committed, and only other callers' events are
\* collected without being returned (consume).
NothingSkipped ==
  \A g \in Groups, p \in Partitions : \A i \in 1 .. cursor[g][p] :
    Own(g, p, i) => Accounted(g, <<p, i>>)

\* "Same key, same partition, ordered": when an event is handed out, all the
\* caller's earlier events of that partition have been dealt with.
HandedInOrder ==
  \A g \in Groups, p \in Partitions, i, j \in 1 .. MaxEvents :
    <<g, <<p, i>>>> \in handed /\ j < i /\ Own(g, p, j) => Accounted(g, <<p, j>>)

\* Callers that keep polling drain their events, however many of other callers
\* lie in front of them: those are committed past (consume).
Drained ==
  \A g \in Groups, p \in Partitions, i \in 1 .. MaxEvents :
    i <= Len(log[p]) /\ log[p][i].by = g[2] ~> <<g, <<p, i>>>> \in handed \cup lost
=============================================================================
