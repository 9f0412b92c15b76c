--------------------------- MODULE EventLogProofs ---------------------------
(***************************************************************************)
(* Proofs about EventLog: callers see their own events only, a cursor      *)
(* passes none of them unnoticed, and they are handed out in order.        *)
(*                                                                         *)
(* The argument for the last two is about one poll.  What lies below the   *)
(* position it reads from, or below what it has collected, is either in    *)
(* its batch or was accounted for before: the position starts at the       *)
(* cursor, which passes accounted events only, and moves one record at a   *)
(* time.  So the commit, which moves the cursor to what was collected,     *)
(* passes nothing else; and an event once accounted for stays so.          *)
(***************************************************************************)
EXTENDS EventLog, TLAPS

Dealt(g, p, m) == \A i \in 1 .. m : Own(g, p, i) => Accounted(g, <<p, i>>)

\* Owner headers name the publishers.
Stamped ==
  \A p \in Partitions : \A i \in DOMAIN log[p] :
    log[p][i].headers[OwnerHeader] = log[p][i].by

\* What every poll keeps of the log.
PollSound(q) ==
  /\ poll[q].group[2] = poll[q].owner
  /\ poll[q].pc = "answering" => poll[q].from = "group"
  /\ \A p \in Partitions : poll[q].upTo[p] <= Len(log[p]) /\ poll[q].pos[p] <= Len(log[p])
  /\ \A n \in DOMAIN poll[q].msgs :
       LET e == poll[q].msgs[n] IN
         e[2] <= poll[q].upTo[e[1]] /\ log[e[1]][e[2]].by = poll[q].owner

PollsSound == \A q \in Polls : poll[q] # Idle => PollSound(q)

\* What lies below a group poll's position or collection is in its batch, or
\* accounted for.
PollCovers(q) ==
  poll[q].pc = "polling" /\ poll[q].from = "group" =>
    \A p \in Partitions : \A i \in 1 .. Len(log[p]) :
      /\ i <= poll[q].pos[p] \/ i <= poll[q].upTo[p]
      /\ Own(poll[q].group, p, i)
      => InBatch(q, <<p, i>>) \/ Accounted(poll[q].group, <<p, i>>)

PollsCover == \A q \in Polls : poll[q] # Idle => PollCovers(q)

CursorsSound ==
  \A g \in Groups, p \in Partitions : cursor[g][p] <= Len(log[p]) /\ Dealt(g, p, cursor[g][p])

\* Before an event that was handed out or is about to be, all is dealt with.
OrderInv ==
  /\ \A g \in Groups, e \in Event :
       <<g, e>> \in handed => e[2] <= Len(log[e[1]]) /\ Dealt(g, e[1], e[2])
  /\ \A q \in Polls : poll[q] # Idle /\ poll[q].pc = "answering" =>
       \A n \in DOMAIN poll[q].msgs :
         Dealt(poll[q].group, poll[q].msgs[n][1], poll[q].msgs[n][2])

EventInv ==
  TypeOK /\ Stamped /\ PollsSound /\ PollsCover /\ CursorsSound /\ OrderInv

-----------------------------------------------------------------------------
\* Empty partitions, no polls.
LEMMA InitInv == Init => EventInv
<1> SUFFICES ASSUME Init PROVE EventInv
  OBVIOUS
<1> USE EventAssumption
<1>1. /\ \A p \in Partitions : log[p] = <<>> /\ Len(log[p]) = 0 /\ DOMAIN log[p] = {}
      /\ \A q \in Polls : poll[q] = Idle
      /\ handed = {}
      /\ \A g \in Groups, p \in Partitions : cursor[g][p] = 0
  BY DEF Init
<1>2. TypeOK
  <2>1. log \in [Partitions -> Seq(Record)]
    BY DEF Init
  <2> QED BY <1>1, <2>1 DEF Init, TypeOK
<1>3. Stamped /\ PollsSound /\ PollsCover
  BY <1>1 DEF Stamped, PollsSound, PollsCover
<1>4. CursorsSound
  BY <1>1 DEF CursorsSound, Dealt
<1>5. OrderInv
  BY <1>1 DEF OrderInv
<1> QED BY <1>2, <1>3, <1>4, <1>5 DEF EventInv

-----------------------------------------------------------------------------
\* A stamped header map names the stamper alone.
LEMMA Stamping ==
  ASSUME NEW o \in Callers, NEW s \in Supplied
  PROVE  StampOwner(s, o) \in Headers /\ StampOwner(s, o)[OwnerHeader] = o
<1>1. PICK names \in SUBSET {OwnerHeader} : s \in [names -> Callers]
  BY DEF Supplied
<1>2. DOMAIN s \cup {OwnerHeader} = {OwnerHeader}
  BY <1>1
<1> QED BY <1>1, <1>2 DEF StampOwner, Headers

\* What a published record is, and that the log keeps what it had.
LEMMA PublishFacts ==
  ASSUME TypeOK,
         NEW o \in Callers, NEW p0 \in Partitions, NEW s \in Supplied,
         Publish(o, p0, s)
  PROVE  /\ log' \in [Partitions -> Seq(Record)]
         /\ \A p \in Partitions : \A i \in DOMAIN log[p] :
              i \in DOMAIN log'[p] /\ log'[p][i] = log[p][i]
         /\ \A p \in Partitions : Len(log[p]) <= Len(log'[p])
         /\ \A p \in Partitions : \A i \in DOMAIN log'[p] :
              i \in DOMAIN log[p] \/ log'[p][i].headers[OwnerHeader] = log'[p][i].by
<1> DEFINE r == [headers |-> StampOwner(s, o), by |-> o]
<1>2. r \in Record
  BY Stamping, EventAssumption DEF Record
<1>3. r.headers[OwnerHeader] = r.by
  BY Stamping
<1>4. log' = [log EXCEPT ![p0] = Append(@, r)]
  BY DEF Publish
<1> HIDE DEF r
<1>5. \A p \in Partitions : log[p] \in Seq(Record)
  BY DEF TypeOK
<1>6. \A p \in Partitions \ {p0} : log'[p] = log[p]
  BY <1>4 DEF TypeOK
<1>7. log'[p0] = Append(log[p0], r)
  BY <1>4 DEF TypeOK
<1>8. /\ Len(log'[p0]) = Len(log[p0]) + 1
      /\ \A i \in 1 .. Len(log[p0]) : log'[p0][i] = log[p0][i]
      /\ log'[p0][Len(log[p0]) + 1] = r
      /\ log'[p0] \in Seq(Record)
  BY <1>2, <1>5, <1>7
<1>9. log' \in [Partitions -> Seq(Record)]
  BY <1>4, <1>5, <1>6, <1>8 DEF TypeOK
<1>10. \A p \in Partitions : DOMAIN log[p] = 1 .. Len(log[p]) /\ DOMAIN log'[p] = 1 .. Len(log'[p])
                             /\ Len(log[p]) \in Nat
  BY <1>5, <1>9
<1>11. \A p \in Partitions : /\ Len(log[p]) <= Len(log'[p])
                             /\ \A i \in DOMAIN log[p] : i \in DOMAIN log'[p] /\ log'[p][i] = log[p][i]
  BY <1>6, <1>8, <1>10
<1>12. \A p \in Partitions : \A i \in DOMAIN log'[p] :
         i \in DOMAIN log[p] \/ log'[p][i].headers[OwnerHeader] = log'[p][i].by
  BY <1>3, <1>6, <1>8, <1>10
<1> QED BY <1>9, <1>11, <1>12

\* The log only grows.
LEMMA LogGrows ==
  ASSUME TypeOK, [Next]_vars
  PROVE  \A p \in Partitions :
           /\ Len(log[p]) \in Nat /\ Len(log'[p]) \in Nat /\ Len(log[p]) <= Len(log'[p])
           /\ DOMAIN log[p] = 1 .. Len(log[p])
           /\ DOMAIN log'[p] = 1 .. Len(log'[p])
           /\ \A i \in 1 .. Len(log[p]) : log'[p][i] = log[p][i]
<1>1. \A p \in Partitions : log[p] \in Seq(Record)
  BY DEF TypeOK
<1>2. CASE \E o \in Callers, p0 \in Partitions, s \in Supplied :
             Publish(o, p0, s)
  <2>1. PICK o \in Callers, p0 \in Partitions, s \in Supplied :
          Publish(o, p0, s)
    BY <1>2
  <2>2. /\ log' \in [Partitions -> Seq(Record)]
        /\ \A p \in Partitions : Len(log[p]) <= Len(log'[p])
        /\ \A p \in Partitions : \A i \in DOMAIN log[p] : log'[p][i] = log[p][i]
    BY <2>1, PublishFacts
  <2>3. \A p \in Partitions : log'[p] \in Seq(Record)
    BY <2>2
  <2> QED BY <1>1, <2>2, <2>3
<1>3. CASE UNCHANGED log
  BY <1>1, <1>3
<1> QED
  BY <1>2, <1>3 DEF Next, vars, OpenPoll, Rebalance, Fetch, FetchFails, CommitOk,
                    CommitRefused, CommitLost, Answer, AnswerLost

\* A poll that is not the one that ends keeps its state; one that ends after
\* its commit leaves its batch in the histories.
LEMMA AccountedStays ==
  ASSUME TypeOK, PollsSound, [Next]_vars
  PROVE  \A g \in Groups, e \in Event : Accounted(g, e) => Accounted(g, e)'
<1> SUFFICES ASSUME NEW g \in Groups, NEW e \in Event, Accounted(g, e)
             PROVE  Accounted(g, e)'
  OBVIOUS
<1>1. handed \subseteq handed' /\ lost \subseteq lost'
  BY DEF Next, vars, Publish, OpenPoll, Rebalance, Fetch, FetchFails, CommitOk,
         CommitRefused, CommitLost, Answer, AnswerLost
<1>2. CASE <<g, e>> \in handed \cup lost
  BY <1>1, <1>2 DEF Accounted
<1>3. CASE \E q \in Polls : /\ poll[q] # Idle
                            /\ poll[q].pc = "answering"
                            /\ poll[q].group = g
                            /\ InBatch(q, e)
  <2>1. PICK q \in Polls : /\ poll[q] # Idle
                           /\ poll[q].pc = "answering"
                           /\ poll[q].group = g
                           /\ InBatch(q, e)
    BY <1>3
  <2>2. CASE poll'[q] = poll[q]
    BY <2>1, <2>2 DEF Accounted, InBatch
  <2>3. <<g, e>> \in Batch(q)
    BY <2>1 DEF InBatch, Batch
  <2>4. CASE Answer(q) \/ AnswerLost(q)
    BY <2>1, <2>3, <2>4 DEF Answer, AnswerLost, PollsSound, PollSound, Accounted
  <2>5. poll'[q] = poll[q] \/ Answer(q) \/ AnswerLost(q)
    <3>1. ASSUME NEW h \in Groups, Rebalance(h) PROVE poll'[q] = poll[q]
      BY <2>1, <3>1 DEF Rebalance, Members
    <3>2. ASSUME NEW r \in Polls, NEW p \in Partitions, Fetch(r, p) PROVE poll'[q] = poll[q]
      <4>1. r # q
        BY <2>1, <3>2 DEF Fetch, Readable
      <4> QED BY <3>2, <4>1 DEF Fetch, TypeOK
    <3>3. ASSUME NEW r \in Polls, NEW o \in Callers, NEW b \in Bases, NEW from \in Modes,
                 OpenPoll(r, o, b, from)
          PROVE  poll'[q] = poll[q]
      <4>1. r # q
        BY <2>1, <3>3 DEF OpenPoll
      <4> QED BY <3>3, <4>1 DEF OpenPoll, TypeOK
    <3>4. ASSUME NEW r \in Polls,
                 \/ FetchFails(r) \/ CommitOk(r) \/ CommitRefused(r) \/ CommitLost(r)
                 \/ (r # q /\ (Answer(r) \/ AnswerLost(r)))
          PROVE  poll'[q] = poll[q]
      <4>1. r # q
        BY <2>1, <3>4 DEF FetchFails, CommitOk, CommitRefused, CommitLost, Committing
      <4> QED BY <3>4, <4>1 DEF FetchFails, CommitOk, CommitRefused, CommitLost, Answer,
                                AnswerLost, TypeOK
    <3>5. CASE UNCHANGED poll
      BY <3>5
    <3> QED BY <3>1, <3>2, <3>3, <3>4, <3>5 DEF Next, vars, Publish
  <2> QED BY <2>2, <2>4, <2>5
<1> QED BY <1>2, <1>3 DEF Accounted

-----------------------------------------------------------------------------
\* What a fetch does to its poll and to no other.
LEMMA FetchFacts ==
  ASSUME TypeOK, NEW q \in Polls, NEW p \in Partitions, Fetch(q, p)
  PROVE  /\ poll[q] \in Poll /\ poll'[q] \in Poll
         /\ \A r \in Polls \ {q} : poll'[r] = poll[r]
         /\ poll[q].pc = "polling"
         /\ poll'[q].owner = poll[q].owner /\ poll'[q].group = poll[q].group
         /\ poll'[q].from = poll[q].from /\ poll'[q].pc = poll[q].pc
         /\ poll[q].pos[p] + 1 \in 1 .. Len(log[p])
         /\ poll'[q].pos[p] = poll[q].pos[p] + 1
         /\ poll'[q].upTo[p] = Larger(poll[q].upTo[p], poll[q].pos[p] + 1)
         /\ \A t \in Partitions \ {p} : /\ poll'[q].pos[t] = poll[q].pos[t]
                                        /\ poll'[q].upTo[t] = poll[q].upTo[t]
         /\ poll'[q].msgs =
              IF log[p][poll[q].pos[p] + 1].headers[OwnerHeader] = poll[q].owner
              THEN Append(poll[q].msgs, <<p, poll[q].pos[p] + 1>>)
              ELSE poll[q].msgs
         /\ Len(poll'[q].msgs) <= Limit
<1> USE EventAssumption
<1> DEFINE i == poll[q].pos[p] + 1
           own == log[p][i].headers[OwnerHeader] = poll[q].owner
<1>1. poll[q] \in Poll /\ poll[q].pc = "polling" /\ poll[q].pos[p] < Len(log[p])
      /\ Len(poll[q].msgs) < Limit
  BY DEF Fetch, Readable, TypeOK
<1>2. /\ poll[q].pos \in [Partitions -> Nat] /\ poll[q].upTo \in [Partitions -> Nat]
      /\ poll[q].msgs \in Seq(Event) /\ log[p] \in Seq(Record)
  BY <1>1 DEF Poll, TypeOK
<1>3. i \in 1 .. Len(log[p]) /\ <<p, i>> \in Event /\ Larger(poll[q].upTo[p], i) \in Nat
  BY <1>1, <1>2 DEF Event, Larger
<1>4. poll' = [poll EXCEPT ![q].pos[p] = i,
                           ![q].upTo[p] = Larger(@, i),
                           ![q].msgs = IF own THEN Append(@, <<p, i>>) ELSE @]
  BY DEF Fetch
<1> HIDE DEF i, own
<1>5. /\ \A r \in Polls \ {q} : poll'[r] = poll[r]
      /\ poll'[q] = [poll[q] EXCEPT !.pos[p] = i,
                                    !.upTo[p] = Larger(poll[q].upTo[p], i),
                                    !.msgs = IF own THEN Append(poll[q].msgs, <<p, i>>)
                                                    ELSE poll[q].msgs]
  BY <1>4 DEF TypeOK
<1>6. /\ poll'[q].owner = poll[q].owner /\ poll'[q].group = poll[q].group
      /\ poll'[q].from = poll[q].from /\ poll'[q].pc = poll[q].pc
      /\ poll'[q].pos = [poll[q].pos EXCEPT ![p] = i]
      /\ poll'[q].upTo = [poll[q].upTo EXCEPT ![p] = Larger(poll[q].upTo[p], i)]
      /\ poll'[q].msgs = IF own THEN Append(poll[q].msgs, <<p, i>>) ELSE poll[q].msgs
  BY <1>1, <1>2, <1>5 DEF Poll
<1>7. poll'[q].msgs \in Seq(Event) /\ Len(poll'[q].msgs) <= Limit
  BY <1>1, <1>2, <1>3, <1>6
<1>8. poll'[q].pos \in [Partitions -> Nat] /\ poll'[q].upTo \in [Partitions -> Nat]
  BY <1>2, <1>3, <1>6
<1>9. poll'[q] \in Poll
  BY <1>1, <1>5, <1>6, <1>7, <1>8 DEF Poll
<1> QED BY <1>1, <1>2, <1>3, <1>5, <1>6, <1>7, <1>9 DEF i, own

\* A new poll.
LEMMA OpenFacts ==
  ASSUME TypeOK, NEW q \in Polls, NEW o \in Callers, NEW b \in Bases, NEW from \in Modes,
         OpenPoll(q, o, b, from)
  PROVE  /\ poll'[q] \in Poll
         /\ \A r \in Polls \ {q} : poll'[r] = poll[r]
         /\ poll'[q].owner = o /\ poll'[q].group = <<b, o>> /\ poll'[q].from = from
         /\ poll'[q].pc = "polling" /\ poll'[q].msgs = <<>>
         /\ \A p \in Partitions : /\ poll'[q].upTo[p] = 0
                                  /\ from = "group" => poll'[q].pos[p] = 0
                                  /\ poll'[q].pos[p] <= Len(log[p])
<1>1. PICK new : /\ poll' = [poll EXCEPT ![q] = new] /\ new \in Poll
                 /\ new.owner = o /\ new.group = <<b, o>> /\ new.from = from
                 /\ new.pc = "polling" /\ new.msgs = <<>>
                 /\ \A p \in Partitions : /\ new.upTo[p] = 0
                                          /\ from = "group" => new.pos[p] = 0
                                          /\ new.pos[p] <= Len(log[p])
  <2>1. PICK atEnd \in {FALSE, from = "latest"} :
          poll' = [poll EXCEPT ![q] =
            [owner |-> o, group |-> ScopedGroup(b, o), from |-> from, pc |-> "polling",
             parts |-> IF from = "group" THEN {} ELSE {0},
             pos |-> [p \in Partitions |-> IF atEnd THEN Len(log[p]) ELSE 0],
             upTo |-> [p \in Partitions |-> 0], msgs |-> <<>>]]
    BY DEF OpenPoll
  <2>2. atEnd \in BOOLEAN /\ (from = "group" => ~atEnd)
    BY <2>1
  <2> DEFINE pos == [p \in Partitions |-> IF atEnd THEN Len(log[p]) ELSE 0]
             new == [owner |-> o, group |-> ScopedGroup(b, o), from |-> from, pc |-> "polling",
                     parts |-> IF from = "group" THEN {} ELSE {0}, pos |-> pos,
                     upTo |-> [p \in Partitions |-> 0], msgs |-> <<>>]
  <2>3. \A p \in Partitions : Len(log[p]) \in Nat
    BY DEF TypeOK
  <2>4. /\ pos \in [Partitions -> Nat]
        /\ \A p \in Partitions : /\ from = "group" => pos[p] = 0
                                 /\ pos[p] <= Len(log[p])
    BY <2>2, <2>3
  <2> HIDE DEF pos
  <2>5. /\ new.parts \in SUBSET Partitions
        /\ new.upTo \in [Partitions -> Nat]
        /\ new.msgs \in Seq(Event)
        /\ new.group \in Groups
    BY EventAssumption DEF Partitions, Groups, ScopedGroup
  <2>6. new \in Poll
    BY <2>4, <2>5 DEF Poll
  <2>7. /\ new.owner = o /\ new.group = <<b, o>> /\ new.from = from
        /\ new.pc = "polling" /\ new.msgs = <<>> /\ new.pos = pos
        /\ \A p \in Partitions : new.upTo[p] = 0
    BY DEF ScopedGroup
  <2>8. poll' = [poll EXCEPT ![q] = new]
    BY <2>1 DEF pos
  <2> HIDE DEF new
  <2> QED BY <2>4, <2>6, <2>7, <2>8
<1> QED BY <1>1 DEF TypeOK

\* A rebalance moves the members of one group to its cursor.
LEMMA RebalanceFacts ==
  ASSUME TypeOK, NEW g \in Groups, Rebalance(g)
  PROVE  /\ poll' \in [Polls -> {Idle} \cup Poll]
         /\ \A q \in Polls \ Members(g) : poll'[q] = poll[q]
         /\ \A q \in Members(g) :
              /\ poll[q] \in Poll /\ poll'[q] \in Poll
              /\ poll'[q].pos = cursor[g]
              /\ poll'[q].owner = poll[q].owner /\ poll'[q].group = poll[q].group
              /\ poll'[q].from = poll[q].from /\ poll'[q].pc = poll[q].pc
              /\ poll'[q].upTo = poll[q].upTo /\ poll'[q].msgs = poll[q].msgs
<1>1. PICK share \in [Partitions -> Members(g)] :
        poll' = [q \in Polls |->
          IF q \in Members(g)
          THEN [poll[q] EXCEPT !.parts = {p \in Partitions : share[p] = q}, !.pos = cursor[g]]
          ELSE poll[q]]
  BY DEF Rebalance
<1>2. Members(g) \subseteq Polls /\ \A q \in Members(g) : poll[q] \in Poll
  BY DEF Members, TypeOK
<1>3. ASSUME NEW q \in Members(g)
      PROVE  /\ poll'[q] = [poll[q] EXCEPT !.parts = {p \in Partitions : share[p] = q},
                                           !.pos = cursor[g]]
             /\ poll'[q] \in Poll
  <2>1. poll'[q] = [poll[q] EXCEPT !.parts = {p \in Partitions : share[p] = q},
                                   !.pos = cursor[g]]
    BY <1>1, <1>2
  <2>2. {p \in Partitions : share[p] = q} \in SUBSET Partitions
    OBVIOUS
  <2>3. cursor[g] \in [Partitions -> Nat]
    BY DEF TypeOK
  <2> HIDE DEF Members
  <2>4. poll'[q] \in Poll
    BY <1>2, <2>1, <2>2, <2>3 DEF Poll
  <2> QED BY <2>1, <2>4
<1>4. \A q \in Polls \ Members(g) : poll'[q] = poll[q]
  BY <1>1
<1>5. poll' \in [Polls -> {Idle} \cup Poll]
  BY <1>1, <1>3, <1>4 DEF TypeOK
<1>6. ASSUME NEW q \in Members(g)
      PROVE  /\ poll'[q].pos = cursor[g]
             /\ poll'[q].owner = poll[q].owner /\ poll'[q].group = poll[q].group
             /\ poll'[q].from = poll[q].from /\ poll'[q].pc = poll[q].pc
             /\ poll'[q].upTo = poll[q].upTo /\ poll'[q].msgs = poll[q].msgs
  <2>1. PICK parts : poll'[q] = [poll[q] EXCEPT !.parts = parts, !.pos = cursor[g]]
    BY <1>3
  <2>2. poll[q] \in Poll
    BY <1>2
  <2> QED BY <2>1, <2>2 DEF Poll
<1> QED BY <1>2, <1>3, <1>4, <1>5, <1>6

\* A commit that takes effect moves the cursor of the poll's group, where the
\* poll has collected anything, to what it has collected.
LEMMA CommitFacts ==
  ASSUME TypeOK, NEW q \in Polls, Committing(q), cursor' = Committed(q)
  PROVE  /\ cursor' \in [Groups -> [Partitions -> Nat]]
         /\ \A g \in Groups, p \in Partitions :
              cursor'[g][p] = IF g = poll[q].group /\ poll[q].upTo[p] > 0
                              THEN poll[q].upTo[p] ELSE cursor[g][p]
<1> DEFINE h == poll[q].group
           next == [p \in Partitions |-> IF poll[q].upTo[p] > 0 THEN poll[q].upTo[p]
                                         ELSE cursor[h][p]]
<1>1. poll[q] \in Poll
  BY DEF Committing, TypeOK
<1>2. h \in Groups /\ next \in [Partitions -> Nat]
  BY <1>1 DEF Poll, TypeOK
<1>3. cursor' = [cursor EXCEPT ![h] = next]
  BY DEF Committed
<1>4. cursor'[h] = next /\ \A g \in Groups \ {h} : cursor'[g] = cursor[g]
  BY <1>2, <1>3 DEF TypeOK
<1>5. cursor' \in [Groups -> [Partitions -> Nat]]
  BY <1>2, <1>3 DEF TypeOK
<1> QED BY <1>4, <1>5

\* A batch is a set of events of the poll's group.
LEMMA BatchFacts ==
  ASSUME TypeOK, NEW q \in Polls, poll[q] # Idle
  PROVE  /\ poll[q] \in Poll
         /\ Batch(q) \subseteq Groups \X Event
         /\ \A n \in DOMAIN poll[q].msgs : poll[q].msgs[n] \in Event
<1>1. poll[q] \in Poll
  BY DEF TypeOK
<1>2. poll[q].msgs \in Seq(Event) /\ poll[q].group \in Groups
  BY <1>1 DEF Poll
<1> QED BY <1>1, <1>2 DEF Batch

-----------------------------------------------------------------------------
\* Every step keeps each variable in its set.
LEMMA TypeStays == TypeOK /\ [Next]_vars => TypeOK'
<1> SUFFICES ASSUME TypeOK, [Next]_vars PROVE TypeOK'
  OBVIOUS
<1> USE EventAssumption
<1>1. CASE \E o \in Callers, p0 \in Partitions, s \in Supplied :
             Publish(o, p0, s)
  <2>1. log' \in [Partitions -> Seq(Record)]
    BY <1>1, PublishFacts
  <2> QED BY <1>1, <2>1 DEF Publish, TypeOK
<1>2. ASSUME NEW q \in Polls, NEW o \in Callers, NEW b \in Bases, NEW from \in Modes,
             OpenPoll(q, o, b, from)
      PROVE  TypeOK'
  <2>1. poll' \in [Polls -> {Idle} \cup Poll]
    <3>1. PICK new : poll' = [poll EXCEPT ![q] = new]
      BY <1>2 DEF OpenPoll
    <3> QED BY <1>2, <3>1, OpenFacts DEF TypeOK
  <2>2. Len(poll'[q].msgs) <= Limit
    BY <1>2, OpenFacts
  <2>3. \A r \in Polls \ {q} : poll'[r] # Idle => Len(poll'[r].msgs) <= Limit
    BY <1>2, OpenFacts DEF TypeOK
  <2> QED BY <1>2, <2>1, <2>2, <2>3 DEF OpenPoll, TypeOK
<1>3. ASSUME NEW g \in Groups, Rebalance(g) PROVE TypeOK'
  <2>1. \A r \in Polls : poll'[r] # Idle => Len(poll'[r].msgs) <= Limit
    BY <1>3, RebalanceFacts DEF TypeOK, Members
  <2> QED BY <1>3, <2>1, RebalanceFacts DEF Rebalance, TypeOK
<1>4. ASSUME NEW q \in Polls, NEW p \in Partitions, Fetch(q, p) PROVE TypeOK'
  <2>1. poll' \in [Polls -> {Idle} \cup Poll]
    BY <1>4, FetchFacts DEF Fetch, TypeOK
  <2>2. \A r \in Polls : poll'[r] # Idle => Len(poll'[r].msgs) <= Limit
    BY <1>4, FetchFacts DEF TypeOK
  <2> QED BY <1>4, <2>1, <2>2 DEF Fetch, TypeOK
<1>5. ASSUME NEW q \in Polls, FetchFails(q) \/ CommitRefused(q) PROVE TypeOK'
  BY <1>5 DEF FetchFails, CommitRefused, TypeOK
<1>6. ASSUME NEW q \in Polls, CommitOk(q) PROVE TypeOK'
  <2>1. cursor' \in [Groups -> [Partitions -> Nat]]
    BY <1>6, CommitFacts DEF CommitOk
  <2>2. poll[q] \in Poll
    BY <1>6 DEF CommitOk, Committing, TypeOK
  <2>3. /\ poll'[q] = [poll[q] EXCEPT !.pc = "answering"]
        /\ poll'[q].msgs = poll[q].msgs
        /\ \A r \in Polls \ {q} : poll'[r] = poll[r]
        /\ poll' \in [Polls -> {Idle} \cup Poll]
    BY <1>6, <2>2 DEF CommitOk, TypeOK, Poll
  <2>4. \A r \in Polls : poll'[r] # Idle => Len(poll'[r].msgs) <= Limit
    BY <1>6, <2>3 DEF CommitOk, Committing, TypeOK
  <2> QED BY <1>6, <2>1, <2>3, <2>4 DEF CommitOk, TypeOK
<1>7. ASSUME NEW q \in Polls, CommitLost(q) PROVE TypeOK'
  <2>1. cursor' \in [Groups -> [Partitions -> Nat]]
    BY <1>7, CommitFacts DEF CommitLost
  <2>2. Batch(q) \subseteq Groups \X Event
    BY <1>7, BatchFacts DEF CommitLost, Committing
  <2> QED BY <1>7, <2>1, <2>2 DEF CommitLost, TypeOK
<1>8. ASSUME NEW q \in Polls, Answer(q) \/ AnswerLost(q) PROVE TypeOK'
  <2>1. Batch(q) \subseteq Groups \X Event
    BY <1>8, BatchFacts DEF Answer, AnswerLost
  <2>2. handed' \subseteq handed \cup Batch(q) /\ lost' \subseteq lost \cup Batch(q)
    BY <1>8 DEF Answer, AnswerLost
  <2> QED BY <1>8, <2>1, <2>2 DEF Answer, AnswerLost, TypeOK
<1>9. CASE UNCHANGED vars
  BY <1>9 DEF vars, TypeOK
<1> QED BY <1>1, <1>2, <1>3, <1>4, <1>5, <1>6, <1>7, <1>8, <1>9 DEF Next

\* A record is stamped with its caller when it is produced, and never changes.
LEMMA StampedStays == TypeOK /\ Stamped /\ [Next]_vars => Stamped'
<1> SUFFICES ASSUME TypeOK, Stamped, [Next]_vars PROVE Stamped'
  OBVIOUS
<1>1. CASE \E o \in Callers, p0 \in Partitions, s \in Supplied :
             Publish(o, p0, s)
  BY <1>1, PublishFacts DEF Stamped
<1>2. CASE UNCHANGED log
  BY <1>2 DEF Stamped
<1> QED
  BY <1>1, <1>2 DEF Next, vars, OpenPoll, Rebalance, Fetch, FetchFails, CommitOk,
                    CommitRefused, CommitLost, Answer, AnswerLost

\* A poll that a step leaves alone stays sound and keeps its cover.
LEMMA PollKept ==
  ASSUME TypeOK, PollsSound, [Next]_vars,
         NEW q \in Polls, poll[q] # Idle, poll'[q] = poll[q]
  PROVE  /\ PollSound(q)'
         /\ PollCovers(q) => PollCovers(q)'
<1>1. /\ poll[q] \in Poll /\ poll[q].msgs \in Seq(Event) /\ PollSound(q)
      /\ poll[q].pos \in [Partitions -> Nat] /\ poll[q].upTo \in [Partitions -> Nat]
      /\ poll[q].group \in Groups
  BY DEF TypeOK, PollsSound, Poll
<1>2. \A n \in DOMAIN poll[q].msgs : poll[q].msgs[n] \in Event
  BY <1>1
<1>3. PollSound(q)'
  <2>1. \A p \in Partitions : poll[q].upTo[p] <= Len(log'[p]) /\ poll[q].pos[p] <= Len(log'[p])
    BY <1>1, LogGrows DEF PollSound
  <2>2. ASSUME NEW n \in DOMAIN poll[q].msgs
        PROVE  LET e == poll[q].msgs[n] IN
                 e[2] <= poll[q].upTo[e[1]] /\ log'[e[1]][e[2]].by = poll[q].owner
    <3>1. PICK p \in Partitions, i \in Nat \ {0} : poll[q].msgs[n] = <<p, i>>
      BY <1>2 DEF Event
    <3>2. i <= poll[q].upTo[p] /\ poll[q].upTo[p] <= Len(log[p]) /\ poll[q].upTo[p] \in Nat
          /\ log[p][i].by = poll[q].owner
      BY <1>1, <3>1 DEF PollSound
    <3>3. i \in 1 .. Len(log[p])
      BY <3>2, LogGrows
    <3> QED BY <3>1, <3>2, <3>3, LogGrows
  <2> QED BY <1>1, <2>1, <2>2 DEF PollSound
<1>4. ASSUME PollCovers(q) PROVE PollCovers(q)'
  <2> SUFFICES ASSUME poll[q].pc = "polling", poll[q].from = "group",
                      NEW p \in Partitions, NEW i \in 1 .. Len(log'[p]),
                      i <= poll[q].pos[p] \/ i <= poll[q].upTo[p],
                      Own(poll[q].group, p, i)'
               PROVE  InBatch(q, <<p, i>>) \/ Accounted(poll[q].group, <<p, i>>)'
    BY DEF PollCovers, InBatch
  <2>1. i \in 1 .. Len(log[p])
    BY <1>1, LogGrows DEF PollSound
  <2>2. Own(poll[q].group, p, i)
    BY <2>1, LogGrows DEF Own
  <2>3. <<p, i>> \in Event
    BY <2>1, LogGrows DEF Event
  <2>4. InBatch(q, <<p, i>>) \/ Accounted(poll[q].group, <<p, i>>)
    BY <1>4, <2>1, <2>2 DEF PollCovers
  <2> QED BY <1>1, <2>3, <2>4, AccountedStays
<1> QED BY <1>3, <1>4

\* What was dealt with stays dealt with.
LEMMA DealtStays ==
  ASSUME TypeOK, PollsSound, [Next]_vars,
         NEW g \in Groups, NEW p \in Partitions, NEW m \in Nat, m <= Len(log[p]), Dealt(g, p, m)
  PROVE  Dealt(g, p, m)'
<1> SUFFICES ASSUME NEW i \in 1 .. m, Own(g, p, i)' PROVE Accounted(g, <<p, i>>)'
  BY DEF Dealt
<1>1. i \in 1 .. Len(log[p]) /\ <<p, i>> \in Event
  BY LogGrows DEF Event
<1>2. Own(g, p, i)
  BY <1>1, LogGrows DEF Own
<1> QED BY <1>1, <1>2, AccountedStays DEF Dealt

\* One turn of the loop keeps its poll sound and covered: the only record it
\* passes is the one it fetched, which goes into the batch if it is the owner's.
LEMMA FetchKeepsPoll ==
  ASSUME EventInv, NEW q \in Polls, NEW p \in Partitions, Fetch(q, p)
  PROVE  PollSound(q)' /\ PollCovers(q)'
<1>1. /\ TypeOK /\ poll[q] # Idle /\ PollSound(q) /\ PollCovers(q) /\ [Next]_vars
      /\ UNCHANGED <<log, handed, lost>>
  BY DEF EventInv, PollsSound, PollsCover, Fetch, Readable, Next
<1>2. /\ poll[q] \in Poll /\ poll[q].pos \in [Partitions -> Nat]
      /\ poll[q].upTo \in [Partitions -> Nat] /\ poll[q].msgs \in Seq(Event)
      /\ poll[q].group \in Groups
      /\ poll'[q] \in Poll /\ poll'[q].msgs \in Seq(Event)
  BY <1>1, FetchFacts DEF Poll
<1>i. PICK i \in Nat : i = poll[q].pos[p] + 1
  BY <1>2
<1>g. PICK g \in Groups : g = poll[q].group
  BY <1>2
<1>3. /\ i \in 1 .. Len(log[p]) /\ Len(log[p]) \in Nat
      /\ poll'[q].upTo[p] \in Nat
      /\ poll'[q].upTo[p] <= Len(log[p]) /\ i <= poll'[q].upTo[p]
      /\ poll[q].upTo[p] <= poll'[q].upTo[p]
      /\ poll'[q].upTo[p] = i \/ poll'[q].upTo[p] = poll[q].upTo[p]
  <2>1. i \in 1 .. Len(log[p]) /\ poll'[q].upTo[p] = Larger(poll[q].upTo[p], i)
    BY <1>1, <1>i, FetchFacts
  <2>2. poll[q].upTo[p] \in Nat /\ poll[q].upTo[p] <= Len(log[p]) /\ Len(log[p]) \in Nat
    BY <1>1, <1>2, LogGrows DEF PollSound
  <2> QED BY <2>1, <2>2 DEF Larger
<1>4. /\ poll'[q].owner = poll[q].owner /\ poll'[q].group = poll[q].group
      /\ poll'[q].from = poll[q].from /\ poll'[q].pc = poll[q].pc /\ poll[q].pc = "polling"
      /\ poll'[q].pos[p] = i
      /\ \A t \in Partitions \ {p} : /\ poll'[q].pos[t] = poll[q].pos[t]
                                     /\ poll'[q].upTo[t] = poll[q].upTo[t]
      /\ poll'[q].msgs = IF log[p][i].headers[OwnerHeader] = poll[q].owner
                         THEN Append(poll[q].msgs, <<p, i>>) ELSE poll[q].msgs
  BY <1>1, <1>i, FetchFacts
<1>5. log[p][i].headers[OwnerHeader] = log[p][i].by
  BY <1>1, <1>3, LogGrows DEF EventInv, Stamped
<1>6. \A n \in DOMAIN poll[q].msgs :
        n \in DOMAIN poll'[q].msgs /\ poll'[q].msgs[n] = poll[q].msgs[n]
  BY <1>2, <1>4
<1>7. \A n \in DOMAIN poll'[q].msgs :
        \/ n \in DOMAIN poll[q].msgs /\ poll'[q].msgs[n] = poll[q].msgs[n]
        \/ poll'[q].msgs[n] = <<p, i>> /\ log[p][i].by = poll[q].owner
  BY <1>2, <1>4, <1>5
<1>8. log[p][i].by = poll[q].owner => InBatch(q, <<p, i>>)'
  <2>1. SUFFICES ASSUME log[p][i].by = poll[q].owner PROVE InBatch(q, <<p, i>>)'
    OBVIOUS
  <2>2. poll'[q].msgs = Append(poll[q].msgs, <<p, i>>)
    BY <1>4, <1>5, <2>1
  <2>3. /\ Len(poll[q].msgs) + 1 \in DOMAIN poll'[q].msgs
        /\ poll'[q].msgs[Len(poll[q].msgs) + 1] = <<p, i>>
    BY <1>2, <2>2
  <2> QED BY <2>3 DEF InBatch
<1>9. PollSound(q)'
  <2>1. \A t \in Partitions : poll'[q].upTo[t] <= Len(log[t]) /\ poll'[q].pos[t] <= Len(log[t])
    BY <1>1, <1>3, <1>4 DEF PollSound
  <2>2. ASSUME NEW n \in DOMAIN poll'[q].msgs
        PROVE  LET e == poll'[q].msgs[n] IN
                 e[2] <= poll'[q].upTo[e[1]] /\ log[e[1]][e[2]].by = poll[q].owner
    <3>1. CASE n \in DOMAIN poll[q].msgs /\ poll'[q].msgs[n] = poll[q].msgs[n]
      <4>1. PICK t \in Partitions, j \in Nat \ {0} : poll[q].msgs[n] = <<t, j>>
        <5>1. poll[q].msgs[n] \in Event
          BY <1>2, <3>1
        <5> QED BY <5>1 DEF Event
      <4>2. j <= poll[q].upTo[t] /\ log[t][j].by = poll[q].owner
        BY <1>1, <3>1, <4>1 DEF PollSound
      <4>3. poll[q].upTo[t] <= poll'[q].upTo[t] /\ poll[q].upTo[t] \in Nat
            /\ poll'[q].upTo[t] \in Nat
        <5>1. poll[q].upTo[t] \in Nat
          BY <1>2
        <5>2. CASE t = p
          BY <1>3, <5>1, <5>2
        <5>3. CASE t # p
          BY <1>4, <5>1, <5>3
        <5> QED BY <5>2, <5>3
      <4> QED BY <3>1, <4>1, <4>2, <4>3
    <3>2. CASE poll'[q].msgs[n] = <<p, i>> /\ log[p][i].by = poll[q].owner
      BY <1>3, <3>2
    <3> QED BY <1>7, <3>1, <3>2
  <2> QED BY <1>1, <1>4, <2>1, <2>2 DEF PollSound
<1>10. PollCovers(q)'
  <2> SUFFICES ASSUME poll[q].from = "group",
                      NEW t \in Partitions, NEW j \in 1 .. Len(log[t]),
                      j <= poll'[q].pos[t] \/ j <= poll'[q].upTo[t],
                      Own(g, t, j)
               PROVE  InBatch(q, <<t, j>>)' \/ Accounted(g, <<t, j>>)'
    BY <1>1, <1>4, <1>g DEF PollCovers, Own
  <2>1. CASE t = p /\ j = i
    <3>1. log[p][i].by = poll[q].owner
      BY <1>1, <1>g, <2>1 DEF Own, PollSound
    <3> QED BY <1>8, <2>1, <3>1
  <2>2. CASE ~ (t = p /\ j = i)
    <3>1. j <= poll[q].pos[t] \/ j <= poll[q].upTo[t]
      <4>1. CASE t # p
        BY <1>4, <4>1
      <4>2. CASE t = p
        <5>1. j # i /\ (j <= i \/ j <= poll[q].upTo[p])
          BY <1>3, <1>4, <2>2, <4>2
        <5> QED BY <1>2, <1>i, <4>2, <5>1
      <4> QED BY <4>1, <4>2
    <3>2. InBatch(q, <<t, j>>) \/ Accounted(g, <<t, j>>)
      BY <1>1, <1>4, <1>g, <3>1 DEF PollCovers
    <3>3. <<t, j>> \in Event
      BY <1>1, LogGrows DEF Event
    <3>4. InBatch(q, <<t, j>>) => InBatch(q, <<t, j>>)'
      BY <1>6 DEF InBatch
    <3>5. Accounted(g, <<t, j>>) => Accounted(g, <<t, j>>)'
      BY <1>1, <3>3, AccountedStays DEF EventInv
    <3> QED BY <3>2, <3>4, <3>5
  <2> QED BY <2>1, <2>2
<1> QED BY <1>9, <1>10

\* Reading on from the cursor, a member passes what the cursor has passed.
LEMMA RebalanceKeepsPoll ==
  ASSUME EventInv, NEW g \in Groups, Rebalance(g), NEW q \in Members(g)
  PROVE  PollSound(q)' /\ PollCovers(q)'
<1>1. /\ TypeOK /\ q \in Polls /\ poll[q] # Idle /\ poll[q].group = g
      /\ poll[q].pc = "polling" /\ poll[q].from = "group"
      /\ PollSound(q) /\ PollCovers(q) /\ [Next]_vars
      /\ UNCHANGED <<log, cursor, handed, lost>>
  BY DEF EventInv, PollsSound, PollsCover, Rebalance, Next, Members
<1>2. /\ poll'[q].pos = cursor[g]
      /\ poll'[q].owner = poll[q].owner /\ poll'[q].group = g
      /\ poll'[q].from = "group" /\ poll'[q].pc = "polling"
      /\ poll'[q].upTo = poll[q].upTo /\ poll'[q].msgs = poll[q].msgs
  BY <1>1, RebalanceFacts
<1>3. \A p \in Partitions : cursor[g][p] <= Len(log[p]) /\ Dealt(g, p, cursor[g][p])
                            /\ cursor[g][p] \in Nat
  BY <1>1 DEF EventInv, CursorsSound, TypeOK
<1>4. PollSound(q)'
  BY <1>1, <1>2, <1>3 DEF PollSound
<1>5. PollCovers(q)'
  <2> SUFFICES ASSUME NEW p \in Partitions, NEW i \in 1 .. Len(log[p]),
                      i <= cursor[g][p] \/ i <= poll[q].upTo[p], Own(g, p, i)
               PROVE  InBatch(q, <<p, i>>)' \/ Accounted(g, <<p, i>>)'
    BY <1>1, <1>2 DEF PollCovers, Own
  <2>1. InBatch(q, <<p, i>>) \/ Accounted(g, <<p, i>>)
    <3>1. CASE i <= cursor[g][p]
      BY <1>3, <3>1 DEF Dealt
    <3>2. CASE i <= poll[q].upTo[p]
      BY <1>1, <3>2 DEF PollCovers
    <3> QED BY <3>1, <3>2
  <2>2. <<p, i>> \in Event
    BY <1>1, LogGrows DEF Event
  <2>3. InBatch(q, <<p, i>>) => InBatch(q, <<p, i>>)'
    BY <1>2 DEF InBatch
  <2> QED BY <1>1, <2>1, <2>2, <2>3, AccountedStays DEF EventInv
<1> QED BY <1>4, <1>5

\* Every step keeps every poll sound and covered.
LEMMA PollsStay == EventInv /\ [Next]_vars => PollsSound' /\ PollsCover'
<1> SUFFICES ASSUME EventInv, [Next]_vars, NEW q \in Polls, poll'[q] # Idle
             PROVE  PollSound(q)' /\ PollCovers(q)'
  BY DEF PollsSound, PollsCover
<1>1. TypeOK /\ PollsSound /\ PollsCover
  BY DEF EventInv
<1>2. CASE poll'[q] = poll[q]
  BY <1>1, <1>2, PollKept DEF PollsCover
<1>3. ASSUME NEW r \in Polls, NEW o \in Callers, NEW b \in Bases, NEW from \in Modes,
             OpenPoll(r, o, b, from)
      PROVE  PollSound(q)' /\ PollCovers(q)'
  <2>1. CASE r = q
    <3>1. /\ poll'[q].owner = o /\ poll'[q].group = <<b, o>> /\ poll'[q].from = from
          /\ poll'[q].pc = "polling" /\ poll'[q].msgs = <<>>
          /\ \A p \in Partitions : /\ poll'[q].upTo[p] = 0
                                   /\ from = "group" => poll'[q].pos[p] = 0
      BY <1>1, <1>3, <2>1, OpenFacts
    <3>6. log' = log
      BY <1>3 DEF OpenPoll
    <3>2. \A p \in Partitions : Len(log[p]) \in Nat
      BY <1>1, LogGrows
    <3>3. \A p \in Partitions : poll'[q].pos[p] <= Len(log[p])
      BY <1>1, <1>3, <2>1, OpenFacts
    <3>4. PollSound(q)'
      BY <3>1, <3>2, <3>3, <3>6 DEF PollSound
    <3>5. PollCovers(q)'
      BY <3>1, <3>2, <3>6 DEF PollCovers
    <3> QED BY <3>4, <3>5
  <2>2. CASE r # q
    BY <1>1, <1>2, <1>3, <2>2, OpenFacts
  <2> QED BY <2>1, <2>2
<1>4. ASSUME NEW g \in Groups, Rebalance(g)
      PROVE  PollSound(q)' /\ PollCovers(q)'
  BY <1>1, <1>2, <1>4, RebalanceFacts, RebalanceKeepsPoll
<1>5. ASSUME NEW r \in Polls, NEW p \in Partitions, Fetch(r, p)
      PROVE  PollSound(q)' /\ PollCovers(q)'
  BY <1>1, <1>2, <1>5, FetchFacts, FetchKeepsPoll
<1>6. ASSUME NEW r \in Polls, CommitOk(r)
      PROVE  PollSound(q)' /\ PollCovers(q)'
  <2>1. CASE r = q
    <3>1. /\ poll[q] \in Poll /\ poll[q] # Idle /\ poll[q].from = "group"
          /\ poll' = [poll EXCEPT ![q].pc = "answering"] /\ log' = log
      BY <1>1, <1>6, <2>1 DEF CommitOk, Committing, TypeOK
    <3>2. /\ poll'[q].owner = poll[q].owner /\ poll'[q].group = poll[q].group
          /\ poll'[q].from = poll[q].from /\ poll'[q].pc = "answering"
          /\ poll'[q].pos = poll[q].pos /\ poll'[q].upTo = poll[q].upTo
          /\ poll'[q].msgs = poll[q].msgs
      BY <1>1, <3>1 DEF Poll, TypeOK
    <3>3. PollSound(q)
      BY <1>1, <3>1 DEF PollsSound
    <3> QED BY <3>1, <3>2, <3>3 DEF PollSound, PollCovers
  <2>2. CASE r # q
    BY <1>1, <1>2, <1>6, <2>2 DEF CommitOk, TypeOK
  <2> QED BY <2>1, <2>2
<1>7. ASSUME NEW r \in Polls,
             FetchFails(r) \/ CommitRefused(r) \/ CommitLost(r) \/ Answer(r) \/ AnswerLost(r)
      PROVE  PollSound(q)' /\ PollCovers(q)'
  <2>1. poll' = [poll EXCEPT ![r] = Idle]
    BY <1>7 DEF FetchFails, CommitRefused, CommitLost, Answer, AnswerLost
  <2>2. poll'[q] = poll[q]
    BY <1>1, <2>1 DEF TypeOK
  <2> QED BY <1>2, <2>2
<1>8. CASE UNCHANGED poll
  BY <1>2, <1>8
<1> QED BY <1>3, <1>4, <1>5, <1>6, <1>7, <1>8 DEF Next, vars, Publish

-----------------------------------------------------------------------------
\* When a commit takes effect, everything the poll collected is dealt with:
\* its own events are in the answer it is about to give, or lost with it.
LEMMA CommitDeals ==
  ASSUME EventInv, NEW q \in Polls, CommitOk(q) \/ CommitLost(q), NEW p \in Partitions
  PROVE  poll[q].group \in Groups /\ \A g \in Groups, m \in Nat :
               g = poll[q].group /\ m = poll[q].upTo[p] => Dealt(g, p, m)'
<1>1. /\ TypeOK /\ PollSound(q) /\ PollCovers(q) /\ [Next]_vars /\ log' = log
      /\ poll[q] # Idle /\ poll[q].pc = "polling" /\ poll[q].from = "group"
  BY DEF EventInv, PollsSound, PollsCover, CommitOk, CommitLost, Committing, Next
<1>2. /\ poll[q] \in Poll /\ poll[q].group \in Groups /\ poll[q].upTo \in [Partitions -> Nat]
  BY <1>1 DEF TypeOK, Poll
<1>g. PICK g \in Groups : g = poll[q].group
  BY <1>2
<1>m. PICK m \in Nat : m = poll[q].upTo[p]
  BY <1>2
<1>3. m <= Len(log[p])
  BY <1>1, <1>m DEF PollSound
<1>4. ASSUME NEW i \in 1 .. m, Own(g, p, i) PROVE Accounted(g, <<p, i>>)'
  <2>1. i \in 1 .. Len(log[p]) /\ <<p, i>> \in Event
    BY <1>1, <1>3, LogGrows DEF Event
  <2>2. InBatch(q, <<p, i>>) \/ Accounted(g, <<p, i>>)
    BY <1>1, <1>g, <1>m, <1>4, <2>1 DEF PollCovers
  <2>3. CASE Accounted(g, <<p, i>>)
    BY <1>1, <2>1, <2>3, AccountedStays DEF EventInv
  <2>4. CASE InBatch(q, <<p, i>>) /\ CommitOk(q)
    <3>1. /\ poll'[q] # Idle /\ poll'[q].pc = "answering" /\ poll'[q].group = g
          /\ poll'[q].msgs = poll[q].msgs
      BY <1>1, <1>2, <1>g, <2>4, EventAssumption DEF CommitOk, TypeOK, Poll
    <3> QED BY <2>4, <3>1 DEF Accounted, InBatch
  <2>5. CASE InBatch(q, <<p, i>>) /\ CommitLost(q)
    <3>1. <<g, <<p, i>>>> \in Batch(q)
      BY <1>g, <2>5 DEF Batch, InBatch
    <3> QED BY <2>5, <3>1 DEF CommitLost, Accounted
  <2> QED BY <2>2, <2>3, <2>4, <2>5
<1>5. Dealt(g, p, m)'
  BY <1>1, <1>4 DEF Dealt, Own
<1> QED BY <1>2, <1>5, <1>g, <1>m

\* A cursor only moves by a commit, to what was dealt with.
LEMMA CursorsStay == EventInv /\ [Next]_vars => CursorsSound'
<1> SUFFICES ASSUME EventInv, [Next]_vars, NEW g \in Groups, NEW p \in Partitions
             PROVE  cursor'[g][p] <= Len(log'[p]) /\ Dealt(g, p, cursor[g][p])'
  BY DEF CursorsSound
<1>1. TypeOK /\ PollsSound /\ CursorsSound /\ cursor[g][p] \in Nat
  BY DEF EventInv, TypeOK
<1>2. ASSUME cursor'[g][p] = cursor[g][p]
      PROVE  cursor'[g][p] <= Len(log'[p]) /\ Dealt(g, p, cursor[g][p])'
  <2>1. PICK m \in Nat : m = cursor[g][p]
    BY <1>1
  <2>2. m <= Len(log[p]) /\ Dealt(g, p, m)
    BY <1>1, <2>1 DEF CursorsSound
  <2>3. m <= Len(log'[p]) /\ Dealt(g, p, m)'
    BY <1>1, <2>2, LogGrows, DealtStays
  <2> QED BY <1>2, <2>1, <2>3
<1>3. ASSUME NEW q \in Polls, CommitOk(q) \/ CommitLost(q)
      PROVE  cursor'[g][p] <= Len(log'[p]) /\ Dealt(g, p, cursor[g][p])'
  <2>1. cursor'[g][p] = IF g = poll[q].group /\ poll[q].upTo[p] > 0
                        THEN poll[q].upTo[p] ELSE cursor[g][p]
    BY <1>1, <1>3, CommitFacts DEF CommitOk, CommitLost
  <2>2. CASE g = poll[q].group /\ poll[q].upTo[p] > 0
    <3>1. /\ poll[q] \in Poll /\ PollSound(q) /\ log' = log
      BY <1>1, <1>3 DEF TypeOK, PollsSound, CommitOk, CommitLost, Committing
    <3>2. PICK m \in Nat : m = poll[q].upTo[p]
      BY <3>1 DEF Poll
    <3>3. m <= Len(log[p]) /\ Dealt(g, p, m)'
      BY <1>3, <2>2, <3>1, <3>2, CommitDeals DEF PollSound
    <3> QED BY <2>1, <2>2, <3>1, <3>2, <3>3
  <2>3. CASE ~ (g = poll[q].group /\ poll[q].upTo[p] > 0)
    BY <1>2, <2>1, <2>3
  <2> QED BY <2>2, <2>3
<1> QED
  BY <1>2, <1>3 DEF Next, vars, Publish, OpenPoll, Rebalance, Fetch, FetchFails,
                    CommitRefused, Answer, AnswerLost

\* A poll with nothing to commit has nothing in its batch.
LEMMA NothingCollected ==
  ASSUME TypeOK, PollsSound, NEW q \in Polls, poll[q] # Idle, ~ Collected(q)
  PROVE  Batch(q) = {}
<1>1. poll[q] \in Poll /\ PollSound(q)
  BY DEF TypeOK, PollsSound
<1>2. poll[q].msgs \in Seq(Event) /\ poll[q].upTo \in [Partitions -> Nat]
  BY <1>1 DEF Poll
<1>3. ASSUME NEW n \in DOMAIN poll[q].msgs PROVE FALSE
  <2>1. poll[q].msgs[n] \in Event
    BY <1>2
  <2>2. PICK p \in Partitions, i \in Nat \ {0} : poll[q].msgs[n] = <<p, i>>
    BY <2>1 DEF Event
  <2>3. i <= poll[q].upTo[p]
    BY <1>1, <2>2 DEF PollSound
  <2> QED BY <1>2, <2>3 DEF Collected
<1> QED BY <1>3 DEF Batch

\* A fetch appends what lies behind all it has of that partition.
LEMMA OrderStays == EventInv /\ [Next]_vars => OrderInv'
<1> SUFFICES ASSUME EventInv, [Next]_vars PROVE OrderInv'
  OBVIOUS
<1>1. TypeOK /\ PollsSound /\ OrderInv
  BY DEF EventInv
\* What OrderInv asks of an event is kept.
<1>2. ASSUME NEW g \in Groups, NEW e \in Event, e[2] <= Len(log[e[1]]), Dealt(g, e[1], e[2])
      PROVE  e[2] <= Len(log'[e[1]]) /\ Dealt(g, e[1], e[2])'
  <2>1. PICK p \in Partitions, i \in Nat \ {0} : e = <<p, i>>
    BY DEF Event
  <2>2. i <= Len(log[p]) /\ Dealt(g, p, i)
    BY <1>2, <2>1
  <2>3. i <= Len(log'[p]) /\ Dealt(g, p, i)'
    BY <1>1, <2>2, LogGrows, DealtStays
  <2> QED BY <2>1, <2>3
\* An answering poll's events are in the log, and what is before them is dealt with.
<1>3. ASSUME NEW q \in Polls, poll[q] # Idle, NEW n \in DOMAIN poll[q].msgs
      PROVE  /\ poll[q].group \in Groups /\ poll[q].msgs[n] \in Event
             /\ poll[q].msgs[n][2] <= poll[q].upTo[poll[q].msgs[n][1]]
             /\ poll[q].upTo[poll[q].msgs[n][1]] \in Nat
             /\ poll[q].msgs[n][2] <= Len(log[poll[q].msgs[n][1]])
             /\ poll[q].pc = "answering" => Dealt(poll[q].group, poll[q].msgs[n][1], poll[q].msgs[n][2])
  <2>1. poll[q] \in Poll /\ PollSound(q)
    BY <1>1, <1>3 DEF TypeOK, PollsSound
  <2>2. /\ poll[q].group \in Groups /\ poll[q].msgs[n] \in Event
        /\ poll[q].upTo \in [Partitions -> Nat]
    BY <1>3, <2>1 DEF Poll
  <2>3. PICK p \in Partitions, i \in Nat \ {0} : poll[q].msgs[n] = <<p, i>>
    BY <2>2 DEF Event
  <2>4. i <= poll[q].upTo[p] /\ poll[q].upTo[p] <= Len(log[p]) /\ Len(log[p]) \in Nat
        /\ poll[q].upTo[p] \in Nat
    BY <1>1, <2>1, <2>2, <2>3, LogGrows DEF PollSound
  <2>5. i <= Len(log[p])
    BY <2>4
  <2>6. poll[q].pc = "answering" => Dealt(poll[q].group, p, i)
    BY <1>1, <1>3, <2>3 DEF OrderInv
  <2> QED BY <2>2, <2>3, <2>4, <2>5, <2>6
<1>4. ASSUME NEW g \in Groups, NEW e \in Event, <<g, e>> \in handed'
      PROVE  e[2] <= Len(log'[e[1]]) /\ Dealt(g, e[1], e[2])'
  <2>1. CASE <<g, e>> \in handed
    BY <1>1, <1>2, <2>1 DEF OrderInv
  <2>2. CASE <<g, e>> \notin handed
    <3>1. PICK q \in Polls : Answer(q) /\ poll[q].from = "group" /\ <<g, e>> \in Batch(q)
      BY <1>4, <2>2 DEF Next, vars, Publish, OpenPoll, Rebalance, Fetch, FetchFails, CommitOk,
                        CommitRefused, CommitLost, Answer, AnswerLost
    <3>2. poll[q] # Idle /\ poll[q] \in Poll
      BY <1>1, <3>1 DEF Answer, TypeOK
    <3>3. poll[q].pc = "answering"
      <4>1. CASE ~ Committing(q) /\ poll[q].pc # "answering"
        <5>1. poll[q].pc = "polling"
          BY <3>2, <4>1 DEF Poll
        <5>2. ~ Collected(q)
          BY <3>1, <3>2, <4>1, <5>1 DEF Committing
        <5> QED BY <1>1, <3>1, <3>2, <5>2, NothingCollected
      <4> QED BY <3>1, <4>1 DEF Answer
    <3>4. PICK n \in DOMAIN poll[q].msgs : g = poll[q].group /\ e = poll[q].msgs[n]
      BY <3>1 DEF Batch
    <3>5. e[2] <= Len(log[e[1]]) /\ Dealt(g, e[1], e[2])
      BY <1>3, <3>2, <3>3, <3>4
    <3> QED BY <1>2, <3>5
  <2> QED BY <2>1, <2>2
<1>5. ASSUME NEW q \in Polls, poll'[q] # Idle, poll'[q].pc = "answering",
             NEW n \in DOMAIN poll'[q].msgs,
             NEW g \in Groups, g = poll'[q].group, NEW e \in Event, e = poll'[q].msgs[n]
      PROVE  Dealt(g, e[1], e[2])'
  <2>1. CASE poll'[q] = poll[q]
    BY <1>2, <1>3, <1>5, <2>1
  <2>2. CASE CommitOk(q)
    <3>1. poll[q] # Idle /\ poll[q] \in Poll
      BY <1>1, <2>2 DEF CommitOk, Committing, TypeOK
    <3>2. poll'[q].msgs = poll[q].msgs /\ poll'[q].group = poll[q].group
      BY <1>1, <2>2, <3>1 DEF CommitOk, TypeOK, Poll
    <3>3. PICK p \in Partitions, i \in Nat \ {0} : e = <<p, i>>
      BY DEF Event
    <3>4. PICK m \in Nat : m = poll[q].upTo[p]
      BY <3>1 DEF Poll
    <3>5. i <= m
      BY <1>3, <1>5, <3>1, <3>2, <3>3, <3>4
    <3>6. Dealt(g, p, m)'
      BY <1>5, <2>2, <3>2, <3>4, CommitDeals
    <3>7. Dealt(g, p, i)'
      BY <3>5, <3>6 DEF Dealt
    <3> QED BY <3>3, <3>7
  <2>3. poll'[q] = poll[q] \/ CommitOk(q)
    <3>1. ASSUME NEW r \in Polls, NEW o \in Callers, NEW b \in Bases, NEW from \in Modes,
                 OpenPoll(r, o, b, from)
          PROVE  poll'[q] = poll[q]
      BY <1>1, <1>5, <3>1, OpenFacts
    <3>2. ASSUME NEW h \in Groups, Rebalance(h) PROVE poll'[q] = poll[q]
      BY <1>1, <1>5, <3>2, RebalanceFacts DEF Members
    <3>3. ASSUME NEW r \in Polls, NEW p \in Partitions, Fetch(r, p) PROVE poll'[q] = poll[q]
      BY <1>1, <1>5, <3>3, FetchFacts
    <3>4. ASSUME NEW r \in Polls,
                 FetchFails(r) \/ CommitRefused(r) \/ CommitLost(r) \/ Answer(r) \/ AnswerLost(r)
          PROVE  poll'[q] = poll[q]
      BY <1>1, <1>5, <3>4 DEF FetchFails, CommitRefused, CommitLost, Answer, AnswerLost, TypeOK
    <3>5. ASSUME NEW r \in Polls, r # q, CommitOk(r) PROVE poll'[q] = poll[q]
      BY <1>1, <3>5 DEF CommitOk, TypeOK
    <3> QED BY <3>1, <3>2, <3>3, <3>4, <3>5 DEF Next, vars, Publish
  <2> QED BY <2>1, <2>2, <2>3
<1>6. TypeOK'
  BY <1>1, TypeStays
<1>7. ASSUME NEW q \in Polls, poll'[q] # Idle, NEW n \in DOMAIN poll'[q].msgs
      PROVE  poll'[q].group \in Groups /\ poll'[q].msgs[n] \in Event
  <2>1. poll'[q] \in Poll
    BY <1>6, <1>7 DEF TypeOK
  <2> QED BY <1>7, <2>1 DEF Poll
<1> QED BY <1>4, <1>5, <1>7 DEF OrderInv

-----------------------------------------------------------------------------
\* The inductive invariant.
THEOREM EventInvariant == Spec => []EventInv
<1>1. EventInv /\ [Next]_vars => EventInv'
  BY TypeStays, StampedStays, PollsStay, CursorsStay, OrderStays DEF EventInv
<1> QED BY InitInv, <1>1, PTL DEF Spec

\* Logs, cursors, polls and histories hold values of their kinds, and no poll
\* goes beyond max (consume).
THEOREM EventTypeCorrect == Spec => []TypeOK
<1>1. EventInv => TypeOK
  BY DEF EventInv
<1> QED BY EventInvariant, <1>1, PTL

\* No caller is ever about to receive another's event, whatever headers were
\* sent with it (stampOwner, consume).
THEOREM CallersAreIsolated == Spec => []OwnEventsOnly
<1>1. EventInv => OwnEventsOnly
  BY DEF EventInv, PollsSound, PollSound, OwnEventsOnly
<1> QED BY EventInvariant, <1>1, PTL

\* No commit of any poll, in any order and across any rebalance, takes a
\* cursor past an event of the caller that no poll took for its answer.
THEOREM CursorsSkipNothing == Spec => []NothingSkipped
<1>1. EventInv => NothingSkipped
  BY DEF EventInv, CursorsSound, Dealt, NothingSkipped
<1> QED BY EventInvariant, <1>1, PTL

\* A partition's events reach their owner in order: none is handed out before
\* all earlier ones have been dealt with.
THEOREM EventsComeInOrder == Spec => []HandedInOrder
<1>1. EventInv => HandedInOrder
  <2> SUFFICES ASSUME EventInv, NEW g \in Groups, NEW p \in Partitions,
                      NEW i \in 1 .. MaxEvents, NEW j \in 1 .. MaxEvents,
                      <<g, <<p, i>>>> \in handed, j < i, Own(g, p, j)
               PROVE  Accounted(g, <<p, j>>)
    BY DEF HandedInOrder
  <2>1. <<p, i>> \in Event
    BY EventAssumption DEF Event
  <2>2. Dealt(g, p, i)
    BY <2>1 DEF EventInv, OrderInv
  <2> QED BY <2>2, EventAssumption DEF Dealt
<1> QED BY EventInvariant, <1>1, PTL
=============================================================================
