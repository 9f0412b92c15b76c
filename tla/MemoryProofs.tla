---------------------------- MODULE MemoryProofs ----------------------------
(***************************************************************************)
(* Proofs about the two users of MemoryTable.                              *)
(*                                                                         *)
(* The store (MemoryStore), for every number of workers, every queue size  *)
(* and every number of attempts: no pending row is forgotten, and what     *)
(* MemoryTableProofs proves of the tables carries over.                    *)
(*                                                                         *)
(* A search (MemorySearch), for any contents, similarities and limits: it  *)
(* leaves the tables as they are, what an arm finds is scored by the       *)
(* content it shows, half an answer is never given, and an answer is in    *)
(* order, whole up to its limit, and of one version a hit.                 *)
(*                                                                         *)
(* And both at once: a search beside the store with all its goroutines.    *)
(***************************************************************************)
EXTENDS MemoryStore, MemorySearch, MemoryTableProofs, WellFoundedInduction,
        FunctionTheorems, SequenceTheorems

\* The mark for an idle goroutine is no job.
LEMMA IdleIsNoJob == Idle \notin Job /\ Idle \notin Running
  BY StoreAssumption

\* A job just taken is a running one.
LEMMA StartIsRunning == ASSUME NEW j \in Job PROVE Start(j) \in Running
  BY StoreAssumption DEF Start, Job, Running

\* Enqueue keeps the queue and the runners well formed.
LEMMA EnqueueType ==
  ASSUME TypeOK, NEW j \in Job, Enqueue(j)
  PROVE  /\ queue' \in Seq(Job)
         /\ Len(queue') <= QueueSize
         /\ running' \in [Runners -> Running \cup {Idle}]
<1>1. CASE closed
  BY <1>1 DEF Enqueue, TypeOK, pipeline
<1>2. CASE ~closed /\ Len(queue) < QueueSize /\ queue' = Append(queue, j) /\ UNCHANGED running
  BY <1>2, StoreAssumption DEF TypeOK
<1>3. ASSUME NEW d \in Detached, running' = [running EXCEPT ![d] = Start(j)], UNCHANGED queue
      PROVE  /\ queue' \in Seq(Job)
             /\ Len(queue') <= QueueSize
             /\ running' \in [Runners -> Running \cup {Idle}]
  BY <1>3, StartIsRunning DEF TypeOK, Runners
<1>4. QED
  BY <1>1, <1>2, <1>3 DEF Enqueue

(***************************************************************************)
(* Types, and what a job holds.                                            *)
(***************************************************************************)
LEMMA StoreInitType == Init => TypeOK
<1> SUFFICES ASSUME Init PROVE TypeOK
  OBVIOUS
<1>1. TableTypeOK
  BY InitType DEF Init
<1>2. queue \in Seq(Job) /\ Len(queue) <= QueueSize
  BY StoreAssumption DEF Init
<1>3. inHand \in [Callers -> Job \cup {Idle}] /\ running \in [Runners -> Running \cup {Idle}]
  BY DEF Init
<1>4. edits \in 0 .. MaxEdits /\ restarts \in 0 .. MaxRestarts
  BY StoreAssumption DEF Init
<1>5. backlog \subseteq Job /\ closed \in BOOLEAN /\ logged \subseteq Ids /\ errored \subseteq Ids
      /\ backfill \in {"scan", "enqueue", "done"}
  BY DEF Init
<1>6. QED
  BY <1>1, <1>2, <1>3, <1>4, <1>5 DEF TypeOK

\* Every step of the store is a step of the tables or leaves them alone.
LEMMA StepDrivesTable ==
  ASSUME TypeOK, JobsConsistent, [Next]_vars
  PROVE  [TableNext]_tableVars
<1>1. ASSUME NEW c \in Callers, WriteStep(c)
      PROVE  TableNext
  BY <1>1 DEF WriteStep, BeginWrite, EvictOldest, CommitWrite, CommitWriteLost, AbortWrite, TableNext
<1>2. ASSUME NEW c \in Callers, UpdateStep(c)
      PROVE  TableNext
  BY <1>2 DEF UpdateStep, Update, UpdateLost, Edited, TableNext
<1>3. ASSUME NEW k \in Keys, NEW i \in Ids, Delete(k, i)
      PROVE  TableNext
  BY <1>3 DEF Delete, TableNext
<1>4. ASSUME NEW k \in Keys, RevokeKey(k)
      PROVE  TableNext
  BY <1>4 DEF RevokeKey, TableNext
<1>5. ASSUME NEW r \in Runners, WriteBack(r)
      PROVE  TableNext
  <2>1. running[r] \in Running
    BY <1>5 DEF WriteBack, Embedded, TypeOK
  <2>2. running[r].id \in Ids /\ running[r].content \in Contents
    BY <2>1 DEF Running
  <2>3. SetVector(running[r].id, running[r].content, running[r].content)
    BY <1>5 DEF WriteBack, JobsConsistent
  <2>4. QED
    BY <2>2, <2>3 DEF TableNext
<1>6. CASE Restart
  BY <1>6 DEF Restart, TableNext
<1>7. ASSUME NEW c \in Callers, HandOff(c)
      PROVE  UNCHANGED tableVars
  BY <1>7 DEF HandOff
<1>8. ASSUME NEW w \in Workers, TakeJob(w)
      PROVE  UNCHANGED tableVars
  BY <1>8 DEF TakeJob
<1>9. ASSUME NEW r \in Runners, EmbedOk(r) \/ EmbedRetry(r) \/ EmbedGiveUp(r) \/ WriteBackFail(r)
      PROVE  UNCHANGED tableVars
  BY <1>9 DEF EmbedOk, EmbedRetry, EmbedGiveUp, WriteBackFail, GiveUp
<1>10. CASE BackfillStep
  BY <1>10 DEF BackfillStep, BackfillScan, BackfillFail, BackfillEnqueue, BackfillDone
<1>11. CASE Close \/ UNCHANGED vars
  BY <1>11 DEF Close, vars
<1>12. QED
  BY <1>1, <1>2, <1>3, <1>4, <1>5, <1>6, <1>7, <1>8, <1>9, <1>10, <1>11 DEF Next, RunStep

\* A step of the tables alone keeps the rest well typed.
LEMMA RestOfTypeOK ==
  ASSUME TypeOK, TableTypeOK', UNCHANGED <<inHand, queue, running, backfill, backlog, closed,
                                           edits, restarts, logged, errored>>
  PROVE  TypeOK'
  BY DEF TypeOK

\* Every step keeps each variable in its set; the queue is checked before it grows.
LEMMA StoreNextType == TypeOK /\ JobsConsistent /\ [Next]_vars => TypeOK'
<1> SUFFICES ASSUME TypeOK, JobsConsistent, [Next]_vars PROVE TypeOK'
  OBVIOUS
<1>0. TableTypeOK'
  BY StepDrivesTable, NextType DEF TypeOK
<1> USE StoreAssumption, <1>0 DEF pipeline, startup, bounds, reports
<1>1. ASSUME NEW c \in Callers, WriteStep(c)
      PROVE  TypeOK'
  <2>1. CASE \/ \E k \in Keys, x \in Contents : BeginWrite(c, k, x)
             \/ EvictOldest(c)
             \/ AbortWrite(c)
    BY <2>1, RestOfTypeOK DEF BeginWrite, EvictOldest, AbortWrite
  <2>2. Commit(c) => tx[c] \in OpenTx /\ tx[c].id \in Ids /\ tx[c].content \in Contents
    BY OpenIsTx DEF Commit, Open, NoTx, OpenTx, TypeOK
  <2>3. CASE CommitWrite(c)
    <3>1. [id |-> tx[c].id, content |-> tx[c].content] \in Job
      BY <2>2, <2>3 DEF CommitWrite, Job
    <3>2. QED
      BY <2>3, <3>1 DEF CommitWrite, TypeOK
  <2>4. CASE CommitWriteLost(c)
    BY <2>2, <2>4 DEF CommitWriteLost, TypeOK
  <2>5. QED
    BY <1>1, <2>1, <2>3, <2>4 DEF WriteStep
<1>2. ASSUME NEW c \in Callers, UpdateStep(c)
      PROVE  TypeOK'
  <2>1. PICK k \in Keys, i \in Ids, x \in Contents : Update(c, k, i, x) \/ UpdateLost(c, k, i, x)
    BY <1>2 DEF UpdateStep
  <2>2. /\ edits' \in 0 .. MaxEdits
        /\ logged' \subseteq Ids
        /\ UNCHANGED <<queue, running, backfill, backlog, closed, restarts>>
    BY <2>1 DEF Update, UpdateLost, Edited, TypeOK
  <2>3. inHand' \in [Callers -> Job \cup {Idle}] /\ errored' \subseteq Ids
    BY <2>1 DEF Update, UpdateLost, TypeOK, Job
  <2>4. QED
    BY <2>2, <2>3 DEF TypeOK
<1>3. ASSUME NEW c \in Callers, HandOff(c)
      PROVE  TypeOK'
  <2>1. inHand[c] \in Job /\ Enqueue(inHand[c])
    BY <1>3 DEF HandOff, TypeOK
  <2>2. /\ queue' \in Seq(Job)
        /\ Len(queue') <= QueueSize
        /\ running' \in [Runners -> Running \cup {Idle}]
    BY <2>1, EnqueueType
  <2>3. QED
    BY <1>3, <2>2 DEF HandOff, TypeOK
<1>4. ASSUME NEW k \in Keys, NEW i \in Ids, Delete(k, i)
      PROVE  TypeOK'
  BY <1>4, RestOfTypeOK DEF Delete
<1>5. ASSUME NEW k \in Keys, RevokeKey(k)
      PROVE  TypeOK'
  BY <1>5, RestOfTypeOK DEF RevokeKey
<1>6. ASSUME NEW w \in Workers, TakeJob(w)
      PROVE  TypeOK'
  <2>1. Head(queue) \in Job /\ Tail(queue) \in Seq(Job) /\ Len(Tail(queue)) <= QueueSize
    BY <1>6 DEF TakeJob, TypeOK
  <2>2. Start(Head(queue)) \in Running
    BY <2>1, StartIsRunning
  <2>3. QED
    BY <1>6, <2>1, <2>2 DEF TakeJob, TypeOK, Runners
<1>7. ASSUME NEW r \in Runners, RunStep(r)
      PROVE  TypeOK'
  <2>1. running[r] \in Running
    BY <1>7 DEF RunStep, EmbedOk, EmbedRetry, EmbedGiveUp, WriteBack, WriteBackFail,
              Embedding, Embedded, TypeOK
  <2>2. CASE EmbedOk(r)
    <3>1. [running[r] EXCEPT !.vec = running[r].content] \in Running
      BY <2>1 DEF Running
    <3>2. QED
      BY <2>2, <3>1 DEF EmbedOk, TypeOK
  <2>3. CASE EmbedRetry(r)
    <3>1. [running[r] EXCEPT !.tries = @ + 1] \in Running
      BY <2>1, <2>3 DEF Running, EmbedRetry
    <3>2. QED
      BY <2>3, <3>1 DEF EmbedRetry, TypeOK
  <2>4. CASE GiveUp(r)
    BY <2>1, <2>4 DEF GiveUp, TypeOK, Running
  <2>5. CASE WriteBack(r)
    BY <2>5 DEF WriteBack, TypeOK
  <2>6. QED
    BY <1>7, <2>2, <2>3, <2>4, <2>5 DEF RunStep, EmbedGiveUp, WriteBackFail
<1>8. CASE BackfillStep
  <2>1. CASE BackfillScan
    <3>1. \A n \in Ids : Pending(n) => rows[n].content \in Contents
      BY DEF Pending, TypeOK, TableTypeOK, Row
    <3>2. backlog' \subseteq Job
      BY <2>1, <3>1 DEF BackfillScan, Job
    <3>3. QED
      BY <2>1, <3>2 DEF BackfillScan, TypeOK
  <2>2. CASE BackfillFail
    BY <2>2 DEF BackfillFail, TypeOK
  <2>3. CASE BackfillEnqueue
    <3>1. PICK j \in backlog : Enqueue(j) /\ backlog' = backlog \ {j}
      BY <2>3 DEF BackfillEnqueue
    <3>2. /\ queue' \in Seq(Job)
          /\ Len(queue') <= QueueSize
          /\ running' \in [Runners -> Running \cup {Idle}]
      BY <3>1, EnqueueType DEF TypeOK
    <3>3. QED
      BY <2>3, <3>1, <3>2 DEF BackfillEnqueue, TypeOK
  <2>4. CASE BackfillDone
    BY <2>4 DEF BackfillDone, TypeOK
  <2>5. QED
    BY <1>8, <2>1, <2>2, <2>3, <2>4 DEF BackfillStep
<1>9. CASE Close
  BY <1>9 DEF Close, TypeOK
<1>10. CASE Restart
  <2>1. queue' \in Seq(Job) /\ Len(queue') <= QueueSize
    BY <1>10 DEF Restart
  <2>2. restarts' \in 0 .. MaxRestarts /\ edits' = edits
    BY <1>10 DEF Restart, TypeOK
  <2>3. QED
    BY <1>10, <2>1, <2>2 DEF Restart, TypeOK
<1>11. CASE UNCHANGED vars
  BY <1>11, RestOfTypeOK DEF vars
<1>12. QED
  BY <1>1, <1>2, <1>3, <1>4, <1>5, <1>6, <1>7, <1>8, <1>9, <1>10, <1>11 DEF Next

\* A job's vector is computed from the content the job carries.
LEMMA NextJobsConsistent == TypeOK /\ JobsConsistent /\ [Next]_vars => JobsConsistent'
<1> SUFFICES ASSUME TypeOK, JobsConsistent, [Next]_vars PROVE JobsConsistent'
  OBVIOUS
<1> DEFINE Fresh == \A r \in Runners : Embedded(r) => running[r].vec = running[r].content
           OneTask == \A c \in Callers : Open(c) => inHand[c] = Idle
<1>1. Fresh /\ OneTask
  BY DEF JobsConsistent
<1>2. ASSUME NEW r \in Runners, NEW j \in Job, running' = [running EXCEPT ![r] = Start(j)]
      PROVE  Fresh'
  BY <1>1, <1>2 DEF Embedded, Start, TypeOK
<1>3. ASSUME NEW r \in Runners, running' = [running EXCEPT ![r] = Idle]
      PROVE  Fresh'
  BY <1>1, <1>3 DEF Embedded, TypeOK
<1>4. ASSUME NEW j \in Job, Enqueue(j)
      PROVE  Fresh'
  <2>1. CASE UNCHANGED running
    BY <1>1, <2>1 DEF Embedded
  <2>2. CASE \E d \in Detached : running' = [running EXCEPT ![d] = Start(j)]
    BY <1>2, <2>2 DEF Runners
  <2>3. QED
    BY <1>4, <2>1, <2>2 DEF Enqueue, pipeline
<1>5. ASSUME UNCHANGED <<tx, inHand>> PROVE OneTask'
  BY <1>1, <1>5 DEF Open
<1>6. ASSUME NEW c \in Callers, WriteStep(c)
      PROVE  JobsConsistent'
  <2>1. Fresh'
    BY <1>1, <1>6 DEF WriteStep, BeginWrite, EvictOldest, CommitWrite, CommitWriteLost, AbortWrite,
                     pipeline, Embedded
  <2>2. \A d \in Callers : d # c => tx'[d] = tx[d] /\ inHand'[d] = inHand[d]
    BY <1>6 DEF WriteStep, BeginWrite, EvictOldest, CommitWrite, CommitWriteLost, AbortWrite,
                Begin, Scan, Commit, Rollback, TypeOK, TableTypeOK
  <2>3. Open(c)' => inHand'[c] = Idle
    <3>1. CASE \E k \in Keys, x \in Contents : BeginWrite(c, k, x)
      BY <3>1 DEF BeginWrite
    <3>2. CASE EvictOldest(c)
      BY <1>1, <3>2 DEF EvictOldest, Scan, Open, NoTx
    <3>3. CASE Commit(c) \/ Rollback(c)
      BY <3>3 DEF Commit, Rollback, Open, TypeOK, TableTypeOK
    <3>4. QED
      BY <1>6, <3>1, <3>2, <3>3 DEF WriteStep, CommitWrite, CommitWriteLost, AbortWrite
  <2>4. OneTask'
    BY <1>1, <2>2, <2>3 DEF Open
  <2>5. QED
    BY <2>1, <2>4 DEF JobsConsistent
<1>7. ASSUME NEW c \in Callers, UpdateStep(c)
      PROVE  JobsConsistent'
  <2>1. Fresh'
    BY <1>1, <1>7 DEF UpdateStep, Update, UpdateLost, Edited, pipeline, Embedded
  <2>2. tx' = tx /\ tx[c] = NoTx /\ \A d \in Callers : d # c => inHand'[d] = inHand[d]
    BY <1>7 DEF UpdateStep, Update, UpdateLost, Edited, UpdateRow, TypeOK
  <2>3. OneTask'
    BY <1>1, <2>2 DEF Open
  <2>4. QED
    BY <2>1, <2>3 DEF JobsConsistent
<1>8. ASSUME NEW c \in Callers, HandOff(c)
      PROVE  JobsConsistent'
  <2>1. Fresh'
    BY <1>4, <1>8 DEF HandOff, TypeOK
  <2>2. tx' = tx /\ \A d \in Callers : inHand'[d] = inHand[d] \/ inHand'[d] = Idle
    BY <1>8 DEF HandOff, tableVars, TypeOK
  <2>3. OneTask'
    BY <1>1, <2>2 DEF Open
  <2>4. QED
    BY <2>1, <2>3 DEF JobsConsistent
<1>9. ASSUME NEW w \in Workers, TakeJob(w)
      PROVE  JobsConsistent'
  <2>1. Head(queue) \in Job
    BY <1>9 DEF TakeJob, TypeOK
  <2>2. Fresh'
    BY <1>2, <1>9, <2>1 DEF TakeJob, Runners
  <2>3. QED
    BY <1>5, <1>9, <2>2 DEF TakeJob, tableVars, JobsConsistent
<1>10. ASSUME NEW r \in Runners, RunStep(r)
       PROVE  JobsConsistent'
  <2>1. Fresh'
    <3>1. CASE EmbedOk(r) \/ EmbedRetry(r)
      <4>1. running[r] \in Running /\ running[r].vec = NoVec
        BY <3>1 DEF EmbedOk, EmbedRetry, Embedding, TypeOK
      <4>2. \A s \in Runners : s # r => running'[s] = running[s]
        BY <3>1 DEF EmbedOk, EmbedRetry, TypeOK
      <4>3. Embedded(r)' => running'[r].vec = running'[r].content
        BY <3>1, <4>1 DEF EmbedOk, EmbedRetry, TypeOK, Running, Embedded
      <4>4. QED
        BY <1>1, <4>2, <4>3 DEF Embedded
    <3>2. CASE EmbedGiveUp(r) \/ WriteBack(r) \/ WriteBackFail(r)
      BY <1>3, <3>2 DEF EmbedGiveUp, WriteBack, WriteBackFail, GiveUp
    <3>3. QED
      BY <1>10, <3>1, <3>2 DEF RunStep
  <2>2. UNCHANGED <<tx, inHand>>
    BY <1>10 DEF RunStep, EmbedOk, EmbedRetry, EmbedGiveUp, WriteBack, WriteBackFail, GiveUp,
                 SetVector, tableVars
  <2>3. QED
    BY <1>5, <2>1, <2>2 DEF JobsConsistent
<1>11. CASE BackfillStep
  <2>1. Fresh'
    <3>1. CASE BackfillEnqueue
      BY <1>4, <3>1 DEF BackfillEnqueue, TypeOK
    <3>2. CASE UNCHANGED running
      BY <1>1, <3>2 DEF Embedded
    <3>3. QED
      BY <1>11, <3>1, <3>2 DEF BackfillStep, BackfillScan, BackfillFail, BackfillDone, pipeline
  <2>2. UNCHANGED <<tx, inHand>>
    BY <1>11 DEF BackfillStep, BackfillScan, BackfillFail, BackfillEnqueue, BackfillDone, tableVars
  <2>3. QED
    BY <1>5, <2>1, <2>2 DEF JobsConsistent
<1>12. CASE Restart
  BY <1>12 DEF Restart, JobsConsistent, Embedded
<1>13. CASE UNCHANGED <<tx, inHand, running>>
  BY <1>1, <1>5, <1>13 DEF JobsConsistent, Embedded
<1>14. QED
  BY <1>6, <1>7, <1>8, <1>9, <1>10, <1>11, <1>12, <1>13
  DEF Next, Delete, DeleteRow, RevokeKey, DeleteKey, Close, vars, tableVars, pipeline

(***************************************************************************)
(* No pending row is forgotten.  A row is accounted for through the places *)
(* a job for it can be, and each step moves jobs between those places.     *)
(***************************************************************************)
Queued(j) == \E n \in DOMAIN queue : queue[n] = j
OnRunner(j) == \E r \in Runners :
                 running[r] # Idle /\ running[r].id = j.id /\ running[r].content = j.content
InHand(j) == \E c \in Callers : inHand[c] = j
Carried(j) == Queued(j) \/ OnRunner(j) \/ InHand(j) \/ j \in backlog
JobFor(i) == [id |-> i, content |-> rows[i].content]
Accounted(i) == Carried(JobFor(i)) \/ backfill = "scan" \/ i \in logged \/ i \in errored

\* The property, row by row.
LEMMA PendingAccounted ==
  PendingAccountedFor <=> (~closed => \A i \in Ids : Pending(i) => Accounted(i))
  BY DEF PendingAccountedFor, HasJob, Accounted, Carried, Queued, OnRunner, InHand, JobFor

\* The job a pending row needs is a job for its content.
LEMMA PendingJob ==
  ASSUME TypeOK, NEW i \in Ids, Pending(i)
  PROVE  JobFor(i) \in Job /\ JobFor(i).id = i /\ JobFor(i).content = rows[i].content
  BY DEF TypeOK, TableTypeOK, Pending, Row, JobFor, Job

\* An enqueued job is in the queue or on a runner, and nothing else moves.
LEMMA EnqueueCarries ==
  ASSUME TypeOK, ~closed, NEW j \in Job, Enqueue(j)
  PROVE  /\ Queued(j)' \/ OnRunner(j)'
         /\ \A k \in Job : Queued(k) => Queued(k)'
         /\ \A k \in Job : OnRunner(k) => OnRunner(k)'
<1>1. CASE queue' = Append(queue, j) /\ UNCHANGED running
  <2>1. queue \in Seq(Job)
    BY DEF TypeOK
  <2>2. /\ DOMAIN queue = 1 .. Len(queue)
        /\ DOMAIN queue' = 1 .. Len(queue) + 1
        /\ Len(queue) \in Nat
        /\ queue'[Len(queue) + 1] = j
        /\ \A n \in 1 .. Len(queue) : queue'[n] = queue[n]
    BY <1>1, <2>1
  <2>3. Queued(j)' /\ \A k \in Job : Queued(k) => Queued(k)'
    BY <2>2 DEF Queued
  <2>4. QED
    BY <1>1, <2>3 DEF OnRunner
<1>2. ASSUME NEW d \in Detached, running[d] = Idle, running' = [running EXCEPT ![d] = Start(j)],
             UNCHANGED queue
      PROVE  /\ OnRunner(j)'
             /\ \A k \in Job : Queued(k) => Queued(k)'
             /\ \A k \in Job : OnRunner(k) => OnRunner(k)'
  <2>1. d \in Runners /\ running'[d] = Start(j) /\ \A r \in Runners : r # d => running'[r] = running[r]
    BY <1>2 DEF TypeOK, Runners
  <2>2. Start(j) # Idle /\ Start(j).id = j.id /\ Start(j).content = j.content
    BY StartIsRunning, IdleIsNoJob DEF Start
  <2>3. OnRunner(j)' /\ \A k \in Job : OnRunner(k) => OnRunner(k)'
    BY <1>2, <2>1, <2>2 DEF OnRunner
  <2>4. QED
    BY <1>2, <2>3 DEF Queued
<1>3. QED
  BY <1>1, <1>2 DEF Enqueue

\* A row the step leaves alone stays accounted for when every carried job
\* stays carried.
LEMMA CarriedKept ==
  ASSUME TypeOK, NEW i \in Ids, Accounted(i), Pending(i), rows'[i] = rows[i],
         Carried(JobFor(i)) => Carried(JobFor(i))',
         backfill' = backfill, logged \subseteq logged', errored \subseteq errored'
  PROVE  Accounted(i)'
<1>1. JobFor(i)' = JobFor(i)
  BY DEF JobFor
<1>2. QED
  BY <1>1 DEF Accounted

\* No step drops the job of a row without leaving another or a report.
LEMMA NextPendingAccounted == StoreInv /\ [Next]_vars => PendingAccountedFor'
<1> SUFFICES ASSUME StoreInv, [Next]_vars, ~closed', NEW i \in Ids, Pending(i)'
             PROVE  Accounted(i)'
  BY DEF PendingAccountedFor, HasJob, Accounted, Carried, Queued, OnRunner, InHand, JobFor
<1> DEFINE Kept == rows'[i] = rows[i]
           same == <<queue, running, inHand, backlog>>
<1>1. TypeOK /\ JobsConsistent /\ (~closed => \A n \in Ids : Pending(n) => Accounted(n))
  BY PendingAccounted DEF StoreInv
<1>2. ASSUME Kept PROVE Pending(i) /\ JobFor(i)' = JobFor(i) /\ JobFor(i) \in Job
  <2>1. Pending(i) /\ JobFor(i)' = JobFor(i)
    BY <1>2 DEF Pending, JobFor
  <2>2. QED
    BY <1>1, <2>1, PendingJob
\* A step that leaves the row and every job where they are.
<1>3. ASSUME Kept, ~closed, UNCHANGED same, UNCHANGED backfill,
             logged \subseteq logged', errored \subseteq errored'
      PROVE  Accounted(i)'
  BY <1>1, <1>2, <1>3, CarriedKept DEF Carried, Queued, OnRunner, InHand
<1>4. ASSUME NEW c \in Callers, WriteStep(c)
      PROVE  Accounted(i)'
  <2>1. CASE \/ \E k \in Keys, x \in Contents : BeginWrite(c, k, x)
             \/ EvictOldest(c)
             \/ AbortWrite(c)
    <3>1. Kept /\ ~closed /\ UNCHANGED same /\ UNCHANGED backfill /\ UNCHANGED <<logged, errored>>
      BY <2>1 DEF BeginWrite, EvictOldest, AbortWrite, Begin, Scan, Rollback, pipeline, startup, reports
    <3>2. QED
      BY <1>3, <3>1
  <2>2. CASE CommitWrite(c)
    <3>1. Open(c) /\ tx[c] \in OpenTx /\ inHand[c] = Idle
      BY <1>1, <2>2, OpenIsTx DEF CommitWrite, Commit, Open, NoTx, TypeOK, JobsConsistent
    <3>2. CASE rows'[i] = NewRow(tx[c]) /\ i = tx[c].id
      <4>1. inHand'[c] = JobFor(i)'
        BY <1>1, <2>2, <3>2 DEF CommitWrite, NewRow, JobFor, TypeOK
      <4>2. QED
        BY <4>1 DEF Accounted, Carried, InHand
    <3>3. CASE Kept
      <4>1. \A d \in Callers : inHand[d] # Idle => inHand'[d] = inHand[d]
        BY <1>1, <2>2, <3>1 DEF CommitWrite, TypeOK
      <4>2. UNCHANGED <<queue, running, backlog, backfill, closed, logged, errored>>
        BY <2>2 DEF CommitWrite, pipeline, startup, reports
      <4>3. Carried(JobFor(i)) => Carried(JobFor(i))'
        BY <1>2, <3>3, <4>1, <4>2, IdleIsNoJob DEF Carried, Queued, OnRunner, InHand
      <4>4. QED
        BY <1>1, <1>2, <3>3, <4>2, <4>3, CarriedKept
    <3>4. rows'[i] # Absent
      BY DEF Pending
    <3>5. QED
      BY <2>2, <3>2, <3>3, <3>4 DEF CommitWrite, Commit
  <2>3. CASE CommitWriteLost(c)
    <3>1. CASE i = tx[c].id
      BY <2>3, <3>1 DEF CommitWriteLost, Accounted
    <3>2. CASE i # tx[c].id
      <4>1. Kept
        BY <2>3, <3>2 DEF CommitWriteLost, Commit, Pending
      <4>2. ~closed /\ UNCHANGED same /\ UNCHANGED backfill
            /\ logged \subseteq logged' /\ errored \subseteq errored'
        BY <2>3 DEF CommitWriteLost, pipeline, startup
      <4>3. QED
        BY <1>3, <4>1, <4>2
    <3>3. QED
      BY <3>1, <3>2
  <2>4. QED
    BY <1>4, <2>1, <2>2, <2>3 DEF WriteStep
<1>5. ASSUME NEW c \in Callers, UpdateStep(c)
      PROVE  Accounted(i)'
  <2>1. PICK k \in Keys, n \in Ids, x \in Contents : Update(c, k, n, x) \/ UpdateLost(c, k, n, x)
    BY <1>5 DEF UpdateStep
  <2>2. /\ Edited(c, k, n, x)
        /\ \/ inHand' = [inHand EXCEPT ![c] = [id |-> n, content |-> x]] /\ errored' = errored \ {n}
           \/ errored' = errored \cup {n} /\ inHand' = inHand
    BY <2>1 DEF Update, UpdateLost
  <2>3. /\ inHand[c] = Idle
        /\ logged' = logged \ {n}
        /\ UNCHANGED <<queue, running, backlog, backfill, closed>>
    BY <2>2 DEF Edited, pipeline, startup
  <2>4. CASE i = n
    <3>1. rows[n] \in Row /\ rows'[n].content = x
      BY <1>1, <2>2 DEF Edited, UpdateRow, RowsOf, TypeOK, TableTypeOK, Row
    <3>2. CASE errored' = errored \cup {n}
      BY <2>4, <3>2 DEF Accounted
    <3>3. CASE inHand' = [inHand EXCEPT ![c] = [id |-> n, content |-> x]]
      <4>1. inHand'[c] = JobFor(i)'
        BY <1>1, <2>4, <3>1, <3>3 DEF JobFor, TypeOK
      <4>2. QED
        BY <4>1 DEF Accounted, Carried, InHand
    <3>4. QED
      BY <2>2, <3>2, <3>3
  <2>5. CASE i # n
    <3>1. Kept
      BY <1>1, <2>2, <2>5 DEF Edited, UpdateRow, TypeOK, TableTypeOK
    <3>2. \A d \in Callers : inHand[d] # Idle => inHand'[d] = inHand[d]
      BY <1>1, <2>2, <2>3 DEF TypeOK
    <3>3. Carried(JobFor(i)) => Carried(JobFor(i))'
      BY <1>2, <2>3, <3>1, <3>2, IdleIsNoJob DEF Carried, Queued, OnRunner, InHand
    <3>4. Accounted(i) /\ JobFor(i)' = JobFor(i)
      BY <1>1, <1>2, <2>3, <3>1
    <3>5. QED
      BY <2>2, <2>3, <2>5, <3>3, <3>4 DEF Accounted
  <2>6. QED
    BY <2>4, <2>5
<1>6. ASSUME NEW c \in Callers, HandOff(c)
      PROVE  Accounted(i)'
  <2>1. PICK job \in Job : job = inHand[c] /\ Enqueue(job)
    BY <1>1, <1>6 DEF HandOff, TypeOK
  <2>2. Kept /\ ~closed /\ UNCHANGED <<backlog, backfill, logged, errored>>
    BY <1>6 DEF HandOff, tableVars, startup, reports
  <2>3. \A d \in Callers : d # c => inHand'[d] = inHand[d]
    BY <1>1, <1>6 DEF HandOff, TypeOK
  <2>4. /\ Queued(job)' \/ OnRunner(job)'
        /\ \A k \in Job : Queued(k) => Queued(k)'
        /\ \A k \in Job : OnRunner(k) => OnRunner(k)'
    BY <1>1, <2>1, <2>2, EnqueueCarries
  <2>5. PICK row \in Job : row = JobFor(i) /\ row = JobFor(i)'
    BY <1>2, <2>2
  <2>6. Carried(row) => Carried(row)'
    BY <2>1, <2>2, <2>3, <2>4 DEF Carried, InHand
  <2>7. Carried(JobFor(i)) => Carried(JobFor(i))'
    BY <2>5, <2>6 DEF Carried, Queued, OnRunner, InHand
  <2>8. QED
    BY <1>1, <1>2, <2>2, <2>7, CarriedKept
<1>7. ASSUME NEW k \in Keys, NEW n \in Ids, Delete(k, n)
      PROVE  Accounted(i)'
  <2>1. Kept
    BY <1>1, <1>7 DEF Delete, DeleteRow, Pending, TypeOK, TableTypeOK
  <2>2. QED
    BY <1>3, <1>7, <2>1 DEF Delete, pipeline, startup, reports
<1>8. ASSUME NEW k \in Keys, RevokeKey(k)
      PROVE  Accounted(i)'
  <2>1. Kept
    BY <1>8 DEF RevokeKey, DeleteKey, Pending
  <2>2. QED
    BY <1>3, <1>8, <2>1 DEF RevokeKey, pipeline, startup, reports
<1>9. ASSUME NEW w \in Workers, TakeJob(w)
      PROVE  Accounted(i)'
  <2>1. Kept /\ ~closed /\ UNCHANGED <<inHand, backlog, backfill, logged, errored>>
    BY <1>9 DEF TakeJob, tableVars, startup, reports
  <2>2. /\ queue \in Seq(Job)
        /\ Len(queue) \in Nat \ {0}
        /\ DOMAIN queue = 1 .. Len(queue)
        /\ DOMAIN queue' = 1 .. Len(queue) - 1
        /\ \A n \in DOMAIN queue' : queue'[n] = queue[n + 1]
        /\ Head(queue) = queue[1]
    BY <1>1, <1>9 DEF TakeJob, TypeOK
  <2>3. PICK head \in Job : head = queue[1] /\ head = Head(queue)
    BY <2>2
  <2>4. /\ w \in Runners
        /\ running[w] = Idle
        /\ running'[w] = Start(head)
        /\ \A r \in Runners : r # w => running'[r] = running[r]
    BY <1>1, <1>9, <2>3 DEF TakeJob, TypeOK, Runners
  <2>5. Start(head) # Idle /\ Start(head).id = head.id /\ Start(head).content = head.content
    BY <2>3, StartIsRunning, IdleIsNoJob DEF Start
  <2>6. OnRunner(head)'
    BY <2>4, <2>5 DEF OnRunner
  <2>7. ASSUME NEW k \in Job, Queued(k) PROVE k = head \/ Queued(k)'
    <3>1. PICK n \in DOMAIN queue : queue[n] = k
      BY <2>7 DEF Queued
    <3>2. CASE n = 1
      BY <2>3, <3>1, <3>2
    <3>3. CASE n # 1
      <4>1. n - 1 \in DOMAIN queue' /\ queue'[n - 1] = k
        BY <2>2, <3>1, <3>3
      <4>2. QED
        BY <4>1 DEF Queued
    <3>4. QED
      BY <3>2, <3>3
  <2>8. \A k \in Job : OnRunner(k) => OnRunner(k)'
    BY <2>4 DEF OnRunner
  <2>9. PICK row \in Job : row = JobFor(i) /\ row = JobFor(i)'
    BY <1>2, <2>1
  <2>10. Carried(row) => Carried(row)'
    BY <2>1, <2>6, <2>7, <2>8 DEF Carried, InHand
  <2>11. Carried(JobFor(i)) => Carried(JobFor(i))'
    BY <2>9, <2>10 DEF Carried, Queued, OnRunner, InHand
  <2>12. QED
    BY <1>1, <1>2, <2>1, <2>11, CarriedKept
<1>10. ASSUME NEW r \in Runners, RunStep(r)
       PROVE  Accounted(i)'
  <2>1. /\ \A s \in Runners : s # r => running'[s] = running[s]
        /\ ~closed
        /\ UNCHANGED <<queue, inHand, backlog, backfill, errored>>
    BY <1>1, <1>10 DEF RunStep, EmbedOk, EmbedRetry, EmbedGiveUp, WriteBack, WriteBackFail, GiveUp,
                       startup, reports, TypeOK
  <2>2. running[r] \in Running
    BY <1>1, <1>10 DEF RunStep, EmbedOk, EmbedRetry, EmbedGiveUp, WriteBack, WriteBackFail,
                       Embedding, Embedded, TypeOK
  \* The jobs on the other runners and in the other places stay.
  <2>3. ASSUME Kept, logged \subseteq logged',
               \/ running'[r] # Idle /\ running'[r].id = running[r].id
                                     /\ running'[r].content = running[r].content
               \/ ~(running[r].id = i /\ running[r].content = rows[i].content)
        PROVE  Accounted(i)'
    <3>1. Carried(JobFor(i)) => Carried(JobFor(i))'
      BY <1>2, <2>1, <2>3, PendingJob, <1>1 DEF Carried, Queued, OnRunner, InHand
    <3>2. QED
      BY <1>1, <1>2, <2>1, <2>3, <3>1, CarriedKept
  <2>4. CASE EmbedOk(r) \/ EmbedRetry(r)
    <3>1. Kept /\ logged' = logged
      BY <2>4 DEF EmbedOk, EmbedRetry, tableVars, reports
    <3>2. /\ running'[r].id = running[r].id
          /\ running'[r].content = running[r].content
          /\ running'[r] \in Running
      <4>1. CASE EmbedOk(r)
        <5>1. running'[r] = [running[r] EXCEPT !.vec = running[r].content]
          BY <1>1, <4>1 DEF EmbedOk, TypeOK
        <5>2. QED
          BY <2>2, <5>1 DEF Running
      <4>2. CASE EmbedRetry(r)
        <5>1. running'[r] = [running[r] EXCEPT !.tries = @ + 1]
          BY <1>1, <4>2 DEF EmbedRetry, TypeOK
        <5>2. running[r].tries < Attempts /\ running[r].tries \in 1 .. Attempts
          BY <2>2, <4>2 DEF EmbedRetry, Running
        <5>3. QED
          BY <2>2, <5>1, <5>2, StoreAssumption DEF Running
      <4>3. QED
        BY <2>4, <4>1, <4>2
    <3>3. QED
      BY <2>3, <3>1, <3>2, IdleIsNoJob
  <2>5. CASE GiveUp(r)
    <3>1. Kept /\ logged \subseteq logged'
      BY <2>5 DEF GiveUp, tableVars
    <3>2. CASE running[r].id = i /\ running[r].content = rows[i].content
      <4>1. i \in logged'
        BY <1>2, <2>1, <2>5, <3>1, <3>2 DEF GiveUp
      <4>2. QED
        BY <4>1 DEF Accounted
    <3>3. QED
      BY <2>3, <3>1, <3>2
  <2>6. CASE WriteBack(r)
    <3>1. logged' = logged
      BY <2>6 DEF WriteBack, reports
    <3>2. SetVector(running[r].id, running[r].content, running[r].content)
      BY <1>1, <2>6 DEF WriteBack, JobsConsistent
    <3>3. running[r].content # NoVec
      BY <2>2, TableAssumption DEF Running
    <3>4. Kept /\ ~(running[r].id = i /\ running[r].content = rows[i].content)
      <4>1. CASE Pending(running[r].id) /\ rows[running[r].id].content = running[r].content
        <5>1. running[r].id \in Ids /\ rows[running[r].id] \in Row
          BY <1>1, <2>2, <4>1 DEF Running, Pending, TypeOK, TableTypeOK
        <5>2. rows'[running[r].id].vec = running[r].content
          BY <1>1, <3>2, <4>1, <5>1 DEF SetVector, TypeOK, TableTypeOK, Row
        <5>3. i # running[r].id
          BY <3>3, <5>2 DEF Pending
        <5>4. Kept
          BY <1>1, <3>2, <4>1, <5>3 DEF SetVector, TypeOK, TableTypeOK
        <5>5. QED
          BY <5>3, <5>4
      <4>2. CASE ~(Pending(running[r].id) /\ rows[running[r].id].content = running[r].content)
        <5>1. Kept
          BY <3>2, <4>2 DEF SetVector
        <5>2. QED
          BY <1>2, <4>2, <5>1
      <4>3. QED
        BY <4>1, <4>2
    <3>5. QED
      BY <2>3, <3>1, <3>4
  <2>7. QED
    BY <1>10, <2>4, <2>5, <2>6 DEF RunStep, EmbedGiveUp, WriteBackFail
<1>11. CASE BackfillStep
  <2>1. Kept /\ ~closed
    BY <1>11 DEF BackfillStep, BackfillScan, BackfillFail, BackfillEnqueue, BackfillDone, tableVars
  <2>2. CASE BackfillScan
    <3>1. JobFor(i) \in backlog' /\ JobFor(i)' = JobFor(i)
      BY <1>2, <2>1, <2>2 DEF BackfillScan, JobFor
    <3>2. QED
      BY <3>1 DEF Accounted, Carried
  <2>3. CASE BackfillFail
    BY <1>2, <2>1, <2>3 DEF BackfillFail, Accounted
  <2>4. CASE BackfillEnqueue
    <3>1. PICK job \in Job : Enqueue(job) /\ backlog' = backlog \ {job}
      BY <1>1, <2>4 DEF BackfillEnqueue, TypeOK
    <3>2. UNCHANGED <<inHand, backfill, logged, errored>>
      BY <2>4 DEF BackfillEnqueue, reports
    <3>3. /\ Queued(job)' \/ OnRunner(job)'
          /\ \A k \in Job : Queued(k) => Queued(k)'
          /\ \A k \in Job : OnRunner(k) => OnRunner(k)'
      BY <1>1, <2>1, <3>1, EnqueueCarries
    <3>4. PICK row \in Job : row = JobFor(i) /\ row = JobFor(i)'
      BY <1>2, <2>1
    <3>5. Carried(row) => Carried(row)'
      BY <3>1, <3>2, <3>3 DEF Carried, InHand
    <3>6. Carried(JobFor(i)) => Carried(JobFor(i))'
      BY <3>4, <3>5 DEF Carried, Queued, OnRunner, InHand
    <3>7. QED
      BY <1>1, <1>2, <2>1, <3>2, <3>6, CarriedKept
  <2>5. CASE BackfillDone
    <3>1. Accounted(i) /\ JobFor(i)' = JobFor(i) /\ backfill # "scan"
      BY <1>1, <1>2, <2>1, <2>5 DEF BackfillDone
    <3>2. UNCHANGED <<same, logged, errored>>
      BY <2>5 DEF BackfillDone, pipeline, reports
    <3>3. QED
      BY <3>1, <3>2 DEF Accounted, Carried, Queued, OnRunner, InHand
  <2>6. QED
    BY <1>11, <2>2, <2>3, <2>4, <2>5 DEF BackfillStep
<1>12. CASE Close
  BY <1>12 DEF Close
<1>13. CASE Restart
  BY <1>13 DEF Restart, Accounted
<1>14. CASE UNCHANGED vars
  BY <1>3, <1>14 DEF vars, tableVars, pipeline, startup, reports
<1>15. QED
  BY <1>4, <1>5, <1>6, <1>7, <1>8, <1>9, <1>10, <1>11, <1>12, <1>13, <1>14 DEF Next

\* No rows, no jobs.
LEMMA StoreInitInv == Init => StoreInv
<1> SUFFICES ASSUME Init PROVE StoreInv
  OBVIOUS
<1>1. TypeOK
  BY StoreInitType
<1>2. JobsConsistent
  BY DEF Init, TableInit, JobsConsistent, Embedded, Open
<1>3. PendingAccountedFor
  BY DEF Init, TableInit, PendingAccountedFor, Pending
<1>4. QED
  BY <1>1, <1>2, <1>3 DEF StoreInv

\* The three together are inductive.
LEMMA StoreNextInv == StoreInv /\ [Next]_vars => StoreInv'
  BY StoreNextType, NextJobsConsistent, NextPendingAccounted DEF StoreInv

\* The store's inductive invariant: well-formed jobs whose vectors are those of
\* their contents, requests that do one thing at a time, and no pending row
\* forgotten.
THEOREM StoreInvariant == Spec => []StoreInv
  BY StoreInitInv, StoreNextInv, PTL DEF Spec

\* Jobs and queue keep their kinds, and the queue never exceeds its capacity.
THEOREM StoreTypeCorrect == Spec => []TypeOK
<1>1. StoreInv => TypeOK
  BY DEF StoreInv
<1>2. QED
  BY <1>1, StoreInvariant, PTL

\* While the store is open, a memory without a vector has a job for its current
\* content somewhere, or the log or the request was told that it has none.
THEOREM NoPendingRowForgotten == Spec => []PendingAccountedFor
<1>1. StoreInv => PendingAccountedFor
  BY DEF StoreInv
<1>2. QED
  BY <1>1, StoreInvariant, PTL

\* The store implements MemoryTable: its goroutines touch the tables only
\* through the statements described there.
THEOREM StoreDrivesTable == Spec => DrivesTable
<1>1. Init => TableInit
  BY DEF Init
<1>2. StoreInv /\ [Next]_vars => [TableNext]_tableVars
  BY StepDrivesTable DEF StoreInv
<1>3. QED
  BY <1>1, <1>2, StoreInvariant, PTL DEF Spec, TableSpec, DrivesTable

\* Hence the store, with its queue, its retries, its backfill and its crashes,
\* never leaves a vector of an earlier content on a row.
THEOREM StoreVectorsAreFresh == Spec => []EmbeddingFresh
  BY StoreDrivesTable, VectorsAreFresh, PTL DEF DrivesTable

\* And it keeps the promises of MemoryLifecycle.
THEOREM StoreImplementsLifecycle == Spec => ImplementsLifecycle
  BY StoreDrivesTable, TablesImplementLifecycle, PTL DEF DrivesTable

\* Nor does it hold more memories of a key than the cap and one for each other
\* caller, whatever its goroutines do.
THEOREM StoreCapBounded == Spec => []CapPlusWriters
  BY StoreDrivesTable, CapOverrunBounded, PTL DEF DrivesTable

\* Hence no memory outlives its key.
THEOREM StoreRowsHaveKeys == Spec => []RowsHaveKeys
  BY StoreDrivesTable, NoRowOutlivesItsKey, PTL DEF DrivesTable

\* And a key's writes, edits and evictions leave the memories of others alone.
THEOREM StoreKeysAreIsolated == Spec => KeyIsolation
  BY StoreDrivesTable, KeysAreIsolated, PTL DEF DrivesTable

-----------------------------------------------------------------------------
(***************************************************************************)
(* Searches.                                                               *)
(***************************************************************************)
\* A search reads; whatever it does, the tables move by their own steps only.
THEOREM SearchesOnlyRead == SearchSpec => TableSpec
<1>1. SearchInit => TableInit
  BY DEF SearchInit
<1>2. [SearchNext]_searchVars => [TableNext]_tableVars
  BY DEF SearchNext, Search, searchVars, tableVars
<1>3. QED
  BY <1>1, <1>2, PTL DEF SearchSpec, TableSpec

(***************************************************************************)
(* What an arm may have in hand: a mark, or hits each of one version.      *)
(***************************************************************************)
Sound(h) == h.score = h.content
Versions == [id : Ids, content : Contents, score : Contents, source : {"vector", "keyword"}]
Lists == UNION {[1 .. n -> {v \in Versions : Sound(v)}] : n \in Nat}
ArmHolds == {Asking, QueryReady, Failed} \cup Lists
Underway == [pc : {"searching"}, key : Keys, vector : ArmHolds, keyword : ArmHolds]

SearchInv ==
  /\ search.pc = "searching" => search \in Underway
  /\ search.pc = "answered" => search.vector \in ArmHolds /\ search.keyword \in ArmHolds
  /\ NoHalfAnswer

\* A row compared by its vector has a vector, and it is that of its content.
LEMMA VectorsSound ==
  ASSUME TableTypeOK, EmbeddingFresh, NEW k \in Keys, NEW hits \in vectorSearch(k)
  PROVE  hits \in Lists
<1> DEFINE S == {i \in RowsOf(k) : rows[i].vec # NoVec /\ Similarity[rows[i].vec] >= MinScore}
           vec == [i \in S |-> rows[i].vec]
           near == [i \in S |-> Similarity[vec[i]]]
<1>0. PICK reached \in SUBSET S : \E ids \in Top(reached, near) : hits = Found(ids, vec, "vector")
  BY DEF vectorSearch
<1>1. PICK ids \in Top(reached, near) : hits = Found(ids, vec, "vector")
  BY <1>0
<1>2. PICK n \in Nat : ids \in [1 .. n -> reached]
  <2>1. IsFiniteSet(reached)
    BY IdsFinite, FS_Subset DEF RowsOf
  <2>2. Cardinality(reached) \in Nat /\ fetch \in Nat
    BY <2>1, FS_CardinalityType, SearchAssumption DEF fetch
  <2>3. QED
    BY <1>1, <2>2 DEF Top
<1>3. \A m \in 1 .. n : /\ ids[m] \in Ids
                        /\ rows[ids[m]] \in Row /\ rows[ids[m]].vec # NoVec
                        /\ vec[ids[m]] = rows[ids[m]].vec
  BY <1>2 DEF RowsOf, TableTypeOK
<1>4. \A m \in 1 .. n : rows[ids[m]].vec = rows[ids[m]].content /\ rows[ids[m]].content \in Contents
  BY <1>3, TableAssumption DEF EmbeddingFresh, Row
<1>5. hits = [m \in 1 .. n |-> Hit(ids[m], vec[ids[m]], "vector")]
  BY <1>1, <1>2 DEF Found
<1>6. \A m \in 1 .. n : Hit(ids[m], vec[ids[m]], "vector") \in Versions /\ Sound(Hit(ids[m], vec[ids[m]], "vector"))
  BY <1>3, <1>4 DEF Versions, Hit, Sound
<1>7. hits \in [1 .. n -> {v \in Versions : Sound(v)}]
  BY <1>5, <1>6
<1>8. QED
  BY <1>2, <1>7 DEF Lists

\* A row matched by its words is scored by those words.
LEMMA KeywordsSound ==
  ASSUME TableTypeOK, NEW k \in Keys, NEW hits \in keywordSearch(k)
  PROVE  hits \in Lists
<1> DEFINE S == {i \in RowsOf(k) : rows[i].content \in DOMAIN Matches}
           text == [i \in S |-> rows[i].content]
<1>1. PICK ids \in Top(S, [i \in S |-> Matches[text[i]]]) : hits = Found(ids, text, "keyword")
  BY DEF keywordSearch
<1>2. PICK n \in Nat : ids \in [1 .. n -> S]
  <2>1. IsFiniteSet(S)
    BY IdsFinite, FS_Subset DEF RowsOf
  <2>2. Cardinality(S) \in Nat /\ fetch \in Nat
    BY <2>1, FS_CardinalityType, SearchAssumption DEF fetch
  <2>3. QED
    BY <1>1, <2>2 DEF Top
<1>3. \A m \in 1 .. n : /\ ids[m] \in Ids
                        /\ rows[ids[m]] \in Row
                        /\ text[ids[m]] = rows[ids[m]].content
  BY <1>2 DEF RowsOf, TableTypeOK
<1>4. \A m \in 1 .. n : rows[ids[m]].content \in Contents
  BY <1>3 DEF Row
<1>5. hits = [m \in 1 .. n |-> Hit(ids[m], text[ids[m]], "keyword")]
  BY <1>1, <1>2 DEF Found
<1>6. \A m \in 1 .. n : Hit(ids[m], text[ids[m]], "keyword") \in Versions /\ Sound(Hit(ids[m], text[ids[m]], "keyword"))
  BY <1>3, <1>4 DEF Versions, Hit, Sound
<1>7. hits \in [1 .. n -> {v \in Versions : Sound(v)}]
  BY <1>5, <1>6
<1>8. QED
  BY <1>2, <1>7 DEF Lists

\* An arm takes what its snapshot shows, and later steps leave it in hand.
LEMMA SearchInvNext ==
  ASSUME TableTypeOK, EmbeddingFresh, SearchInv, [SearchNext]_searchVars
  PROVE  SearchInv'
<1> USE DEF ArmHolds
<1>1. ASSUME NEW k \in Keys, Ask(k)
      PROVE  SearchInv'
  BY <1>1 DEF Ask, SearchInv, Underway, NoHalfAnswer
<1>2. ASSUME search.pc = "searching", NEW arm \in Arms, NEW x \in ArmHolds,
             search' = [search EXCEPT ![arm] = x]
      PROVE  SearchInv'
  <2>1. search' \in Underway
    BY <1>2 DEF SearchInv, Underway, Arms
  <2>2. QED
    BY <2>1 DEF SearchInv, Underway, NoHalfAnswer
<1>3. ASSUME search.pc = "searching", NEW hits, Answer(hits), Erred => hits = Failed
      PROVE  SearchInv'
  BY <1>3 DEF Answer, Erred, Arms, SearchInv, Underway, NoHalfAnswer
<1>4. CASE EmbedQuery
  BY <1>2, <1>4 DEF EmbedQuery, Busy, Arms
<1>5. CASE VectorArm
  <2>1. PICK hits \in vectorSearch(search.key) : search' = [search EXCEPT !.vector = hits]
    BY <1>5 DEF VectorArm
  <2>2. search.pc = "searching" /\ search.key \in Keys
    BY <1>5 DEF VectorArm, Busy, SearchInv, Underway
  <2>3. hits \in Lists
    BY <2>1, <2>2, VectorsSound
  <2>4. QED
    BY <1>2, <2>1, <2>2, <2>3 DEF Arms
<1>6. CASE KeywordArm
  <2>1. PICK hits \in keywordSearch(search.key) : search' = [search EXCEPT !.keyword = hits]
    BY <1>6 DEF KeywordArm
  <2>2. search.pc = "searching" /\ search.key \in Keys
    BY <1>6 DEF KeywordArm, Busy, SearchInv, Underway
  <2>3. hits \in Lists
    BY <2>1, <2>2, KeywordsSound
  <2>4. QED
    BY <1>2, <2>1, <2>2, <2>3 DEF Arms
<1>7. ASSUME NEW arm \in Arms, ArmFails(arm) \/ Cancelled(arm)
      PROVE  SearchInv'
  BY <1>2, <1>7 DEF ArmFails, Cancelled, Busy
<1>8. CASE WaitErr
  BY <1>3, <1>8 DEF WaitErr, Done
<1>9. CASE Wait
  <2>1. PICK hits \in fuse(HitsOf("vector"), HitsOf("keyword")) : Answer(Cut(hits))
    BY <1>9 DEF Wait
  <2>2. QED
    BY <1>3, <1>9, <2>1 DEF Wait, Done
<1>10. CASE Return
  BY <1>10 DEF Return, NoSearch, SearchInv, NoHalfAnswer
<1>11. CASE UNCHANGED search
  BY <1>11 DEF SearchInv, NoHalfAnswer
<1>12. QED
  BY <1>1, <1>4, <1>5, <1>6, <1>7, <1>8, <1>9, <1>10, <1>11 DEF SearchNext, Search, searchVars

\* The inductive invariant: what the arms have in hand is sound, and half an
\* answer is none.
THEOREM SearchInvariant == SearchSpec => []SearchInv
<1>1. SearchInit => SearchInv
  BY DEF SearchInit, SearchInv, NoSearch, NoHalfAnswer
<1>2. TableTypeOK /\ EmbeddingFresh /\ SearchInv /\ [SearchNext]_searchVars => SearchInv'
  BY SearchInvNext
<1>3. QED
  BY <1>1, <1>2, SearchesOnlyRead, TableTypeCorrect, VectorsAreFresh, PTL DEF SearchSpec

\* What an arm has found shows one version of each memory, the one it was
\* scored by, however edits and late vectors interleave with the search.
ArmsSound ==
  search.pc = "searching" =>
    \A arm \in Arms : search[arm] \in {Asking, QueryReady, Failed}
                   \/ \A n \in DOMAIN search[arm] : Sound(search[arm][n])

\* What an arm has in hand stays what its snapshot showed, until the answer.
THEOREM ArmsFindOneVersion == SearchSpec => []ArmsSound
<1>1. SearchInv => ArmsSound
  BY DEF SearchInv, Underway, ArmHolds, Lists, Arms, ArmsSound
<1>2. QED
  BY <1>1, SearchInvariant, PTL

\* A search one arm of which failed is never answered from the other alone.
THEOREM HalfAnswersNeverGiven == SearchSpec => []NoHalfAnswer
<1>1. SearchInv => NoHalfAnswer
  BY DEF SearchInv
<1>2. QED
  BY <1>1, SearchInvariant, PTL

(***************************************************************************)
(* The fused ranks are fractions, compared by their cross products.        *)
(***************************************************************************)
Positive == Nat \ {0}
Fraction == Positive \X Positive

\* Products grow with a factor, and shrink with it.
LEMMA ScaleUp ==
  ASSUME NEW a \in Nat, NEW b \in Nat, NEW c \in Nat, a <= b
  PROVE  a * c <= b * c
  OBVIOUS

\* A common factor may be dropped.
LEMMA ScaleDown ==
  ASSUME NEW a \in Nat, NEW b \in Nat, NEW c \in Positive, a * c <= b * c
  PROVE  a <= b
  BY DEF Positive

\* The arithmetic of positive factors.
LEMMA Products ==
  ASSUME NEW a \in Positive, NEW b \in Positive
  PROVE  a * b \in Positive
  BY DEF Positive

\* Factors may change places.
LEMMA Swap ==
  ASSUME NEW a \in Nat, NEW b \in Nat, NEW c \in Nat
  PROVE  (a * b) * c = (a * c) * b /\ a * b \in Nat /\ a * b = b * a
  OBVIOUS

\* A fraction is not the larger one when its cross product is not.
LEMMA NotMore ==
  ASSUME NEW p \in Fraction, NEW q \in Fraction
  PROVE ~More(p, q) <=> p[1] * q[2] <= q[1] * p[2]
  BY Swap DEF More, Fraction, Positive

\* The order of the fused ranks is an order: nothing is larger by way of others.
LEMMA NotMoreTransitive ==
  ASSUME NEW p \in Fraction, NEW q \in Fraction, NEW r \in Fraction,
         ~More(p, q), ~More(q, r)
  PROVE  ~More(p, r)
<1> DEFINE a == p[1]
           b == p[2]
           c == q[1]
           d == q[2]
           e == r[1]
           f == r[2]
<1>0. a \in Nat /\ b \in Nat /\ c \in Nat /\ d \in Nat /\ e \in Nat /\ f \in Nat /\ d \in Positive
  BY DEF Fraction, Positive
<1>1. a * d <= c * b /\ c * f <= e * d
  BY NotMore
<1> HIDE DEF a, b, c, d, e, f
<1>2. (a * d) * f <= (c * b) * f
  BY <1>0, <1>1, ScaleUp, Swap
<1>3. (c * f) * b <= (e * d) * b
  BY <1>0, <1>1, ScaleUp, Swap
<1>4. (a * f) * d <= (e * b) * d
  <2>1. (a * d) * f = (a * f) * d /\ (c * b) * f = (c * f) * b /\ (e * d) * b = (e * b) * d
    BY <1>0, Swap
  <2>2. (a * f) * d \in Nat /\ (c * f) * b \in Nat /\ (e * b) * d \in Nat
    BY <1>0, Swap
  <2> QED
    BY <1>2, <1>3, <2>1, <2>2
<1>5. a * f <= e * b
  BY <1>0, <1>4, ScaleDown, Swap
<1> QED
  BY <1>5, NotMore DEF a, b, c, d, e, f

\* No two fractions are more than each other.
LEMMA NotBoth ==
  ASSUME NEW p \in Fraction, NEW q \in Fraction, More(p, q)
  PROVE  ~More(q, p)
<1> DEFINE x == p[1] * q[2]
           y == q[1] * p[2]
<1>1. x \in Nat /\ y \in Nat
  BY DEF Fraction, Positive
<1>2. x > y
  BY DEF More
<1> HIDE DEF x, y
<1>3. ~(y > x)
  BY <1>1, <1>2
<1> QED
  BY <1>3 DEF More, x, y

(***************************************************************************)
(* The sort.  Its turns are followed by induction: a set of numbers that has *)
(* 0 and each next one has them all, because no number is the least without. *)
(***************************************************************************)
LEMMA SetInduction ==
  ASSUME NEW S, 0 \in S, \A n \in Nat : n \in S => n + 1 \in S
  PROVE  Nat \subseteq S
<1> DEFINE T == Nat \ S
<1> SUFFICES ASSUME T # {} PROVE FALSE
  OBVIOUS
<1>1. PICK x \in T : \A y \in T : <<y, x>> \notin OpToRel(<, Nat)
  BY WFMin, NatLessThanWellFounded
<1>2. \A y \in T : ~(y < x)
  BY <1>1 DEF OpToRel
<1>3. x # 0
  OBVIOUS
<1>4. x - 1 \in Nat /\ x - 1 < x /\ (x - 1) + 1 = x
  BY <1>3
<1>5. QED
  BY <1>2, <1>4

\* A set of places in a list has a last one.
LEMMA HasGreatest ==
  ASSUME NEW L \in Nat, NEW T \in SUBSET (1 .. L), T # {}
  PROVE  \E m \in T : \A k \in T : k <= m
<1> DEFINE U == {L - k : k \in T}
<1>1. U \subseteq Nat /\ U # {}
  <2>1. \A k \in T : k \in 1 .. L
    OBVIOUS
  <2>2. \A k \in T : L - k \in Nat
    BY <2>1
  <2>3. PICK k \in T : TRUE
    OBVIOUS
  <2> QED
    BY <2>2, <2>3
<1>2. PICK u \in U : \A v \in U : <<v, u>> \notin OpToRel(<, Nat)
  BY <1>1, WFMin, NatLessThanWellFounded
<1>3. PICK m \in T : u = L - m
  BY <1>2
<1>4. ASSUME NEW k \in T PROVE k <= m
  <2>1. L - k \in U /\ L - k \in Nat /\ u \in Nat
    BY <1>1
  <2>2. ~(L - k < u)
    BY <1>2, <2>1 DEF OpToRel
  <2> QED
    BY <1>3, <2>1, <2>2
<1> QED
  BY <1>4

\* What a list is after an insertion, place by place.
LEMMA Inserted ==
  ASSUME NEW T, NEW s \in Seq(T), NEW e \in T, NEW at \in 0 .. Len(s)
  PROVE  /\ InsertAt(s, at + 1, e) \in Seq(T)
         /\ Len(InsertAt(s, at + 1, e)) = Len(s) + 1
         /\ \A n \in 1 .. Len(s) + 1 :
              InsertAt(s, at + 1, e)[n] = IF n <= at THEN s[n] ELSE IF n = at + 1 THEN e ELSE s[n - 1]
<1> DEFINE L == Len(s)
           a == SubSeq(s, 1, at)
           b == SubSeq(s, at + 1, L)
           ab == a \o <<e>>
<1>1. L \in Nat /\ at \in 0 .. L /\ \A n \in 1 .. L : s[n] \in T
  OBVIOUS
<1>2. InsertAt(s, at + 1, e) = ab \o b
  <2>1. (at + 1) - 1 = at
    BY <1>1
  <2> QED
    BY <2>1 DEF InsertAt
<1> HIDE DEF L
<1>3. a \in Seq(T) /\ Len(a) = at /\ \A n \in 1 .. at : a[n] = s[n]
  <2>1. /\ SubSeq(s, 1, at) \in Seq(T)
        /\ Len(SubSeq(s, 1, at)) = IF 1 <= at THEN at - 1 + 1 ELSE 0
        /\ \A n \in 1 .. at - 1 + 1 : SubSeq(s, 1, at)[n] = s[1 + n - 1]
    BY <1>1, SubSeqProperties
  <2> QED
    BY <1>1, <2>1
<1>4. b \in Seq(T) /\ Len(b) = L - at /\ \A n \in 1 .. L - at : b[n] = s[at + n]
  <2>1. /\ SubSeq(s, at + 1, L) \in Seq(T)
        /\ Len(SubSeq(s, at + 1, L)) = IF at + 1 <= L THEN L - (at + 1) + 1 ELSE 0
        /\ \A n \in 1 .. L - (at + 1) + 1 : SubSeq(s, at + 1, L)[n] = s[(at + 1) + n - 1]
    BY <1>1, SubSeqProperties
  <2>2. \A n \in 1 .. L - at : n \in 1 .. L - (at + 1) + 1 /\ (at + 1) + n - 1 = at + n
    BY <1>1
  <2> QED
    BY <1>1, <2>1, <2>2
<1> HIDE DEF a, b
<1>5. ab \in Seq(T) /\ Len(ab) = at + 1 /\ \A n \in 1 .. at + 1 : ab[n] = IF n <= at THEN s[n] ELSE e
  <2>1. <<e>> \in Seq(T) /\ Len(<<e>>) = 1 /\ <<e>>[1] = e
    OBVIOUS
  <2>2. /\ ab \in Seq(T) /\ Len(ab) = Len(a) + 1
        /\ \A n \in 1 .. Len(a) + 1 : ab[n] = IF n <= Len(a) THEN a[n] ELSE <<e>>[n - Len(a)]
    BY <1>3, <2>1, ConcatProperties
  <2>3. ASSUME NEW n \in 1 .. at + 1 PROVE ab[n] = IF n <= at THEN s[n] ELSE e
    <3>1. CASE n <= at
      BY <1>1, <1>3, <2>2, <3>1
    <3>2. CASE ~(n <= at)
      <4>1. n - at = 1
        BY <1>1, <3>2
      <4> QED
        BY <1>1, <1>3, <2>1, <2>2, <3>2, <4>1
    <3> QED
      BY <3>1, <3>2
  <2> QED
    BY <1>3, <2>2, <2>3
<1> HIDE DEF ab
<1> DEFINE c == ab \o b
<1>6. /\ c \in Seq(T) /\ Len(c) = Len(ab) + Len(b)
      /\ \A n \in 1 .. Len(ab) + Len(b) : c[n] = IF n <= Len(ab) THEN ab[n] ELSE b[n - Len(ab)]
  BY <1>4, <1>5, ConcatProperties
<1> HIDE DEF c
<1>7. Len(c) = L + 1
  BY <1>1, <1>4, <1>5, <1>6
<1>8. ASSUME NEW n \in 1 .. L + 1 PROVE c[n] = IF n <= at THEN s[n] ELSE IF n = at + 1 THEN e ELSE s[n - 1]
  <2>1. c[n] = IF n <= at + 1 THEN ab[n] ELSE b[n - (at + 1)]
    BY <1>1, <1>4, <1>5, <1>6
  <2>2. CASE n <= at + 1
    BY <1>1, <1>5, <2>1, <2>2
  <2>3. CASE ~(n <= at + 1)
    <3>1. n - (at + 1) \in 1 .. L - at /\ at + (n - (at + 1)) = n - 1
      BY <1>1, <2>3
    <3>2. b[n - (at + 1)] = s[n - 1]
      BY <1>4, <3>1
    <3> QED
      BY <1>1, <2>1, <2>3, <3>2
  <2> QED
    BY <2>2, <2>3
<1> QED
  BY <1>2, <1>6, <1>7, <1>8 DEF c, L

Ordered(s, rrf) == \A j, k \in DOMAIN s : j < k => ~More(rrf[s[k]], rrf[s[j]])
Entries(s) == {s[n] : n \in DOMAIN s}

\* A turn keeps what is sorted in order: i stops at the last entry it does not
\* beat, which beats none of those ahead of it.
LEMMA Settled ==
  ASSUME NEW ids, NEW rrf \in [ids -> Fraction], NEW s \in Seq(ids), NEW i \in ids,
         Ordered(s, rrf)
  PROVE  /\ Settle(s, i, rrf) \in Seq(ids)
         /\ Len(Settle(s, i, rrf)) = Len(s) + 1
         /\ Ordered(Settle(s, i, rrf), rrf)
         /\ Entries(Settle(s, i, rrf)) = Entries(s) \cup {i}
<1> DEFINE stops == {j \in DOMAIN s : ~More(rrf[i], rrf[s[j]])}
           at == IF stops = {} THEN 0 ELSE CHOOSE j \in stops : \A k \in stops : k <= j
           L == Len(s)
           t == InsertAt(s, at + 1, i)
           beats(j, k) == More(rrf[j], rrf[k])
<1>1. Settle(s, i, rrf) = t
  BY DEF Settle
<1>2. L \in Nat /\ DOMAIN s = 1 .. L /\ \A n \in 1 .. L : s[n] \in ids
  OBVIOUS
<1>3. stops # {} => \E m \in stops : \A k \in stops : k <= m
  <2> stops \in SUBSET (1 .. L)
    BY <1>2
  <2> HIDE DEF stops, L
  <2> QED
    BY <1>2, HasGreatest
<1>4. at \in 0 .. L /\ (at # 0 => at \in stops) /\ \A k \in stops : k <= at
  <2> stops \subseteq 1 .. L
    BY <1>2
  <2> HIDE DEF stops, L
  <2>1. CASE stops = {}
    BY <1>2, <2>1
  <2>2. CASE stops # {}
    <3>1. at \in stops /\ \A k \in stops : k <= at
      BY <1>3, <2>2
    <3> HIDE DEF at
    <3> QED
      BY <1>2, <2>2, <3>1
  <2> QED
    BY <2>1, <2>2
<1> HIDE DEF at
<1>5. /\ t \in Seq(ids) /\ Len(t) = L + 1
      /\ \A n \in 1 .. L + 1 : t[n] = IF n <= at THEN s[n] ELSE IF n = at + 1 THEN i ELSE s[n - 1]
  BY <1>4, Inserted
<1>6. DOMAIN t = 1 .. L + 1
  BY <1>5
<1> HIDE DEF t
<1>7. \A j, k \in ids, h \in ids : ~beats(j, k) /\ ~beats(k, h) => ~beats(j, h)
  BY NotMoreTransitive
<1>8. \A j, k \in ids : beats(j, k) => ~beats(k, j)
  BY NotBoth
<1>9. \A j, k \in 1 .. L : j < k => ~beats(s[k], s[j])
  BY <1>2 DEF Ordered
<1>10. at # 0 => at \in 1 .. L /\ ~beats(i, s[at])
  BY <1>2, <1>4
<1>11. \A k \in 1 .. L : k > at => beats(i, s[k])
  <2> TAKE k \in 1 .. L
  <2> HAVE k > at
  <2>1. k \notin stops
    BY <1>4
  <2> QED
    BY <1>2, <2>1
<1> HIDE DEF stops, beats, L
<1>12. \A n \in 1 .. at : n \in 1 .. L /\ s[n] \in ids /\ ~beats(i, s[n])
  <2> TAKE n \in 1 .. at
  <2>1. n \in 1 .. L /\ at \in 1 .. L /\ s[n] \in ids /\ s[at] \in ids /\ ~beats(i, s[at])
    BY <1>2, <1>4, <1>10
  <2>2. n = at \/ n < at
    BY <1>4
  <2>3. n < at => ~beats(s[at], s[n])
    BY <1>9, <2>1
  <2> QED
    BY <1>7, <2>1, <2>2, <2>3
<1>13. \A n \in 1 .. L : n > at => s[n] \in ids /\ ~beats(s[n], i)
  BY <1>2, <1>8, <1>11
<1>14. \A j, k \in 1 .. L + 1 : j < k => ~beats(t[k], t[j])
  <2> TAKE j, k \in 1 .. L + 1
  <2> HAVE j < k
  <2>0. /\ t[j] = IF j <= at THEN s[j] ELSE IF j = at + 1 THEN i ELSE s[j - 1]
        /\ t[k] = IF k <= at THEN s[k] ELSE IF k = at + 1 THEN i ELSE s[k - 1]
    BY <1>5
  <2>1. CASE k <= at
    <3>1. j \in 1 .. L /\ k \in 1 .. L /\ j <= at
      BY <1>2, <1>4, <2>1
    <3> QED
      BY <1>9, <2>0, <2>1, <3>1
  <2>2. CASE k = at + 1
    <3>1. j \in 1 .. at /\ ~(k <= at) /\ j <= at
      BY <1>4, <2>2
    <3> QED
      BY <1>12, <2>0, <2>2, <3>1
  <2>3. CASE k > at + 1
    <3>1. k - 1 \in 1 .. L /\ k - 1 > at /\ ~(k <= at) /\ k # at + 1
      BY <1>2, <1>4, <2>3
    <3>2. CASE j <= at
      <4>1. j \in 1 .. L /\ j < k - 1
        BY <1>2, <1>4, <3>1, <3>2
      <4> QED
        BY <1>9, <2>0, <3>1, <3>2, <4>1
    <3>3. CASE j = at + 1
      <4>1. ~(j <= at)
        BY <1>4, <3>3
      <4> QED
        BY <1>13, <2>0, <3>1, <3>3, <4>1
    <3>4. CASE j > at + 1
      <4>1. ~(j <= at) /\ j # at + 1 /\ j - 1 \in 1 .. L /\ j - 1 < k - 1
        BY <1>2, <1>4, <3>4
      <4> QED
        BY <1>9, <2>0, <3>1, <4>1
    <3> QED
      BY <1>4, <3>2, <3>3, <3>4
  <2> QED
    BY <1>4, <2>1, <2>2, <2>3
<1>15. Entries(t) = Entries(s) \cup {i}
  <2>1. ASSUME NEW n \in 1 .. L + 1 PROVE t[n] \in Entries(s) \cup {i}
    <3>1. n <= at => n \in 1 .. L
      BY <1>2, <1>4
    <3>2. ~(n <= at) /\ n # at + 1 => n - 1 \in 1 .. L
      BY <1>2, <1>4
    <3> QED
      BY <1>2, <1>5, <3>1, <3>2 DEF Entries
  <2>2. ASSUME NEW n \in 1 .. L PROVE s[n] \in Entries(t)
    <3>1. CASE n <= at
      <4>1. n \in 1 .. L + 1 /\ t[n] = s[n]
        BY <1>2, <1>5, <3>1
      <4> QED
        BY <1>6, <4>1 DEF Entries
    <3>2. CASE ~(n <= at)
      <4>1. n + 1 \in 1 .. L + 1 /\ ~(n + 1 <= at) /\ n + 1 # at + 1 /\ (n + 1) - 1 = n
        BY <1>2, <1>4, <3>2
      <4>2. t[n + 1] = s[n]
        BY <1>5, <4>1
      <4> QED
        BY <1>6, <4>1, <4>2 DEF Entries
    <3> QED
      BY <3>1, <3>2
  <2>3. i \in Entries(t)
    <3>1. at + 1 \in 1 .. L + 1 /\ ~(at + 1 <= at)
      BY <1>2, <1>4
    <3>2. t[at + 1] = i
      BY <1>5, <3>1
    <3> QED
      BY <1>6, <3>1, <3>2 DEF Entries
  <2> QED
    BY <1>2, <1>6, <2>1, <2>2, <2>3 DEF Entries
<1>16. Ordered(t, rrf)
  BY <1>6, <1>14 DEF Ordered, beats
<1> QED
  BY <1>1, <1>5, <1>15, <1>16 DEF L

\* The sort's definition is recursive; such a function exists.
LEMMA Unfold ==
  ASSUME NEW out, NEW rrf, Len(out) \in Nat
  PROVE  \E turn : /\ turn = [n \in 0 .. Len(out) |-> IF n = 0 THEN <<>> ELSE Settle(turn[n - 1], out[n], rrf)]
                   /\ Sorted(out, rrf) = turn[Len(out)]
<1> DEFINE L == Len(out)
           G(m, g) == g = [n \in 0 .. m |-> IF n = 0 THEN <<>> ELSE Settle(g[n - 1], out[n], rrf)]
           S == {m \in Nat : \E g : G(m, g)}
<1>1. 0 \in S
  <2>1. G(0, [n \in 0 .. 0 |-> <<>>])
    OBVIOUS
  <2> QED
    BY <2>1
<1>2. ASSUME NEW m \in Nat, m \in S PROVE m + 1 \in S
  <2>1. PICK g : G(m, g)
    BY <1>2
  <2> DEFINE h == [n \in 0 .. m + 1 |-> IF n = m + 1 THEN Settle(g[m], out[m + 1], rrf) ELSE g[n]]
  <2>2. ASSUME NEW n \in 0 .. m + 1 PROVE h[n] = IF n = 0 THEN <<>> ELSE Settle(h[n - 1], out[n], rrf)
    <3>1. CASE n = m + 1
      <4>1. n # 0 /\ n - 1 = m /\ h[m] = g[m] /\ m \in 0 .. m + 1
        BY <3>1
      <4> QED
        BY <3>1, <4>1
    <3>2. CASE n # m + 1
      <4>1. n \in 0 .. m /\ h[n] = g[n]
        BY <3>2
      <4>2. n # 0 => n - 1 \in 0 .. m + 1 /\ n - 1 # m + 1 /\ h[n - 1] = g[n - 1]
        BY <4>1
      <4>3. g[n] = IF n = 0 THEN <<>> ELSE Settle(g[n - 1], out[n], rrf)
        BY <2>1, <4>1
      <4> QED
        BY <4>1, <4>2, <4>3
    <3> QED
      BY <3>1, <3>2
  <2>3. G(m + 1, h)
    <3> DEFINE rhs == [n \in 0 .. m + 1 |-> IF n = 0 THEN <<>> ELSE Settle(h[n - 1], out[n], rrf)]
    <3>1. DOMAIN h = 0 .. m + 1 /\ DOMAIN rhs = 0 .. m + 1 /\ \A n \in 0 .. m + 1 : h[n] = rhs[n]
      BY <2>2
    <3>2. h = [n \in 0 .. m + 1 |-> h[n]] 
      OBVIOUS
    <3>3. rhs = [n \in 0 .. m + 1 |-> rhs[n]] 
      OBVIOUS
    <3> HIDE DEF h, rhs
    <3>4. h = rhs
      BY <3>1, <3>2, <3>3
    <3> QED
      BY <3>4 DEF rhs
  <2> HIDE DEF G, h
  <2> QED
    BY <2>3
<1>3. L \in S
  <2> HIDE DEF S
  <2> QED
    BY <1>1, <1>2, SetInduction
<1> DEFINE turn == CHOOSE turn : G(L, turn)
<1>4. G(L, turn)
  <2> HIDE DEF G
  <2> QED
    BY <1>3
<1>5. Sorted(out, rrf) = turn[L]
  BY DEF Sorted
<1> HIDE DEF turn
<1> QED
  BY <1>4, <1>5

\* The sort ends with the entries in order, and loses and adds none: each turn
\* keeps the first n of them so.
LEMMA TurnsSort ==
  ASSUME NEW ids, NEW rrf \in [ids -> Fraction], NEW out \in Seq(ids)
  PROVE  /\ Sorted(out, rrf) \in Seq(ids)
         /\ Len(Sorted(out, rrf)) = Len(out)
         /\ Ordered(Sorted(out, rrf), rrf)
         /\ Entries(Sorted(out, rrf)) = Entries(out)
<1> DEFINE L == Len(out)
           upTo(n) == {out[m] : m \in 1 .. n}
<1>0. L \in Nat /\ DOMAIN out = 1 .. L /\ \A n \in 1 .. L : out[n] \in ids
  OBVIOUS
<1>1. PICK turn : /\ turn = [n \in 0 .. L |-> IF n = 0 THEN <<>> ELSE Settle(turn[n - 1], out[n], rrf)]
                  /\ Sorted(out, rrf) = turn[L]
  BY <1>0, Unfold
<1> DEFINE Good(n) == /\ turn[n] \in Seq(ids)
                      /\ Len(turn[n]) = n
                      /\ Ordered(turn[n], rrf)
                      /\ Entries(turn[n]) = upTo(n)
           S == {n \in Nat : n \in 0 .. L => Good(n)}
<1> HIDE DEF L
<1>2. turn[0] = <<>> /\ \A n \in 0 .. L : n + 1 \in 0 .. L => turn[n + 1] = Settle(turn[n], out[n + 1], rrf)
  <2>1. 0 \in 0 .. L
    BY <1>0
  <2>2. \A n \in 0 .. L : (n + 1) - 1 = n /\ n + 1 # 0
    BY <1>0
  <2> QED
    BY <1>1, <2>1, <2>2
<1>3. 0 \in S
  <2>1. <<>> \in Seq(ids) /\ Len(<<>>) = 0 /\ DOMAIN <<>> = {} /\ upTo(0) = {}
    OBVIOUS
  <2>2. Ordered(<<>>, rrf) /\ Entries(<<>>) = {}
    BY <2>1 DEF Ordered, Entries
  <2> HIDE DEF upTo
  <2> QED
    BY <1>2, <2>1, <2>2
<1>4. ASSUME NEW n \in Nat, n \in S
      PROVE  n + 1 \in S
  <2> SUFFICES ASSUME n + 1 \in 0 .. L PROVE Good(n + 1)
    OBVIOUS
  <2>1. n \in 0 .. L /\ n + 1 \in 1 .. L
    BY <1>0
  <2>2. Good(n)
    BY <1>4, <2>1
  <2>3. turn[n + 1] = Settle(turn[n], out[n + 1], rrf) /\ out[n + 1] \in ids
    BY <1>0, <1>2, <2>1
  <2>4. /\ turn[n + 1] \in Seq(ids)
        /\ Len(turn[n + 1]) = n + 1
        /\ Ordered(turn[n + 1], rrf)
        /\ Entries(turn[n + 1]) = upTo(n) \cup {out[n + 1]}
    <3> DEFINE t == turn[n]
               o == out[n + 1]
    <3>1. t \in Seq(ids) /\ Len(t) = n /\ Ordered(t, rrf) /\ Entries(t) = upTo(n)
      BY <2>2
    <3>2. o \in ids
      BY <2>3
    <3> HIDE DEF t, o, upTo
    <3>3. /\ Settle(t, o, rrf) \in Seq(ids)
          /\ Len(Settle(t, o, rrf)) = Len(t) + 1
          /\ Ordered(Settle(t, o, rrf), rrf)
          /\ Entries(Settle(t, o, rrf)) = Entries(t) \cup {o}
      BY <3>1, <3>2, Settled
    <3>4. turn[n + 1] = Settle(t, o, rrf)
      BY <2>3 DEF t, o
    <3> QED
      BY <3>1, <3>3, <3>4 DEF o
  <2>5. upTo(n + 1) = upTo(n) \cup {out[n + 1]}
    <3>1. \A m \in 1 .. n + 1 : m \in 1 .. n \/ m = n + 1
      OBVIOUS
    <3>2. \A m \in 1 .. n : m \in 1 .. n + 1
      OBVIOUS
    <3>3. n + 1 \in 1 .. n + 1
      OBVIOUS
    <3> QED
      BY <3>1, <3>2, <3>3
  <2> QED
    BY <2>4, <2>5
<1>5. L \in S
  <2> HIDE DEF S
  <2> QED
    BY <1>0, <1>3, <1>4, SetInduction
<1>6. Good(L)
  BY <1>0, <1>5
<1>7. upTo(L) = Entries(out)
  BY <1>0 DEF Entries
<1> HIDE DEF upTo
<1> QED
  BY <1>1, <1>6, <1>7 DEF L

(***************************************************************************)
(* What fuse makes of two lists.                                           *)
(***************************************************************************)
\* A hit as it is answered: of one arm, or of both.
Shown == [id : Ids, content : Contents, score : Contents, source : {"vector", "keyword", "both"}]

\* What fuse returns: the memories of either list, each once and in order.
Fused(V, W, hits) ==
  LET found == IdsOf(V) \cup IdsOf(W)
      rrf(i) == Rrf(V, W, i)
  IN  /\ hits \in Seq({h \in Shown : Sound(h)})
      /\ IdsOf(hits) = found
      /\ \A m, n \in 1 .. Len(hits) : m < n => /\ hits[m].id # hits[n].id
                                             /\ ~More(rrf(hits[n].id), rrf(hits[m].id))

\* An id a list has is found in it, at a rank that counts from 1.
LEMMA RankThere ==
  ASSUME NEW H \in Lists, NEW i \in IdsOf(H)
  PROVE  /\ RankOf(H, i) \in Positive
         /\ H[RankOf(H, i)] \in Versions /\ Sound(H[RankOf(H, i)])
         /\ H[RankOf(H, i)].id = i
<1>1. \E n \in DOMAIN H : H[n].id = i
  BY DEF IdsOf
<1>2. RankOf(H, i) \in DOMAIN H /\ H[RankOf(H, i)].id = i
  BY <1>1 DEF RankOf
<1>3. \E n \in Nat : H \in [1 .. n -> {v \in Versions : Sound(v)}]
  BY DEF Lists
<1>4. PICK n \in Nat : H \in [1 .. n -> {v \in Versions : Sound(v)}]
  BY <1>3
<1> QED
  BY <1>2, <1>4 DEF Positive

\* A fused rank is a fraction.
LEMMA RrfFraction ==
  ASSUME NEW V \in Lists, NEW W \in Lists, NEW i \in IdsOf(V) \cup IdsOf(W)
  PROVE  Rrf(V, W, i) \in Fraction
<1> DEFINE v == rrfK + RankOf(V, i)
           w == rrfK + RankOf(W, i)
<1>1. i \in IdsOf(V) => v \in Positive
  BY RankThere DEF Positive, rrfK
<1>2. i \in IdsOf(W) => w \in Positive
  BY RankThere DEF Positive, rrfK
<1>3. \A a, b \in Positive : <<a, b>> \in Fraction
  BY DEF Fraction
<1>4. CASE i \notin IdsOf(W)
  <2>1. Rrf(V, W, i) = <<1, v>>
    BY <1>4 DEF Rrf
  <2>2. 1 \in Positive /\ v \in Positive
    BY <1>1, <1>4 DEF Positive
  <2> HIDE DEF v
  <2> QED
    BY <1>3, <2>1, <2>2
<1>5. CASE i \in IdsOf(W) /\ i \notin IdsOf(V)
  <2>1. Rrf(V, W, i) = <<1, w>>
    BY <1>5 DEF Rrf
  <2>2. 1 \in Positive /\ w \in Positive
    BY <1>2, <1>5 DEF Positive
  <2> HIDE DEF w
  <2> QED
    BY <1>3, <2>1, <2>2
<1>6. CASE i \in IdsOf(W) /\ i \in IdsOf(V)
  <2>1. Rrf(V, W, i) = <<v + w, v * w>>
    BY <1>6 DEF Rrf
  <2>2. v \in Positive /\ w \in Positive
    BY <1>1, <1>2, <1>6
  <2> HIDE DEF v, w
  <2>3. v + w \in Positive
    BY <2>2 DEF Positive
  <2>4. v * w \in Positive
    BY <2>2, Products
  <2> QED
    BY <1>3, <2>1, <2>3, <2>4
<1> QED
  BY <1>4, <1>5, <1>6

\* Of two copies one is shown, with that one's score.
LEMMA MergedSound ==
  ASSUME NEW V \in Lists, NEW W \in Lists, NEW i \in IdsOf(V) \cup IdsOf(W)
  PROVE  Merged(V, W, i) \in Shown /\ Sound(Merged(V, W, i)) /\ Merged(V, W, i).id = i
<1>1. CASE i \notin IdsOf(V)
  <2>1. Merged(V, W, i) = W[RankOf(W, i)]
    BY <1>1 DEF Merged
  <2> QED
    BY <1>1, <2>1, RankThere DEF Versions, Shown, Sound
<1>2. CASE i \in IdsOf(V) /\ i \notin IdsOf(W)
  <2>1. Merged(V, W, i) = V[RankOf(V, i)]
    BY <1>2 DEF Merged
  <2> QED
    BY <1>2, <2>1, RankThere DEF Versions, Shown, Sound
<1>3. CASE i \in IdsOf(V) /\ i \in IdsOf(W)
  <2>1. Merged(V, W, i) = [V[RankOf(V, i)] EXCEPT !.source = "both"]
    BY <1>3 DEF Merged
  <2> DEFINE v == V[RankOf(V, i)]
  <2>2. v \in Versions /\ Sound(v) /\ v.id = i
    BY <1>3, RankThere
  <2> HIDE DEF v
  <2>3. [v EXCEPT !.source = "both"] \in Shown
    BY <2>2 DEF Versions, Shown
  <2> QED
    BY <2>1, <2>2, <2>3 DEF v, Versions, Shown, Sound
<1> QED
  BY <1>1, <1>2, <1>3

\* Whatever order the map is ranged over in.
LEMMA FuseOrders ==
  ASSUME NEW V \in Lists, NEW W \in Lists, NEW hits \in fuse(V, W)
  PROVE  Fused(V, W, hits)
<1> DEFINE ids == IdsOf(V) \cup IdsOf(W)
           rrf == [i \in ids |-> Rrf(V, W, i)]
           N == Cardinality(ids)
<1>1. IsFiniteSet(ids) /\ ids \subseteq Ids
  <2>1. ASSUME NEW H \in Lists PROVE IdsOf(H) \subseteq Ids
    BY RankThere DEF Versions
  <2>2. ids \subseteq Ids
    BY <2>1
  <2> QED
    BY <2>2, IdsFinite, FS_Subset
<1>2. N \in Nat
  BY <1>1, FS_CardinalityType
<1>3. IsFiniteSet(1 .. N) /\ Cardinality(1 .. N) = N
  BY <1>2, FS_Interval
<1>4. PICK out \in SetToSeqs(ids) :
        hits = [n \in DOMAIN Sorted(out, rrf) |-> Merged(V, W, Sorted(out, rrf)[n])]
  BY DEF fuse
<1>5. out \in [1 .. N -> ids] /\ \A m, n \in 1 .. N : m # n => out[m] # out[n]
  BY <1>4 DEF SetToSeqs
<1>6. rrf \in [ids -> Fraction]
  BY RrfFraction
<1>7. \A i \in ids : rrf[i] = Rrf(V, W, i)
  OBVIOUS
<1> HIDE DEF N, rrf
<1>8. out \in Seq(ids) /\ Len(out) = N /\ Entries(out) = ids
  <2>1. out \in Injection(1 .. N, ids)
    BY <1>5, Fun_IsInj
  <2>2. out \in Surjection(1 .. N, ids)
    BY <1>1, <1>3, <2>1, FS_Injection DEF N
  <2>3. \A i \in ids : \E n \in 1 .. N : out[n] = i
    <3> HIDE DEF ids
    <3> QED
      BY <2>2 DEF Surjection
  <2>4. out \in Seq(ids) /\ Len(out) = N
    BY <1>2, <1>5
  <2>5. DOMAIN out = 1 .. N
    BY <1>5
  <2> QED
    BY <1>5, <2>3, <2>4, <2>5 DEF Entries
<1> DEFINE order == Sorted(out, rrf)
<1>9. order \in Seq(ids) /\ Len(order) = N /\ Ordered(order, rrf) /\ Entries(order) = ids
  BY <1>6, <1>8, TurnsSort
<1> HIDE DEF order
<1>10. DOMAIN order = 1 .. N /\ order \in [1 .. N -> ids]
  BY <1>9
<1>11. \A i \in ids : \E n \in 1 .. N : order[n] = i
  BY <1>9, <1>10 DEF Entries
<1>12. \A m, n \in 1 .. N : order[m] = order[n] => m = n
  <2>1. order \in Surjection(1 .. N, ids)
    BY <1>10, <1>11, Fun_IsSurj
  <2>2. order \in Injection(1 .. N, ids)
    BY <1>3, <2>1, FS_SurjSameCardinalityImpliesInj DEF N
  <2> QED
    BY <2>2, Fun_InjectionProperties DEF Injection
<1>13. hits = [n \in 1 .. N |-> Merged(V, W, order[n])]
  BY <1>4, <1>10 DEF order
<1>14. \A n \in 1 .. N : hits[n] \in {h \in Shown : Sound(h)} /\ hits[n].id = order[n] /\ order[n] \in ids
  BY <1>10, <1>13, MergedSound
<1>15. hits \in Seq({h \in Shown : Sound(h)}) /\ Len(hits) = N /\ DOMAIN hits = 1 .. N
  BY <1>2, <1>13, <1>14
<1>16. IdsOf(hits) = ids
  <2>1. \A i \in ids : i \in IdsOf(hits)
    BY <1>11, <1>14, <1>15 DEF IdsOf
  <2>2. \A i \in IdsOf(hits) : i \in ids
    BY <1>14, <1>15 DEF IdsOf
  <2> HIDE DEF ids
  <2> QED
    BY <2>1, <2>2
<1>17. ASSUME NEW m \in 1 .. N, NEW n \in 1 .. N, m < n
       PROVE  /\ hits[m].id # hits[n].id
              /\ ~More(Rrf(V, W, hits[n].id), Rrf(V, W, hits[m].id))
  <2>1. m # n
    BY <1>2, <1>17
  <2>2. ~More(rrf[order[n]], rrf[order[m]])
    BY <1>9, <1>10, <1>17 DEF Ordered
  <2> QED
    BY <1>7, <1>12, <1>14, <2>1, <2>2
<1> HIDE DEF ids
<1>18. \A m, n \in 1 .. N : m < n => /\ hits[m].id # hits[n].id
                                  /\ ~More(Rrf(V, W, hits[n].id), Rrf(V, W, hits[m].id))
  BY <1>17
<1> QED
  BY <1>15, <1>16, <1>18 DEF Fused, ids

\* The limit cuts a sequence after its first so many, or not at all.
LEMMA CutShort ==
  ASSUME NEW T, NEW hits \in Seq(T)
  PROVE  /\ Cut(hits) \in Seq(T)
         /\ Len(Cut(hits)) <= Limit /\ Len(Cut(hits)) <= Len(hits)
         /\ Len(Cut(hits)) < Limit => Len(Cut(hits)) = Len(hits)
         /\ \A n \in 1 .. Len(Cut(hits)) : Cut(hits)[n] = hits[n]
<1> DEFINE L == Len(hits)
<1>1. L \in Nat /\ Limit \in Nat /\ \A n \in 1 .. L : hits[n] \in T
  BY SearchAssumption
<1> HIDE DEF L
<1>2. CASE L > Limit
  <2> DEFINE c == SubSeq(hits, 1, Limit)
  <2>1. Cut(hits) = c
    BY <1>2 DEF Cut, L
  <2>2. \A n \in 1 .. Limit : hits[n] \in T
    BY <1>1, <1>2
  <2>3. /\ c \in Seq(T)
        /\ Len(c) = IF 1 <= Limit THEN Limit - 1 + 1 ELSE 0
        /\ \A n \in 1 .. Limit - 1 + 1 : c[n] = hits[1 + n - 1]
    BY <1>1, <2>2, SubSeqProperties
  <2> HIDE DEF c
  <2>4. Len(c) = Limit
    BY <1>1, <2>3, SearchAssumption
  <2>5. \A n \in 1 .. Limit : c[n] = hits[n]
    <3> TAKE n \in 1 .. Limit
    <3>1. n \in 1 .. Limit - 1 + 1 /\ 1 + n - 1 = n
      BY <1>1
    <3> QED
      BY <2>3, <3>1
  <2> QED
    BY <1>1, <1>2, <2>1, <2>3, <2>4, <2>5 DEF L
<1>3. CASE ~(L > Limit)
  <2>1. Cut(hits) = hits
    BY <1>3 DEF Cut, L
  <2> QED
    BY <1>1, <1>3, <2>1 DEF L
<1> QED
  BY <1>2, <1>3

\* What g.Wait leaves to answer with: two lists, fused and cut.
LEMMA WaitAnswers ==
  ASSUME SearchInv, Wait
  PROVE  OneVersion' /\ BestFirst'
<1> DEFINE V == search.vector
           W == search.keyword
<1>1. V \in Lists /\ W \in Lists /\ HitsOf("vector") = V /\ HitsOf("keyword") = W
  <2>1. search \in Underway /\ ~Busy("vector") /\ ~Busy("keyword") /\ ~Erred /\ search.pc = "searching"
    BY DEF Wait, Done, Arms, SearchInv
  <2>2. V \in ArmHolds /\ W \in ArmHolds
    BY <2>1 DEF Underway
  <2>3. V \notin {Asking, QueryReady, Failed} /\ W \notin {Asking, QueryReady, Failed}
    BY <2>1 DEF Busy, Erred, Arms
  <2> QED
    BY <2>2, <2>3 DEF ArmHolds, HitsOf
<1>2. PICK hits \in fuse(V, W) : Answer(Cut(hits))
  BY <1>1 DEF Wait
<1>3. Fused(V, W, hits)
  BY <1>1, FuseOrders
<1> DEFINE c == Cut(hits)
           ids == IdsOf(V) \cup IdsOf(W)
           rrf(i) == Rrf(V, W, i)
           L == Len(hits)
           N == Len(c)
<1>4. /\ hits \in Seq({h \in Shown : Sound(h)}) /\ IdsOf(hits) = ids
      /\ \A m, n \in 1 .. L : m < n => hits[m].id # hits[n].id /\ ~More(rrf(hits[n].id), rrf(hits[m].id))
  BY <1>3 DEF Fused
<1>5. L \in Nat /\ DOMAIN hits = 1 .. L
  BY <1>4
<1>6. /\ c \in Seq({h \in Shown : Sound(h)})
      /\ N <= Limit /\ N <= L
      /\ N < Limit => N = L
      /\ \A n \in 1 .. N : c[n] = hits[n]
  BY <1>4, CutShort
<1>7. N \in Nat /\ DOMAIN c = 1 .. N /\ \A n \in 1 .. N : Sound(c[n])
  BY <1>6
<1>8. search'.hits = c /\ search'.vector = V /\ search'.keyword = W /\ search'.pc = "answered"
  BY <1>2 DEF Answer
<1> HIDE DEF c, V, W, L, N, rrf
<1>9. OneVersion'
  <2>1. Hits' = c \/ Hits' = <<>>
    BY <1>8 DEF Hits
  <2>2. DOMAIN <<>> = {}
    OBVIOUS
  <2> QED
    BY <1>7, <2>1, <2>2 DEF OneVersion, Sound
<1>10. \A n \in 1 .. N : n \in 1 .. L
  BY <1>5, <1>6, <1>7
<1>11. IdsOf(c) \subseteq ids
  BY <1>4, <1>5, <1>6, <1>7, <1>10 DEF IdsOf
<1>12. \A m, n \in 1 .. N : m < n => c[m].id # c[n].id /\ ~More(rrf(c[n].id), rrf(c[m].id))
  BY <1>4, <1>6, <1>10
<1>13. Cardinality(IdsOf(c)) = N
  <2> DEFINE f == [n \in 1 .. N |-> c[n].id]
  <2>1. f \in [1 .. N -> IdsOf(c)] /\ \A i \in IdsOf(c) : \E n \in 1 .. N : f[n] = i
    BY <1>7 DEF IdsOf
  <2>2. \A m, n \in 1 .. N : f[m] = f[n] => m = n
    <3> TAKE m, n \in 1 .. N
    <3>1. m < n \/ n < m \/ m = n
      BY <1>7
    <3> QED
      BY <1>12, <3>1
  <2> HIDE DEF f
  <2>3. f \in Bijection(1 .. N, IdsOf(c))
    BY <2>1, <2>2, Fun_IsBij
  <2>4. ExistsBijection(1 .. N, IdsOf(c))
    BY <2>3, Fun_ExistsBij
  <2>5. IsFiniteSet(1 .. N) /\ Cardinality(1 .. N) = N
    BY <1>7, FS_Interval
  <2> QED
    BY <2>4, <2>5, FS_Bijection
<1>14. N < Limit => IdsOf(c) = ids
  <2> HAVE N < Limit
  <2>1. N = L
    BY <1>6
  <2>2. DOMAIN c = DOMAIN hits /\ \A n \in DOMAIN c : c[n].id = hits[n].id
    BY <1>5, <1>6, <1>7, <2>1
  <2>3. IdsOf(c) = IdsOf(hits)
    BY <2>2 DEF IdsOf
  <2> QED
    BY <1>4, <2>3
<1>15. ASSUME NEW n \in 1 .. N, NEW i \in ids, i \notin IdsOf(c)
       PROVE  ~More(rrf(i), rrf(c[n].id))
  <2>1. PICK m \in 1 .. L : hits[m].id = i
    BY <1>4, <1>5, <1>15 DEF IdsOf
  <2>2. m \notin 1 .. N
    BY <1>6, <1>7, <1>15, <2>1 DEF IdsOf
  <2>3. n < m /\ n \in 1 .. L
    BY <1>5, <1>7, <1>10, <2>2
  <2> QED
    BY <1>4, <1>6, <2>1, <2>3
<1>16. ASSUME (search.hits # Failed)' PROVE BestFirst'
  <2>1. Hits' = c
    BY <1>8, <1>16 DEF Hits
  <2>2. /\ IdsOf(c) \subseteq ids
        /\ Cardinality(IdsOf(c)) = N
        /\ N <= Limit
        /\ N < Limit => IdsOf(c) = ids
        /\ \A m, n \in 1 .. N : m < n => ~More(rrf(c[n].id), rrf(c[m].id))
        /\ \A n \in 1 .. N : \A i \in ids \ IdsOf(c) : ~More(rrf(i), rrf(c[n].id))
    BY <1>6, <1>11, <1>12, <1>13, <1>14, <1>15
  <2> QED
    BY <1>7, <1>8, <2>1, <2>2 DEF BestFirst, rrf, N
<1> QED
  BY <1>9, <1>16 DEF BestFirst

\* Only Wait makes an answer, and it makes one in order of one version each.
LEMMA AnswersNext ==
  ASSUME SearchInv, OneVersion, BestFirst, [SearchNext]_searchVars
  PROVE  OneVersion' /\ BestFirst'
<1>1. CASE Wait
  BY <1>1, WaitAnswers
<1>2. CASE WaitErr
  <2>1. Hits' = <<>> /\ search'.hits = Failed /\ DOMAIN <<>> = {}
    BY <1>2 DEF WaitErr, Answer, Hits
  <2> QED
    BY <2>1 DEF OneVersion, BestFirst
<1>3. ASSUME (search.pc # "answered")' PROVE OneVersion' /\ BestFirst'
  <2>1. Hits' = <<>> /\ DOMAIN <<>> = {}
    BY <1>3 DEF Hits
  <2> QED
    BY <1>3, <2>1 DEF OneVersion, BestFirst
<1>4. ASSUME search.pc = "searching", NEW arm \in Arms, NEW x, search' = [search EXCEPT ![arm] = x]
      PROVE  (search.pc # "answered")'
  BY <1>4 DEF Arms, SearchInv, Underway
<1>5. ASSUME NEW k \in Keys, Ask(k) PROVE OneVersion' /\ BestFirst'
  BY <1>3, <1>5 DEF Ask
<1>6. CASE EmbedQuery \/ VectorArm \/ KeywordArm \/ \E arm \in Arms : ArmFails(arm) \/ Cancelled(arm)
  BY <1>3, <1>4, <1>6 DEF EmbedQuery, VectorArm, KeywordArm, ArmFails, Cancelled, Busy, Arms
<1>7. CASE Return
  BY <1>3, <1>7 DEF Return, NoSearch
<1>8. CASE UNCHANGED search
  BY <1>8 DEF OneVersion, BestFirst, Hits
<1> QED
  BY <1>1, <1>2, <1>5, <1>6, <1>7, <1>8 DEF SearchNext, Search, searchVars

\* What is answered, of an arm's own hits or of both arms', is sound and in order.
LEMMA AnswersInvariant == SearchSpec => [](OneVersion /\ BestFirst)
<1>1. SearchInit => OneVersion /\ BestFirst
  <2>1. DOMAIN <<>> = {}
    OBVIOUS
  <2>2. QED
    BY <2>1 DEF SearchInit, OneVersion, BestFirst, NoSearch, Hits
<1>2. SearchInv /\ OneVersion /\ BestFirst /\ [SearchNext]_searchVars => (OneVersion /\ BestFirst)'
  BY AnswersNext
<1>3. QED
  BY <1>1, <1>2, SearchInvariant, PTL DEF SearchSpec

\* A hit shows one version of its memory and the score of that version, though
\* the row was edited or embedded anew between the two arms' snapshots.
THEOREM AnswersShowOneVersion == SearchSpec => []OneVersion
  BY AnswersInvariant, PTL

\* An answer has what the arms found, each memory once, best fused rank first,
\* and the limit cuts off none that is better: for any order of the map.
THEOREM AnswersBestFirst == SearchSpec => []BestFirst
  BY AnswersInvariant, PTL

-----------------------------------------------------------------------------
(***************************************************************************)
(* Both: memory_search while requests, workers and backfill of the store   *)
(* go on.  To a search the end of the process is its arms' failure.        *)
(***************************************************************************)
BesideInit == Init /\ search = NoSearch
BesideNext == (Next /\ UNCHANGED search) \/ (Search /\ UNCHANGED vars)
BesideSpec == BesideInit /\ [][BesideNext]_<<vars, search>>

\* A search beside the store leaves the store's behaviour as it is.
LEMMA BesideIsStore == BesideSpec => Spec
<1>1. BesideInit => Init
  BY DEF BesideInit
<1>2. [BesideNext]_<<vars, search>> => [Next]_vars
  BY DEF BesideNext
<1>3. QED
  BY <1>1, <1>2, PTL DEF BesideSpec, Spec

\* The store is no more to a search than the tables in motion: a search beside
\* it is a search of MemorySearch.
THEOREM SearchesBesideTheStore == BesideSpec => SearchSpec
<1>1. BesideInit => SearchInit
  BY DEF BesideInit, Init, SearchInit
<1>2. StoreInv /\ [BesideNext]_<<vars, search>> => [SearchNext]_searchVars
  <2> SUFFICES ASSUME StoreInv, [BesideNext]_<<vars, search>> PROVE [SearchNext]_searchVars
    OBVIOUS
  <2>1. CASE Next /\ UNCHANGED search
    <3>1. [TableNext]_tableVars
      BY <2>1, StepDrivesTable DEF StoreInv
    <3>2. QED
      BY <2>1, <3>1 DEF SearchNext, searchVars, tableVars
  <2>2. CASE Search
    BY <2>2 DEF SearchNext
  <2>3. CASE UNCHANGED <<vars, search>>
    BY <2>3 DEF vars, tableVars, searchVars
  <2>4. QED
    BY <2>1, <2>2, <2>3 DEF BesideNext
<1>3. QED
  BY <1>1, <1>2, BesideIsStore, StoreInvariant, PTL DEF BesideSpec, SearchSpec

\* So answers are sound and in order beside the queue, the late vectors, the
\* evictions and the restarts of the real store, and not only beside single
\* statements.
THEOREM StoreAnswersSound == BesideSpec => [](OneVersion /\ BestFirst /\ NoHalfAnswer)
  BY SearchesBesideTheStore, AnswersShowOneVersion, AnswersBestFirst, HalfAnswersNeverGiven, PTL
=============================================================================
