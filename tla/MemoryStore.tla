---------------------------- MODULE MemoryStore ----------------------------
(***************************************************************************)
(* The memory store of internal/memory/store.go: the requests that write   *)
(* the tables of MemoryTable, and the goroutines that compute embeddings   *)
(* off the request path.                                                   *)
(*                                                                         *)
(* A request that stored or edited a row hands a job to a bounded queue,   *)
(* or to a goroutine of its own when the queue is full.  A worker asks the *)
(* embedder, a few times if it must, and writes the vector back under a    *)
(* guard.  A backfill at start re-enqueues the rows an earlier process     *)
(* left without a vector.  Closing the store abandons what is queued.      *)
(***************************************************************************)
EXTENDS MemoryTable, Sequences

CONSTANTS
  Workers,     \* embedWorker goroutines
  Detached,    \* bound: the goroutines enqueueEmbed may have spilled to
  QueueSize,   \* embedQueueSize
  Attempts,    \* embedAttempts
  MaxEdits,    \* bound: successful updates
  MaxRestarts, \* bound: process starts after the first
  Idle         \* a goroutine with nothing in hand

Runners == Workers \cup Detached
Job == [id : Ids, content : Contents]
Running == [id : Ids, content : Contents, tries : 1 .. Attempts,
            vec : Contents \cup {NoVec}]

ASSUME StoreAssumption ==
  /\ QueueSize \in Nat \ {0}
  /\ Attempts \in Nat \ {0}
  /\ MaxEdits \in Nat
  /\ MaxRestarts \in Nat
  /\ Idle \notin Running \cup Job

VARIABLES
  inHand,    \* the job a request enqueues before it returns, or Idle
  queue,     \* embedQ
  running,   \* the job each worker or detached goroutine runs, or Idle
  backfill,  \* the backfill goroutine: "scan", "enqueue" or "done"
  backlog,   \* the jobs its scan returned and it has not enqueued yet
  closed,    \* baseCtx is cancelled
  edits,     \* updates so far (bounded by MaxEdits)
  restarts,  \* restarts so far (bounded by MaxRestarts)
  logged,    \* history: pending rows whose last job gave up with a log line
  errored    \* history: pending rows whose committed write or edit came back
             \* to the request as an error

pipeline == <<queue, running>>
startup == <<backfill, backlog>>
bounds == <<edits, restarts>>
reports == <<logged, errored>>
vars == <<tableVars, inHand, pipeline, startup, closed, bounds, reports>>

Init ==
  /\ TableInit
  /\ inHand = [c \in Callers |-> Idle]
  /\ queue = << >>
  /\ running = [r \in Runners |-> Idle]
  /\ backfill = "scan"
  /\ backlog = {}
  /\ closed = FALSE
  /\ edits = 0
  /\ restarts = 0
  /\ logged = {}
  /\ errored = {}

(***************************************************************************)
(* enqueueEmbed: dropped when the store is closing, buffered when there is *)
(* room, otherwise run by a goroutine of its own.                          *)
(***************************************************************************)
Start(j) == [id |-> j.id, content |-> j.content, tries |-> 1, vec |-> NoVec]

\* Mutant of Enqueue: a full queue drops the job.
EnqueueOrDrop(j) ==
  /\ queue' = IF closed \/ Len(queue) = QueueSize THEN queue ELSE Append(queue, j)
  /\ UNCHANGED running

Enqueue(j) ==
  \/ /\ closed
     /\ UNCHANGED pipeline
  \/ /\ ~closed
     /\ Len(queue) < QueueSize
     /\ queue' = Append(queue, j)
     /\ UNCHANGED running
  \/ /\ ~closed
     /\ Len(queue) = QueueSize
     /\ \E d \in Detached :
          /\ running[d] = Idle
          /\ running' = [running EXCEPT ![d] = Start(j)]
     /\ UNCHANGED queue

(***************************************************************************)
(* Write.                                                                  *)
(***************************************************************************)
BeginWrite(c, k, x) ==
  /\ inHand[c] = Idle
  /\ Begin(c, k, x)
  /\ UNCHANGED <<inHand, pipeline, startup, closed, bounds, reports>>

EvictOldest(c) ==
  /\ Scan(c)
  /\ UNCHANGED <<inHand, pipeline, startup, closed, bounds, reports>>

CommitWrite(c) ==
  /\ Commit(c)
  /\ inHand' = [inHand EXCEPT ![c] = [id |-> tx[c].id, content |-> tx[c].content]]
  /\ UNCHANGED <<pipeline, startup, closed, bounds, reports>>

\* The commit took effect but tx.Commit returned an error (the connection
\* dropped, or the request's context ended first): Write returns it and
\* enqueues nothing.
CommitWriteLost(c) ==
  /\ Commit(c)
  /\ errored' = errored \cup {tx[c].id}
  /\ UNCHANGED <<inHand, pipeline, startup, closed, bounds, logged>>

AbortWrite(c) ==
  /\ Rollback(c)
  /\ UNCHANGED <<inHand, pipeline, startup, closed, bounds, reports>>

(***************************************************************************)
(* Update; the UPDATE that matches no row is ErrNotFound and does nothing. *)
(***************************************************************************)
Edited(c, k, i, x) ==
  /\ tx[c] = NoTx
  /\ inHand[c] = Idle
  /\ edits < MaxEdits
  /\ UpdateRow(k, i, x)
  /\ edits' = edits + 1
  /\ logged' = logged \ {i}
  /\ UNCHANGED <<pipeline, startup, closed, restarts>>

Update(c, k, i, x) ==
  /\ Edited(c, k, i, x)
  /\ inHand' = [inHand EXCEPT ![c] = [id |-> i, content |-> x]]
  /\ errored' = errored \ {i}

UpdateLost(c, k, i, x) ==
  /\ Edited(c, k, i, x)
  /\ errored' = errored \cup {i}
  /\ UNCHANGED inHand

\* The last step of Write and of Update.
HandOff(c) ==
  /\ inHand[c] # Idle
  /\ Enqueue(inHand[c])
  /\ inHand' = [inHand EXCEPT ![c] = Idle]
  /\ UNCHANGED <<tableVars, startup, closed, bounds, reports>>

Delete(k, i) ==
  /\ DeleteRow(k, i)
  /\ UNCHANGED <<inHand, pipeline, startup, closed, bounds, reports>>

RevokeKey(k) ==
  /\ DeleteKey(k)
  /\ UNCHANGED <<inHand, pipeline, startup, closed, bounds, reports>>

(***************************************************************************)
(* embedWorker and runEmbed.                                               *)
(***************************************************************************)
TakeJob(w) ==
  /\ running[w] = Idle
  /\ queue # << >>
  /\ running' = [running EXCEPT ![w] = Start(Head(queue))]
  /\ queue' = Tail(queue)
  /\ UNCHANGED <<tableVars, inHand, startup, closed, bounds, reports>>

Embedding(r) == running[r] # Idle /\ running[r].vec = NoVec
Embedded(r) == running[r] # Idle /\ running[r].vec # NoVec

EmbedOk(r) ==
  /\ Embedding(r)
  /\ running' = [running EXCEPT ![r].vec = running[r].content]
  /\ UNCHANGED <<tableVars, inHand, queue, startup, closed, bounds, reports>>

EmbedRetry(r) ==
  /\ Embedding(r)
  /\ ~closed
  /\ running[r].tries < Attempts
  /\ running' = [running EXCEPT ![r].tries = @ + 1]
  /\ UNCHANGED <<tableVars, inHand, queue, startup, closed, bounds, reports>>

\* Mutant of GiveUp: without the log line.
GiveUpSilently(r) ==
  /\ running' = [running EXCEPT ![r] = Idle]
  /\ UNCHANGED <<tableVars, inHand, queue, startup, closed, bounds, reports>>

\* runEmbed returns without a vector in the row, which stays pending; unless
\* the store is closing the log says so.
GiveUp(r) ==
  LET job == running[r] IN
  /\ running' = [running EXCEPT ![r] = Idle]
  /\ logged' = IF ~closed /\ Pending(job.id) /\ rows[job.id].content = job.content
                 THEN logged \cup {job.id} ELSE logged
  /\ UNCHANGED <<tableVars, inHand, queue, startup, closed, bounds, errored>>

EmbedGiveUp(r) ==
  /\ Embedding(r)
  /\ closed \/ running[r].tries = Attempts
  /\ GiveUp(r)

\* Mutant of WriteBack: the row is addressed by its id alone.
WriteBackById(r) ==
  /\ Embedded(r)
  /\ rows' = IF rows[running[r].id] # Absent
               THEN [rows EXCEPT ![running[r].id].vec = running[r].vec] ELSE rows
  /\ running' = [running EXCEPT ![r] = Idle]
  /\ UNCHANGED <<keys, clock, tx, owner, inHand, queue, startup, closed, bounds, reports>>

WriteBack(r) ==
  /\ Embedded(r)
  /\ SetVector(running[r].id, running[r].content, running[r].vec)
  /\ running' = [running EXCEPT ![r] = Idle]
  /\ UNCHANGED <<inHand, queue, startup, closed, bounds, reports>>

WriteBackFail(r) ==
  /\ Embedded(r)
  /\ GiveUp(r)

(***************************************************************************)
(* backfillPending.                                                        *)
(***************************************************************************)
BackfillScan ==
  /\ backfill = "scan"
  /\ backfill' = "enqueue"
  /\ backlog' = {[id |-> i, content |-> rows[i].content] : i \in {n \in Ids : Pending(n)}}
  /\ UNCHANGED <<tableVars, inHand, pipeline, closed, bounds, reports>>

\* The scan fails as a whole: every row it would have returned waits for the
\* next start, and the log says that the scan failed.
BackfillFail ==
  /\ backfill = "scan"
  /\ backfill' = "done"
  /\ logged' = logged \cup {i \in Ids : Pending(i)}
  /\ UNCHANGED <<tableVars, inHand, pipeline, backlog, closed, bounds, errored>>

\* ORDER BY created_at
BackfillEnqueue ==
  /\ backfill = "enqueue"
  /\ \E j \in backlog :
       /\ \A other \in backlog : j.id <= other.id
       /\ Enqueue(j)
       /\ backlog' = backlog \ {j}
  /\ UNCHANGED <<tableVars, inHand, backfill, closed, bounds, reports>>

BackfillDone ==
  /\ backfill = "enqueue"
  /\ backlog = {}
  /\ backfill' = "done"
  /\ UNCHANGED <<tableVars, inHand, pipeline, backlog, closed, bounds, reports>>

(***************************************************************************)
(* Close cancels baseCtx.  A restart follows a shutdown or a crash at any  *)
(* point: the tables stay, open transactions roll back, and everything in  *)
(* memory is gone.                                                         *)
(***************************************************************************)
Close ==
  /\ ~closed
  /\ closed' = TRUE
  /\ UNCHANGED <<tableVars, inHand, pipeline, startup, bounds, reports>>

Restart ==
  /\ restarts < MaxRestarts
  /\ restarts' = restarts + 1
  /\ DropConnections
  /\ inHand' = [c \in Callers |-> Idle]
  /\ queue' = << >>
  /\ running' = [r \in Runners |-> Idle]
  /\ backfill' = "scan"
  /\ backlog' = {}
  /\ closed' = FALSE
  /\ logged' = {}
  /\ errored' = {}
  /\ UNCHANGED edits

WriteStep(c) ==
  \/ \E k \in Keys, x \in Contents : BeginWrite(c, k, x)
  \/ EvictOldest(c)
  \/ CommitWrite(c)
  \/ CommitWriteLost(c)
  \/ AbortWrite(c)

UpdateStep(c) ==
  \E k \in Keys, i \in Ids, x \in Contents : Update(c, k, i, x) \/ UpdateLost(c, k, i, x)

RunStep(r) ==
  \/ EmbedOk(r)
  \/ EmbedRetry(r)
  \/ EmbedGiveUp(r)
  \/ WriteBack(r)
  \/ WriteBackFail(r)

BackfillStep == BackfillScan \/ BackfillFail \/ BackfillEnqueue \/ BackfillDone

Next ==
  \/ \E c \in Callers : WriteStep(c) \/ UpdateStep(c) \/ HandOff(c)
  \/ \E k \in Keys, i \in Ids : Delete(k, i)
  \/ \E k \in Keys : RevokeKey(k)
  \/ \E w \in Workers : TakeJob(w)
  \/ \E r \in Runners : RunStep(r)
  \/ BackfillStep
  \/ Close
  \/ Restart

Spec == Init /\ [][Next]_vars

\* Goroutines that have work are scheduled: a request that stored its row goes
\* on to hand it off, workers take jobs and finish them, the backfill runs.
\* Nothing obliges a client to call, a transaction to commit, an embedding to
\* succeed, or the process to stop or restart.
Fairness ==
  /\ \A c \in Callers : WF_vars(HandOff(c))
  /\ \A w \in Workers : WF_vars(~closed /\ TakeJob(w))
  /\ \A r \in Runners : WF_vars(RunStep(r))
  /\ WF_vars(BackfillStep)

FairSpec == Spec /\ Fairness
-----------------------------------------------------------------------------
\* Jobs in hand, queued, running and in the backlog are well formed, and the
\* queue never exceeds its capacity.
TypeOK ==
  /\ TableTypeOK
  /\ inHand \in [Callers -> Job \cup {Idle}]
  /\ queue \in Seq(Job)
  /\ Len(queue) <= QueueSize
  /\ running \in [Runners -> Running \cup {Idle}]
  /\ backfill \in {"scan", "enqueue", "done"}
  /\ backlog \subseteq Job
  /\ closed \in BOOLEAN
  /\ edits \in 0 .. MaxEdits
  /\ restarts \in 0 .. MaxRestarts
  /\ logged \subseteq Ids
  /\ errored \subseteq Ids

HasJob(i) ==
  LET job == [id |-> i, content |-> rows[i].content]
  IN  \/ \E n \in DOMAIN queue : queue[n] = job
      \/ \E r \in Runners : running[r] # Idle /\ running[r].id = i /\ running[r].content = job.content
      \/ \E c \in Callers : inHand[c] = job
      \/ backfill = "scan"
      \/ job \in backlog

\* No memory waits for a vector that nobody is going to compute and nobody was
\* told about: while the store is open, a pending row has a job for its
\* current content on the way, or a log line says its job gave up, or the
\* request that stored it got an error.
PendingAccountedFor ==
  ~closed => \A i \in Ids : Pending(i) => HasJob(i) \/ i \in logged \/ i \in errored

\* A vector a job holds is that of the job's content, and a request with a job
\* in hand has no transaction open.
JobsConsistent ==
  /\ \A r \in Runners : Embedded(r) => running[r].vec = running[r].content
  /\ \A c \in Callers : Open(c) => inHand[c] = Idle

\* The inductive invariant behind the store's safety properties.
StoreInv == TypeOK /\ JobsConsistent /\ PendingAccountedFor

\* The goroutines drive the tables only through the statements MemoryTable
\* describes, so what it guarantees holds of the store: a late, stale or
\* repeated job never does more than the guarded UPDATE.
DrivesTable == TableSpec

\* Every pending row stops waiting: it is embedded, deleted, reported, or the
\* store closes.
PendingResolved ==
  \A i \in Ids : Pending(i) ~> (~Pending(i) \/ i \in logged \/ i \in errored \/ closed)
=============================================================================
