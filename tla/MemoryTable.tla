---------------------------- MODULE MemoryTable ----------------------------
(***************************************************************************)
(* The tables api_keys and memories under the statements the memory store  *)
(* sends them (internal/memory/store.go, migrations/0001 to 0003), for any *)
(* number of connections whose statements interleave under READ COMMITTED. *)
(*                                                                         *)
(* A write is a transaction of two statements, an INSERT and the DELETE    *)
(* that evicts the oldest rows of its key; every other operation is one    *)
(* statement.  The vector of a row is written later, by a job that may     *)
(* arrive at any time and carry any content: MemoryStore says which jobs   *)
(* there are, and nothing here depends on it.                              *)
(*                                                                         *)
(* A row is named by its position in the order (created_at, id) of         *)
(* store.go, which is the order in which the transactions begin, because   *)
(* created_at defaults to now(), the start of the transaction.  A vector   *)
(* is represented by the content it was computed from.                     *)
(*                                                                         *)
(* Row locks are not modelled: a statement that waits for one sees the row *)
(* as the other transaction left it, which is what the statement would do  *)
(* had it started later.  The key-share lock of the foreign key is: it is  *)
(* what makes the deletion of a key wait.                                  *)
(***************************************************************************)
EXTENDS Naturals, FiniteSets

CONSTANTS
  Keys,        \* ids of api_keys rows
  Contents,    \* texts a memory may hold
  Callers,     \* request goroutines that may be inside the store at once
  Cap,         \* maxMemoriesPerKey
  MaxWrites,   \* bound: transactions begun
  NoVec,       \* SQL NULL in the embedding column
  NoKey,       \* "no write with this id has committed"
  Absent       \* "the table has no row with this id"

Ids == 1 .. MaxWrites
Row == [key : Keys, content : Contents, vec : Contents \cup {NoVec}]
OpenTx == [pc : {"inserted", "scanned"}, id : Ids, key : Keys,
           content : Contents, victims : SUBSET Ids]
NoTx == [pc |-> "none"]

ASSUME TableAssumption ==
  /\ Cap \in Nat \ {0}
  /\ MaxWrites \in Nat
  /\ NoVec \notin Contents
  /\ NoKey \notin Keys
  /\ Absent \notin Row

ASSUME CallersAssumption == IsFiniteSet(Callers)

VARIABLES
  keys,      \* api_keys rows that exist
  rows,      \* memories rows, as a reader sees them: committed only
  clock,     \* transactions begun so far; the last row id given out
  tx,        \* the open transaction of each request goroutine
  owner      \* history: the key whose write committed the id

tableVars == <<keys, rows, clock, tx, owner>>

TableInit ==
  /\ keys = Keys
  /\ rows = [i \in Ids |-> Absent]
  /\ clock = 0
  /\ tx = [c \in Callers |-> NoTx]
  /\ owner = [i \in Ids |-> NoKey]

RowsOf(k) == {i \in Ids : rows[i] # Absent /\ rows[i].key = k}

Pending(i) == rows[i] # Absent /\ rows[i].vec = NoVec

\* Mutant of Newest: an OFFSET one short.
NewestButOne(S) == {i \in S : Cardinality({j \in S : j > i}) < Cap - 1}

\* ORDER BY created_at DESC, id DESC LIMIT Cap
Newest(S) == {i \in S : Cardinality({j \in S : j > i}) < Cap}

(***************************************************************************)
(* Write.  BEGIN fixes created_at; the INSERT is invisible to the others   *)
(* until the commit, and its foreign key check fails once the key's row is *)
(* gone.                                                                   *)
(***************************************************************************)
Begin(c, k, x) ==
  /\ tx[c].pc = "none"
  /\ clock < MaxWrites
  /\ k \in keys
  /\ clock' = clock + 1
  /\ tx' = [tx EXCEPT ![c] = [pc |-> "inserted", id |-> clock + 1, key |-> k,
                              content |-> x, victims |-> {}]]
  /\ UNCHANGED <<keys, rows, owner>>

\* Mutants of Visible: the eviction ahead of the insert, and over all keys.
VisibleBeforeInsert(c) == RowsOf(tx[c].key)
VisibleAcrossKeys(c) == {i \in Ids : rows[i] # Absent} \cup {tx[c].id}

\* The DELETE picks its victims in the snapshot of its own start: the rows of
\* the key committed by then and the row this transaction inserted.
Visible(c) == RowsOf(tx[c].key) \cup {tx[c].id}

Scan(c) ==
  /\ tx[c].pc = "inserted"
  /\ tx' = [tx EXCEPT ![c] = [tx[c] EXCEPT !.pc = "scanned",
                                           !.victims = Visible(c) \ Newest(Visible(c))]]
  /\ UNCHANGED <<keys, rows, clock, owner>>

NewRow(t) == [key |-> t.key, content |-> t.content, vec |-> NoVec]

Commit(c) ==
  LET t == tx[c] IN
  /\ t.pc = "scanned"
  /\ rows' = [i \in Ids |-> IF i \in t.victims THEN Absent
                            ELSE IF i = t.id THEN NewRow(t)
                            ELSE rows[i]]
  /\ owner' = [owner EXCEPT ![t.id] = t.key]
  /\ tx' = [tx EXCEPT ![c] = NoTx]
  /\ UNCHANGED <<keys, clock>>

Rollback(c) ==
  /\ tx[c].pc \in {"inserted", "scanned"}
  /\ tx' = [tx EXCEPT ![c] = NoTx]
  /\ UNCHANGED <<keys, rows, clock, owner>>

\* The process dies: the server rolls back what its connections left open.
DropConnections ==
  /\ tx' = [c \in Callers |-> NoTx]
  /\ UNCHANGED <<keys, rows, clock, owner>>

(***************************************************************************)
(* The single statements.  The ones that match no row change nothing.      *)
(***************************************************************************)
UpdateRow(k, i, x) ==
  /\ i \in RowsOf(k)
  /\ rows' = [rows EXCEPT ![i] = [@ EXCEPT !.content = x, !.vec = NoVec]]
  /\ UNCHANGED <<keys, clock, tx, owner>>

DeleteRow(k, i) ==
  /\ i \in RowsOf(k)
  /\ rows' = [rows EXCEPT ![i] = Absent]
  /\ UNCHANGED <<keys, clock, tx, owner>>

\* Mutant of SetVector: without the content guard.
SetVectorUnguarded(i, x, v) ==
  /\ rows' = IF Pending(i) THEN [rows EXCEPT ![i].vec = v] ELSE rows
  /\ UNCHANGED <<keys, clock, tx, owner>>

\* UPDATE memories SET embedding = $2
\* WHERE id = $1 AND content = $3 AND embedding IS NULL
SetVector(i, x, v) ==
  /\ rows' = IF Pending(i) /\ rows[i].content = x
               THEN [rows EXCEPT ![i].vec = v] ELSE rows
  /\ UNCHANGED <<keys, clock, tx, owner>>

\* Mutant of DeleteKey: no foreign key makes it wait.
DeleteKeyAtOnce(k) ==
  /\ k \in keys
  /\ keys' = keys \ {k}
  /\ rows' = [i \in Ids |-> IF i \in RowsOf(k) THEN Absent ELSE rows[i]]
  /\ UNCHANGED <<clock, tx, owner>>

\* The key's row is share-locked by every transaction that has inserted a
\* memory for it, so its deletion waits for them; then it cascades.
DeleteKey(k) ==
  /\ k \in keys
  /\ \A c \in Callers : tx[c] # NoTx => tx[c].key # k
  /\ keys' = keys \ {k}
  /\ rows' = [i \in Ids |-> IF i \in RowsOf(k) THEN Absent ELSE rows[i]]
  /\ UNCHANGED <<clock, tx, owner>>

TableNext ==
  \/ \E c \in Callers, k \in Keys, x \in Contents : Begin(c, k, x)
  \/ \E c \in Callers : Scan(c) \/ Commit(c) \/ Rollback(c)
  \/ DropConnections
  \/ \E k \in Keys, i \in Ids, x \in Contents : UpdateRow(k, i, x)
  \/ \E k \in Keys, i \in Ids : DeleteRow(k, i)
  \/ \E i \in Ids, x \in Contents : SetVector(i, x, x)
  \/ \E k \in Keys : DeleteKey(k)

TableSpec == TableInit /\ [][TableNext]_tableVars
-----------------------------------------------------------------------------
\* Every table and transaction variable holds a value of its kind.
TableTypeOK ==
  /\ keys \subseteq Keys
  /\ rows \in [Ids -> Row \cup {Absent}]
  /\ clock \in 0 .. MaxWrites
  /\ tx \in [Callers -> OpenTx \cup {NoTx}]
  /\ owner \in [Ids -> Keys \cup {NoKey}]

\* A row's vector is the vector of the content the row holds now, however
\* edits, late jobs and redundant jobs interleave: vector search never
\* surfaces a memory for what it used to say (store.go:360-365).
EmbeddingFresh ==
  \A i \in Ids : rows[i] # Absent /\ rows[i].vec # NoVec => rows[i].vec = rows[i].content

\* A memory's key exists: a key deleted while a write of that key is open
\* leaves no row behind (the foreign key of 0003_api_keys.sql).
RowsHaveKeys == \A i \in Ids : rows[i] # Absent => rows[i].key \in keys

\* What concurrent writes of one key leave of the cap (store.go:295-297): each
\* of the other writers can add one row the last eviction did not see, and no
\* more accumulate.
CapPlusWriters ==
  \A k \in Keys : Cardinality(RowsOf(k)) <= Cap + Cardinality(Callers) - 1

\* No statement sent on behalf of one key changes, drops or creates a row of
\* another, whatever ran between its snapshot and its commit.
OthersUntouched(k) ==
  \A i \in Ids :
    /\ rows[i] # Absent /\ rows[i].key # k => rows'[i] = rows[i]
    /\ rows[i] = Absent /\ rows'[i] # Absent => rows'[i].key = k

StatementOf(k) ==
  \/ \E c \in Callers : tx[c] # NoTx /\ tx[c].key = k /\ Commit(c)
  \/ \E i \in Ids, x \in Contents : UpdateRow(k, i, x)
  \/ \E i \in Ids : DeleteRow(k, i)
  \/ DeleteKey(k)

KeyIsolation == [][\A k \in Keys : StatementOf(k) => OthersUntouched(k)]_tableVars

\* The tables keep the promises of MemoryLifecycle: a row never comes back
\* once evicted or deleted (a late job cannot resurrect it), an eviction drops
\* only rows that Cap newer writes of the key have pushed out, and a vector is
\* only ever added to a row that lacks one.
Lifecycle ==
  INSTANCE MemoryLifecycle WITH Ids <- Ids, keys <- keys, rows <- rows, owner <- owner
ImplementsLifecycle == Lifecycle!Spec
-----------------------------------------------------------------------------
(***************************************************************************)
(* The inductive invariant behind these properties.                        *)
(***************************************************************************)
Open(c) == tx[c] # NoTx

\* A row belongs to the key that stored it, and that key exists.
RowsOwned == \A i \in Ids : rows[i] # Absent => rows[i].key \in keys /\ owner[i] = rows[i].key

\* An open transaction has an id of its own that no commit has used, under a
\* key that exists.
TxIdsFresh ==
  /\ \A i \in Ids : owner[i] # NoKey => i <= clock
  /\ \A c \in Callers : Open(c) =>
       /\ tx[c].key \in keys
       /\ tx[c].id <= clock
       /\ owner[tx[c].id] = NoKey
       /\ \A d \in Callers : Open(d) /\ tx[d].id = tx[c].id => d = c

\* The ids newer than v that key k has stored, or is storing as id.
Newer(v, k, id) == {j \in Ids : j > v /\ (owner[j] = k \/ j = id)}

\* What a transaction is about to evict is its own key's, and Cap newer
\* memories of that key push it out.
VictimsOverrun ==
  \A c \in Callers : Open(c) => \A v \in tx[c].victims :
    /\ owner[v] = tx[c].key \/ v = tx[c].id
    /\ Cardinality(Newer(v, tx[c].key, tx[c].id)) >= Cap

\* What the table holds for a key once a transaction that has chosen its
\* victims commits, if nothing else happens.
Left(c) == (RowsOf(tx[c].key) \cup {tx[c].id}) \ tx[c].victims

\* The writers of a key that have chosen their victims.
Chosen(k) == {c \in Callers : tx[c].pc = "scanned" /\ tx[c].key = k}

\* Among any writers of a key that have chosen their victims, one chose late
\* enough to make room for the others: it saw what those before it had
\* committed, and only those still open can add to what it leaves.
RoomForWriters ==
  \A k \in Keys : \A S \in SUBSET Chosen(k) :
    S # {} => \E c \in S : Cardinality(Left(c)) + Cardinality(S) <= Cap + Cardinality(Callers)

\* Together they are inductive: ids are never reused and victims stay
\* overrun, whatever commits between a transaction's scan and its commit.
TableInv == TableTypeOK /\ EmbeddingFresh /\ RowsOwned /\ TxIdsFresh /\ VictimsOverrun
=============================================================================
