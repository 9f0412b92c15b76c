------------------------- MODULE MemoryTableProofs -------------------------
(***************************************************************************)
(* Proofs about MemoryTable, for every set of keys, contents and callers   *)
(* and every cap.                                                          *)
(***************************************************************************)
EXTENDS MemoryTable, FiniteSetTheorems, TLAPS

(***************************************************************************)
(* Types.                                                                  *)
(***************************************************************************)
LEMMA InitType == TableInit => TableTypeOK
  BY TableAssumption DEF TableInit, TableTypeOK, NoTx, Ids

\* Every statement keeps each variable in its set.
LEMMA NextType == TableTypeOK /\ [TableNext]_tableVars => TableTypeOK'
<1> SUFFICES ASSUME TableTypeOK, [TableNext]_tableVars PROVE TableTypeOK'
  OBVIOUS
<1> USE TableAssumption
<1>1. ASSUME NEW c \in Callers, NEW k \in Keys, NEW x \in Contents, Begin(c, k, x)
      PROVE  TableTypeOK'
  <2>1. clock + 1 \in Ids /\ clock' \in 0 .. MaxWrites
    BY <1>1 DEF Begin, TableTypeOK, Ids
  <2>2. [pc |-> "inserted", id |-> clock + 1, key |-> k, content |-> x, victims |-> {}] \in OpenTx
    BY <2>1 DEF OpenTx
  <2>3. QED
    BY <1>1, <2>1, <2>2 DEF Begin, TableTypeOK
<1>2. ASSUME NEW c \in Callers, Scan(c)
      PROVE  TableTypeOK'
  <2>1. tx[c] \in OpenTx
    BY <1>2 DEF Scan, TableTypeOK, NoTx
  <2>2. Visible(c) \subseteq Ids
    BY <2>1 DEF Visible, RowsOf, OpenTx
  <2>3. [tx[c] EXCEPT !.pc = "scanned", !.victims = Visible(c) \ Newest(Visible(c))] \in OpenTx
    BY <2>1, <2>2 DEF OpenTx
  <2>4. QED
    BY <1>2, <2>3 DEF Scan, TableTypeOK
<1>3. ASSUME NEW c \in Callers, Commit(c)
      PROVE  TableTypeOK'
  <2>1. tx[c] \in OpenTx
    BY <1>3 DEF Commit, TableTypeOK, NoTx
  <2>2. NewRow(tx[c]) \in Row
    BY <2>1 DEF NewRow, OpenTx, Row
  <2>3. rows' \in [Ids -> Row \cup {Absent}]
    BY <1>3, <2>2 DEF Commit, TableTypeOK
  <2>4. owner' \in [Ids -> Keys \cup {NoKey}]
    BY <1>3, <2>1 DEF Commit, TableTypeOK, OpenTx
  <2>5. QED
    BY <1>3, <2>3, <2>4 DEF Commit, TableTypeOK
<1>4. ASSUME NEW c \in Callers, Rollback(c)
      PROVE  TableTypeOK'
  BY <1>4 DEF Rollback, TableTypeOK
<1>5. ASSUME DropConnections
      PROVE  TableTypeOK'
  BY <1>5 DEF DropConnections, TableTypeOK
<1>6. ASSUME NEW k \in Keys, NEW i \in Ids, NEW x \in Contents, UpdateRow(k, i, x)
      PROVE  TableTypeOK'
  <2>1. rows[i] \in Row
    BY <1>6 DEF UpdateRow, RowsOf, TableTypeOK
  <2>2. [rows[i] EXCEPT !.content = x, !.vec = NoVec] \in Row
    BY <2>1 DEF Row
  <2>3. QED
    BY <1>6, <2>2 DEF UpdateRow, TableTypeOK
<1>7. ASSUME NEW k \in Keys, NEW i \in Ids, DeleteRow(k, i)
      PROVE  TableTypeOK'
  BY <1>7 DEF DeleteRow, TableTypeOK
<1>8. ASSUME NEW i \in Ids, NEW x \in Contents, SetVector(i, x, x)
      PROVE  TableTypeOK'
  <2>1. CASE Pending(i) /\ rows[i].content = x
    <3>1. rows[i] \in Row
      BY <2>1 DEF Pending, TableTypeOK
    <3>2. [rows[i] EXCEPT !.vec = x] \in Row
      BY <3>1 DEF Row
    <3>3. QED
      BY <1>8, <2>1, <3>2 DEF SetVector, TableTypeOK
  <2>2. CASE ~(Pending(i) /\ rows[i].content = x)
    BY <1>8, <2>2 DEF SetVector, TableTypeOK
  <2>3. QED
    BY <2>1, <2>2
<1>9. ASSUME NEW k \in Keys, DeleteKey(k)
      PROVE  TableTypeOK'
  BY <1>9 DEF DeleteKey, TableTypeOK
<1>10. CASE UNCHANGED tableVars
  BY <1>10 DEF tableVars, TableTypeOK
<1>11. QED
  BY <1>1, <1>2, <1>3, <1>4, <1>5, <1>6, <1>7, <1>8, <1>9, <1>10 DEF TableNext

\* Every variable of the tables keeps its kind: ids never run past the bound,
\* a transaction names rows and keys only, a vector comes from a content.
THEOREM TableTypeCorrect == TableSpec => []TableTypeOK
  BY InitType, NextType, PTL DEF TableSpec

(***************************************************************************)
(* The inductive invariant, conjunct by conjunct.                          *)
(***************************************************************************)
LEMMA IdsFinite == IsFiniteSet(Ids)
  BY TableAssumption, FS_Interval DEF Ids

\* A larger set of newer memories pushes a victim out as well.
LEMMA OverrunMonotone ==
  ASSUME NEW S \in SUBSET Ids, NEW T \in SUBSET Ids, S \subseteq T, Cardinality(S) >= Cap
  PROVE  Cardinality(T) >= Cap
<1>1. IsFiniteSet(T) /\ IsFiniteSet(S)
  BY IdsFinite, FS_Subset
<1>2. Cardinality(S) <= Cardinality(T) /\ Cardinality(S) \in Nat /\ Cardinality(T) \in Nat
  BY <1>1, FS_Subset, FS_CardinalityType
<1>3. QED
  BY <1>2, TableAssumption

\* Empty tables.
LEMMA InitInv == TableInit => TableInv
<1> SUFFICES ASSUME TableInit PROVE TableInv
  OBVIOUS
<1>1. TableTypeOK
  BY InitType
<1>2. EmbeddingFresh /\ RowsOwned /\ TxIdsFresh /\ VictimsOverrun
  BY DEF TableInit, EmbeddingFresh, RowsOwned, TxIdsFresh, VictimsOverrun, Open
<1>3. QED
  BY <1>1, <1>2 DEF TableInv

\* A vector goes only onto a row that has the content it was made from.
LEMMA NextFresh == TableTypeOK /\ EmbeddingFresh /\ [TableNext]_tableVars => EmbeddingFresh'
<1> SUFFICES ASSUME TableTypeOK, EmbeddingFresh, [TableNext]_tableVars PROVE EmbeddingFresh'
  OBVIOUS
<1> USE TableAssumption
<1>1. ASSUME NEW c \in Callers, Commit(c)
      PROVE  EmbeddingFresh'
  <2>1. \A i \in Ids : rows'[i] = Absent \/ rows'[i] = NewRow(tx[c]) \/ rows'[i] = rows[i]
    BY <1>1 DEF Commit
  <2>2. NewRow(tx[c]).vec = NoVec
    BY DEF NewRow
  <2>3. QED
    BY <2>1, <2>2 DEF EmbeddingFresh
<1>2. ASSUME NEW k \in Keys, NEW i \in Ids, NEW x \in Contents, UpdateRow(k, i, x)
      PROVE  EmbeddingFresh'
  <2>1. rows[i] \in Row
    BY <1>2 DEF UpdateRow, RowsOf, TableTypeOK
  <2>2. rows'[i].vec = NoVec
    BY <1>2, <2>1 DEF UpdateRow, Row, TableTypeOK
  <2>3. \A j \in Ids : j # i => rows'[j] = rows[j]
    BY <1>2 DEF UpdateRow, TableTypeOK
  <2>4. QED
    BY <2>2, <2>3 DEF EmbeddingFresh
<1>3. ASSUME NEW k \in Keys, NEW i \in Ids, DeleteRow(k, i)
      PROVE  EmbeddingFresh'
  BY <1>3 DEF DeleteRow, EmbeddingFresh, TableTypeOK
<1>4. ASSUME NEW i \in Ids, NEW x \in Contents, SetVector(i, x, x)
      PROVE  EmbeddingFresh'
  <2>1. CASE Pending(i) /\ rows[i].content = x
    <3>1. rows[i] \in Row
      BY <2>1 DEF Pending, TableTypeOK
    <3>2. rows'[i].vec = x /\ rows'[i].content = x
      BY <1>4, <2>1, <3>1 DEF SetVector, Row, TableTypeOK
    <3>3. \A j \in Ids : j # i => rows'[j] = rows[j]
      BY <1>4, <2>1 DEF SetVector, TableTypeOK
    <3>4. QED
      BY <3>2, <3>3 DEF EmbeddingFresh
  <2>2. CASE ~(Pending(i) /\ rows[i].content = x)
    BY <1>4, <2>2 DEF SetVector, EmbeddingFresh
  <2>3. QED
    BY <2>1, <2>2
<1>5. ASSUME NEW k \in Keys, DeleteKey(k)
      PROVE  EmbeddingFresh'
  <2>1. \A i \in Ids : rows'[i] = Absent \/ rows'[i] = rows[i]
    BY <1>5 DEF DeleteKey
  <2>2. QED
    BY <2>1 DEF EmbeddingFresh
<1>6. CASE UNCHANGED rows
  BY <1>6 DEF EmbeddingFresh
<1>7. QED
  BY <1>1, <1>2, <1>3, <1>4, <1>5, <1>6
  DEF TableNext, tableVars, Begin, Scan, Rollback, DropConnections

\* A writer with a transaction open has one.
LEMMA OpenIsTx ==
  ASSUME TableTypeOK, NEW c \in Callers, Open(c)
  PROVE  tx[c] \in OpenTx
  BY DEF TableTypeOK, Open

\* A row is under the key its id was stored under.
LEMMA NextRowsOwned ==
  TableTypeOK /\ RowsOwned /\ TxIdsFresh /\ [TableNext]_tableVars => RowsOwned'
<1> SUFFICES ASSUME TableTypeOK, RowsOwned, TxIdsFresh, [TableNext]_tableVars PROVE RowsOwned'
  OBVIOUS
<1> USE TableAssumption
<1>1. ASSUME NEW c \in Callers, Commit(c)
      PROVE  RowsOwned'
  <2>1. Open(c) /\ tx[c] \in OpenTx
    BY <1>1, OpenIsTx DEF Commit, Open, NoTx
  <2>2. tx[c].key \in keys /\ owner[tx[c].id] = NoKey
    BY <2>1 DEF TxIdsFresh
  <2>3. NewRow(tx[c]).key = tx[c].key
    BY DEF NewRow
  <2>4. \A i \in Ids : rows'[i] # Absent => (i = tx[c].id /\ rows'[i] = NewRow(tx[c]))
                                          \/ (i # tx[c].id /\ rows'[i] = rows[i])
    BY <1>1 DEF Commit
  <2>5. owner'[tx[c].id] = tx[c].key /\ \A i \in Ids : i # tx[c].id => owner'[i] = owner[i]
    BY <1>1, <2>1 DEF Commit, TableTypeOK, OpenTx
  <2>6. keys' = keys
    BY <1>1 DEF Commit
  <2>7. QED
    BY <2>2, <2>3, <2>4, <2>5, <2>6 DEF RowsOwned
<1>2. ASSUME NEW k \in Keys, NEW i \in Ids, NEW x \in Contents, UpdateRow(k, i, x)
      PROVE  RowsOwned'
  <2>1. rows[i] \in Row /\ rows[i] # Absent
    BY <1>2 DEF UpdateRow, RowsOf, TableTypeOK
  <2>2. rows'[i].key = rows[i].key
    BY <1>2, <2>1 DEF UpdateRow, Row, TableTypeOK
  <2>3. \A j \in Ids : j # i => rows'[j] = rows[j]
    BY <1>2 DEF UpdateRow, TableTypeOK
  <2>4. keys' = keys /\ owner' = owner
    BY <1>2 DEF UpdateRow
  <2>5. QED
    BY <2>1, <2>2, <2>3, <2>4 DEF RowsOwned
<1>3. ASSUME NEW k \in Keys, NEW i \in Ids, DeleteRow(k, i)
      PROVE  RowsOwned'
  BY <1>3 DEF DeleteRow, RowsOwned, TableTypeOK
<1>4. ASSUME NEW i \in Ids, NEW x \in Contents, SetVector(i, x, x)
      PROVE  RowsOwned'
  <2>1. CASE Pending(i) /\ rows[i].content = x
    <3>1. rows[i] \in Row /\ rows[i] # Absent
      BY <2>1 DEF Pending, TableTypeOK
    <3>2. rows'[i].key = rows[i].key
      BY <1>4, <2>1, <3>1 DEF SetVector, Row, TableTypeOK
    <3>3. \A j \in Ids : j # i => rows'[j] = rows[j]
      BY <1>4, <2>1 DEF SetVector, TableTypeOK
    <3>4. QED
      BY <1>4, <3>1, <3>2, <3>3 DEF RowsOwned, SetVector
  <2>2. CASE ~(Pending(i) /\ rows[i].content = x)
    BY <1>4, <2>2 DEF SetVector, RowsOwned
  <2>3. QED
    BY <2>1, <2>2
<1>5. ASSUME NEW k \in Keys, DeleteKey(k)
      PROVE  RowsOwned'
  BY <1>5 DEF DeleteKey, RowsOwned, RowsOf
<1>6. CASE UNCHANGED <<keys, rows, owner>>
  BY <1>6 DEF RowsOwned
<1>7. QED
  BY <1>1, <1>2, <1>3, <1>4, <1>5, <1>6
  DEF TableNext, tableVars, Begin, Scan, Rollback, DropConnections

\* The id of an open transaction is nobody else's.
LEMMA NextTxIdsFresh ==
  TableTypeOK /\ TxIdsFresh /\ [TableNext]_tableVars => TxIdsFresh'
<1> SUFFICES ASSUME TableTypeOK, TxIdsFresh, [TableNext]_tableVars PROVE TxIdsFresh'
  OBVIOUS
<1> USE TableAssumption
<1>1. ASSUME NEW c \in Callers, NEW k \in Keys, NEW x \in Contents, Begin(c, k, x)
      PROVE  TxIdsFresh'
  <2>1. clock' = clock + 1 /\ clock \in Nat /\ owner' = owner /\ keys' = keys /\ clock + 1 \in Ids
    BY <1>1 DEF Begin, TableTypeOK, Ids
  <2>2. tx'[c].id = clock + 1 /\ tx'[c].key = k /\ k \in keys
    BY <1>1 DEF Begin, TableTypeOK
  <2>3. \A d \in Callers : d # c => tx'[d] = tx[d]
    BY <1>1 DEF Begin, TableTypeOK
  <2>4. owner[clock + 1] = NoKey
    BY <2>1 DEF TxIdsFresh
  <2>5. \A d \in Callers : Open(d) => tx[d].id \in Nat /\ tx[d].id <= clock
    BY OpenIsTx DEF TxIdsFresh, OpenTx, Ids
  <2>6. \A i \in Ids : owner'[i] # NoKey => i <= clock'
    BY <2>1 DEF TxIdsFresh, Ids
  <2>7. ASSUME NEW d \in Callers, Open(d)'
        PROVE  /\ tx'[d].key \in keys'
               /\ tx'[d].id <= clock'
               /\ owner'[tx'[d].id] = NoKey
               /\ \A e \in Callers : Open(e)' /\ tx'[e].id = tx'[d].id => e = d
    <3>1. CASE d = c
      BY <3>1, <2>1, <2>2, <2>3, <2>4, <2>5 DEF Open
    <3>2. CASE d # c
      <4>1. Open(d) /\ tx'[d] = tx[d]
        BY <2>3, <2>7, <3>2 DEF Open
      <4>2. tx[d].id <= clock' /\ tx[d].id # clock + 1
        BY <2>1, <2>5, <4>1
      <4>3. \A e \in Callers : Open(e)' /\ tx'[e].id = tx'[d].id => e = d
        BY <2>2, <2>3, <4>1, <4>2 DEF TxIdsFresh, Open
      <4>4. QED
        BY <2>1, <4>1, <4>2, <4>3 DEF TxIdsFresh
    <3>3. QED
      BY <3>1, <3>2
  <2>8. QED
    BY <2>6, <2>7 DEF TxIdsFresh
<1>2. ASSUME NEW c \in Callers, Scan(c)
      PROVE  TxIdsFresh'
  <2>1. Open(c) /\ tx[c] \in OpenTx
    BY <1>2, OpenIsTx DEF Scan, Open, NoTx
  <2>2. tx'[c].id = tx[c].id /\ tx'[c].key = tx[c].key
    BY <1>2, <2>1 DEF Scan, TableTypeOK, OpenTx
  <2>3. \A d \in Callers : d # c => tx'[d] = tx[d]
    BY <1>2 DEF Scan, TableTypeOK
  <2>4. UNCHANGED <<clock, owner, keys>>
    BY <1>2 DEF Scan
  <2>5. \A d \in Callers : Open(d)' => Open(d) /\ tx'[d].id = tx[d].id /\ tx'[d].key = tx[d].key
    BY <2>1, <2>2, <2>3 DEF Open
  <2>6. QED
    BY <2>4, <2>5 DEF TxIdsFresh
<1>3. ASSUME NEW c \in Callers, Commit(c)
      PROVE  TxIdsFresh'
  <2>1. Open(c) /\ tx[c] \in OpenTx
    BY <1>3, OpenIsTx DEF Commit, Open, NoTx
  <2>2. \A d \in Callers : Open(d)' => d # c /\ Open(d) /\ tx'[d] = tx[d] /\ tx[d] \in OpenTx
    BY <1>3, OpenIsTx DEF Commit, TableTypeOK, Open
  <2>3. UNCHANGED <<clock, keys>> /\ owner' = [owner EXCEPT ![tx[c].id] = tx[c].key]
    BY <1>3 DEF Commit
  <2>4. tx[c].id <= clock
    BY <2>1 DEF TxIdsFresh
  <2>5. \A i \in Ids : owner'[i] # NoKey => i <= clock'
    BY <2>1, <2>3, <2>4 DEF TxIdsFresh, TableTypeOK
  <2>6. \A d \in Callers : Open(d)' => tx[d].id # tx[c].id
    BY <2>1, <2>2 DEF TxIdsFresh
  <2>7. \A d \in Callers : Open(d)' => owner'[tx[d].id] = NoKey
    BY <2>1, <2>2, <2>3, <2>6 DEF TxIdsFresh, TableTypeOK, OpenTx
  <2>8. QED
    BY <2>2, <2>3, <2>5, <2>7 DEF TxIdsFresh
<1>4. ASSUME NEW c \in Callers, Rollback(c)
      PROVE  TxIdsFresh'
  <2>1. \A d \in Callers : Open(d)' => Open(d) /\ tx'[d] = tx[d]
    BY <1>4 DEF Rollback, TableTypeOK, Open
  <2>2. QED
    BY <1>4, <2>1 DEF Rollback, TxIdsFresh
<1>5. CASE DropConnections
  BY <1>5 DEF DropConnections, TxIdsFresh, Open
<1>6. ASSUME NEW k \in Keys, DeleteKey(k)
      PROVE  TxIdsFresh'
  BY <1>6 DEF DeleteKey, TxIdsFresh, Open
<1>7. CASE UNCHANGED <<keys, clock, tx, owner>>
  BY <1>7 DEF TxIdsFresh, Open
<1>8. QED
  BY <1>1, <1>2, <1>3, <1>4, <1>5, <1>6, <1>7
  DEF TableNext, tableVars, UpdateRow, DeleteRow, SetVector

\* Ids that have overrun a victim stay among those ever stored.
LEMMA NextVictimsOverrun ==
  TableTypeOK /\ RowsOwned /\ TxIdsFresh /\ VictimsOverrun /\ [TableNext]_tableVars
    => VictimsOverrun'
<1> SUFFICES ASSUME TableTypeOK, RowsOwned, TxIdsFresh, VictimsOverrun, [TableNext]_tableVars
             PROVE  VictimsOverrun'
  OBVIOUS
<1> USE TableAssumption
<1>1. ASSUME NEW c \in Callers, NEW k \in Keys, NEW x \in Contents, Begin(c, k, x)
      PROVE  VictimsOverrun'
  <2>1. tx'[c].victims = {} /\ \A d \in Callers : d # c => tx'[d] = tx[d]
    BY <1>1 DEF Begin, TableTypeOK
  <2>2. owner' = owner
    BY <1>1 DEF Begin
  <2>3. QED
    BY <2>1, <2>2 DEF VictimsOverrun, Open, Newer
<1>2. ASSUME NEW c \in Callers, Scan(c)
      PROVE  VictimsOverrun'
  <2> DEFINE t == tx[c]
  <2>1. Open(c) /\ t \in OpenTx
    BY <1>2, OpenIsTx DEF Scan, Open, NoTx
  <2>2. /\ tx'[c].victims = Visible(c) \ Newest(Visible(c))
        /\ tx'[c].key = t.key
        /\ tx'[c].id = t.id
    BY <1>2, <2>1 DEF Scan, TableTypeOK, OpenTx
  <2>3. owner' = owner /\ \A d \in Callers : d # c => tx'[d] = tx[d]
    BY <1>2 DEF Scan, TableTypeOK
  <2>4. Visible(c) \subseteq Ids
    BY <2>1 DEF Visible, RowsOf, OpenTx
  <2>5. \A v \in Visible(c) : owner[v] = t.key \/ v = t.id
    BY <2>1 DEF Visible, RowsOf, RowsOwned
  <2>6. ASSUME NEW v \in Visible(c) \ Newest(Visible(c))
        PROVE  Cardinality(Newer(v, t.key, t.id)) >= Cap
    <3> DEFINE above == {j \in Visible(c) : j > v}
    <3>1. above \subseteq Newer(v, t.key, t.id)
      BY <2>4, <2>5 DEF Newer
    <3>2. ~(Cardinality(above) < Cap)
      BY <2>6 DEF Newest
    <3>3. above \in SUBSET Ids /\ Newer(v, t.key, t.id) \in SUBSET Ids
      BY <2>4 DEF Newer
    <3>4. Cardinality(above) \in Nat
      BY <3>3, IdsFinite, FS_Subset, FS_CardinalityType
    <3>5. Cardinality(above) >= Cap
      BY <3>2, <3>4
    <3>6. QED
      BY <3>1, <3>3, <3>5, OverrunMonotone
  <2>7. ASSUME NEW d \in Callers, Open(d)', NEW v \in tx'[d].victims
        PROVE  /\ owner[v] = tx'[d].key \/ v = tx'[d].id
               /\ Cardinality(Newer(v, tx'[d].key, tx'[d].id)) >= Cap
    <3>1. CASE d = c
      BY <2>2, <2>5, <2>6, <2>7, <3>1
    <3>2. CASE d # c
      BY <2>3, <2>7, <3>2 DEF VictimsOverrun, Open
    <3>3. QED
      BY <3>1, <3>2
  <2>8. QED
    BY <2>3, <2>7 DEF VictimsOverrun, Newer
<1>3. ASSUME NEW c \in Callers, Commit(c)
      PROVE  VictimsOverrun'
  <2>1. Open(c) /\ tx[c] \in OpenTx
    BY <1>3, OpenIsTx DEF Commit, Open, NoTx
  <2>2. owner[tx[c].id] = NoKey
    BY <2>1 DEF TxIdsFresh
  <2>3. \A i \in Ids : owner[i] # NoKey => owner'[i] = owner[i]
    BY <1>3, <2>1, <2>2 DEF Commit, TableTypeOK
  <2>4. \A d \in Callers : Open(d)' => Open(d) /\ tx'[d] = tx[d] /\ tx[d] \in OpenTx
    BY <1>3, OpenIsTx DEF Commit, TableTypeOK, Open
  <2>5. ASSUME NEW d \in Callers, Open(d)', NEW v \in tx'[d].victims
        PROVE  /\ owner'[v] = tx'[d].key \/ v = tx'[d].id
               /\ Cardinality({j \in Ids : j > v /\ (owner'[j] = tx'[d].key \/ j = tx'[d].id)}) >= Cap
    <3> DEFINE t == tx[d]
               later == {j \in Ids : j > v /\ (owner'[j] = t.key \/ j = t.id)}
    <3>1. /\ Open(d) /\ tx'[d] = t /\ t \in OpenTx /\ v \in t.victims
          /\ t.key # NoKey
          /\ v \in Ids
      BY <2>4, <2>5 DEF OpenTx
    <3>2. /\ owner[v] = t.key \/ v = t.id
          /\ Cardinality(Newer(v, t.key, t.id)) >= Cap
      BY <3>1 DEF VictimsOverrun
    <3>3. Newer(v, t.key, t.id) \subseteq later
      BY <2>3, <3>1 DEF Newer
    <3>4. Newer(v, t.key, t.id) \in SUBSET Ids /\ later \in SUBSET Ids
      BY DEF Newer
    <3>5. Cardinality(later) >= Cap
      BY <3>2, <3>3, <3>4, OverrunMonotone
    <3>6. owner'[v] = t.key \/ v = t.id
      BY <2>3, <3>1, <3>2
    <3>7. QED
      BY <3>1, <3>5, <3>6
  <2>6. QED
    BY <2>5 DEF VictimsOverrun, Newer
<1>4. ASSUME NEW c \in Callers, Rollback(c)
      PROVE  VictimsOverrun'
  <2>1. owner' = owner /\ \A d \in Callers : Open(d)' => Open(d) /\ tx'[d] = tx[d]
    BY <1>4 DEF Rollback, TableTypeOK, Open
  <2>2. QED
    BY <2>1 DEF VictimsOverrun, Newer
<1>5. CASE DropConnections
  BY <1>5 DEF DropConnections, VictimsOverrun, Open
<1>6. CASE UNCHANGED <<tx, owner>>
  BY <1>6 DEF VictimsOverrun, Open, Newer
<1>7. QED
  BY <1>1, <1>2, <1>3, <1>4, <1>5, <1>6
  DEF TableNext, tableVars, UpdateRow, DeleteRow, SetVector, DeleteKey

\* The invariant is inductive.
LEMMA NextInv == TableInv /\ [TableNext]_tableVars => TableInv'
  BY NextType, NextFresh, NextRowsOwned, NextTxIdsFresh, NextVictimsOverrun DEF TableInv

\* The inductive invariant holds in every state: ids are never reused, every
\* row and every victim belongs to the key that stored it, and what an open
\* transaction is about to evict has been pushed out by Cap newer memories.
THEOREM TableInvariant == TableSpec => []TableInv
  BY InitInv, NextInv, PTL DEF TableSpec

\* No row ever carries the vector of a content it no longer holds, whatever
\* jobs arrive and however late.
THEOREM VectorsAreFresh == TableSpec => []EmbeddingFresh
<1>1. TableInv => EmbeddingFresh
  BY DEF TableInv
<1>2. QED
  BY <1>1, TableInvariant, PTL

\* No memory outlives its key, even one whose write was open when the key's
\* deletion was sent.
THEOREM NoRowOutlivesItsKey == TableSpec => []RowsHaveKeys
<1>1. TableInv => RowsHaveKeys
  BY DEF TableInv, RowsOwned, RowsHaveKeys
<1>2. QED
  BY <1>1, TableInvariant, PTL

(***************************************************************************)
(* What overlapping writers leave of the cap.                              *)
(***************************************************************************)
\* The newest Cap of a set of ids are at most Cap: counting the newer ones
\* tells any two of them apart.
LEMMA NewestBounded ==
  ASSUME NEW S \in SUBSET Ids
  PROVE  Newest(S) \subseteq Ids /\ Cardinality(Newest(S)) <= Cap
<1> DEFINE above(i) == {j \in S : j > i}
           f == [i \in Newest(S) |-> Cardinality(above(i))]
<1>1. Newest(S) \subseteq S /\ IsFiniteSet(S) /\ IsFiniteSet(Newest(S)) /\ S \subseteq Int
  <2>1. Newest(S) \in SUBSET S
    BY DEF Newest
  <2>2. IsFiniteSet(S)
    BY IdsFinite, FS_Subset
  <2>3. IsFiniteSet(Newest(S))
    BY <2>1, <2>2, FS_Subset
  <2>4. S \subseteq Int
    BY TableAssumption DEF Ids
  <2>5. QED
    BY <2>1, <2>2, <2>3, <2>4
<1>2. \A i \in S : IsFiniteSet(above(i)) /\ Cardinality(above(i)) \in Nat
  BY <1>1, FS_Subset, FS_CardinalityType
<1>3. f \in [Newest(S) -> 0 .. Cap - 1]
  <2>1. Cap \in Nat
    BY TableAssumption
  <2>2. \A i \in Newest(S) : i \in S /\ Cardinality(above(i)) < Cap
    BY DEF Newest
  <2>3. ASSUME NEW i \in Newest(S)
        PROVE  Cardinality(above(i)) \in 0 .. Cap - 1
    <3>1. Cardinality(above(i)) \in Nat /\ Cardinality(above(i)) < Cap
      BY <1>2, <2>2
    <3>2. QED
      BY <2>1, <3>1
  <2>4. QED
    BY <2>3
<1>4. \A i, j \in S : i < j => Cardinality(above(j)) < Cardinality(above(i))
  <2> SUFFICES ASSUME NEW i \in S, NEW j \in S, i < j
               PROVE  Cardinality(above(j)) < Cardinality(above(i))
    OBVIOUS
  <2>1. above(j) \in SUBSET above(i) /\ j \in above(i) /\ j \notin above(j)
    <3>1. i \in Int /\ j \in Int /\ \A x \in S : x \in Int
      BY <1>1
    <3>2. \A x \in S : x > j => x > i
      BY <3>1
    <3>3. j > i /\ ~(j > j)
      BY <3>1
    <3>4. QED
      BY <3>2, <3>3
  <2>2. Cardinality(above(j)) <= Cardinality(above(i)) /\ Cardinality(above(j)) # Cardinality(above(i))
    BY <1>2, <2>1, FS_Subset
  <2>3. QED
    BY <1>2, <2>2
<1>5. ASSUME NEW i \in Newest(S), NEW j \in Newest(S), f[i] = f[j]
      PROVE  i = j
  <2>1. i \in S /\ j \in S /\ i \in Int /\ j \in Int
    BY <1>1
  <2>2. Cardinality(above(i)) = Cardinality(above(j)) /\ Cardinality(above(i)) \in Nat
    BY <1>2, <1>5, <2>1
  <2>3. ~(i < j) /\ ~(j < i)
    BY <1>4, <2>1, <2>2
  <2>4. QED
    BY <2>1, <2>3
<1>6. IsFiniteSet(0 .. Cap - 1) /\ Cardinality(0 .. Cap - 1) = Cap
  BY FS_Interval, TableAssumption
<1>7. Cardinality(Newest(S)) \in Nat
  BY <1>1, FS_CardinalityType
<1>8. ~(Cardinality(0 .. Cap - 1) < Cardinality(Newest(S)))
  <2> HIDE DEF f
  <2>1. ~ \E i, j \in Newest(S) : i # j /\ f[i] = f[j]
    BY <1>5
  <2>2. QED
    BY <1>1, <1>3, <1>6, <2>1, FS_PigeonHole
<1>9. Cardinality(Newest(S)) <= Cap
  <2>1. Cap \in Nat
    BY TableAssumption
  <2>2. QED
    BY <1>6, <1>7, <1>8, <2>1
<1>10. QED
  BY <1>1, <1>9

\* A set with at most one id more than another is at most one larger.
LEMMA OneMore ==
  ASSUME NEW S \in SUBSET Ids, NEW T \in SUBSET Ids, NEW i \in Ids, T \subseteq S \cup {i}
  PROVE  Cardinality(T) \in Nat /\ Cardinality(S) \in Nat /\ Cardinality(T) <= Cardinality(S) + 1
<1>1. IsFiniteSet(S) /\ IsFiniteSet(T)
  BY IdsFinite, FS_Subset
<1>2. Cardinality(T) \in Nat /\ Cardinality(S) \in Nat
  BY <1>1, FS_CardinalityType
<1>3. IsFiniteSet(S \cup {i}) /\ Cardinality(S \cup {i}) <= Cardinality(S) + 1
  <2>1. /\ IsFiniteSet(S \cup {i})
        /\ Cardinality(S \cup {i}) = IF i \in S THEN Cardinality(S) ELSE Cardinality(S) + 1
    BY <1>1, FS_AddElement
  <2>2. QED
    BY <1>2, <2>1
<1>4. Cardinality(T) <= Cardinality(S \cup {i}) /\ Cardinality(S \cup {i}) \in Nat
  BY <1>3, FS_Subset, FS_CardinalityType
<1>5. QED
  BY <1>2, <1>3, <1>4

\* A part of a set of ids is no larger than the set.
LEMMA NoMore ==
  ASSUME NEW S \in SUBSET Ids, NEW T \in SUBSET S
  PROVE  Cardinality(T) \in Nat /\ Cardinality(S) \in Nat /\ Cardinality(T) <= Cardinality(S)
<1>1. IsFiniteSet(S) /\ IsFiniteSet(T)
  BY IdsFinite, FS_Subset
<1>2. QED
  BY <1>1, FS_Subset, FS_CardinalityType

\* Counting callers.
LEMMA SomeOfCallers ==
  ASSUME NEW S \in SUBSET Callers
  PROVE  /\ IsFiniteSet(S) /\ Cardinality(S) \in Nat /\ Cardinality(Callers) \in Nat
         /\ Cardinality(S) <= Cardinality(Callers)
         /\ \A c \in Callers : c \notin S => Cardinality(S \cup {c}) = Cardinality(S) + 1
         /\ S # {} => Cardinality(S) >= 1
<1>1. IsFiniteSet(S)
  BY CallersAssumption, FS_Subset
<1>2. QED
  BY <1>1, CallersAssumption, FS_Subset, FS_CardinalityType, FS_AddElement, FS_EmptySet

\* What a commit would leave are ids.
LEMMA LeftIsIds ==
  ASSUME TableTypeOK, NEW c \in Callers, Open(c)
  PROVE  Left(c) \subseteq Ids /\ RowsOf(tx[c].key) \subseteq Ids /\ tx[c].id \in Ids /\ tx[c].key \in Keys
  BY OpenIsTx DEF Left, RowsOf, OpenTx

\* A commit leaves of its key what Left says, and adds nothing to another's.
LEMMA CommitLeaves ==
  ASSUME TableTypeOK, TxIdsFresh, RowsOwned, NEW c \in Callers, Commit(c)
  PROVE  \A k \in Keys : RowsOf(k)' \subseteq IF k = tx[c].key THEN Left(c) ELSE RowsOf(k)
<1>1. \A i \in Ids : \/ i \in tx[c].victims /\ rows'[i] = Absent
                     \/ i \notin tx[c].victims /\ i = tx[c].id /\ rows'[i] = NewRow(tx[c])
                     \/ i \notin tx[c].victims /\ i # tx[c].id /\ rows'[i] = rows[i]
  BY DEF Commit
<1>2. NewRow(tx[c]).key = tx[c].key
  BY DEF NewRow
<1>3. \A k : RowsOf(k)' = {i \in Ids : rows'[i] # Absent /\ rows'[i].key = k}
  BY DEF RowsOf
<1>4. ASSUME NEW k \in Keys, NEW i \in RowsOf(k)'
      PROVE  i \in (IF k = tx[c].key THEN Left(c) ELSE RowsOf(k))
  <2>1. i \in Ids /\ rows'[i] # Absent /\ rows'[i].key = k
    BY <1>3, <1>4
  <2>2. CASE i \notin tx[c].victims /\ i = tx[c].id /\ rows'[i] = NewRow(tx[c])
    BY <1>2, <2>1, <2>2 DEF Left
  <2>3. CASE i \notin tx[c].victims /\ i # tx[c].id /\ rows'[i] = rows[i]
    BY <2>1, <2>3 DEF Left, RowsOf
  <2>4. QED
    BY <1>1, <2>1, <2>2, <2>3
<1>5. QED
  BY <1>4

\* A step after which no key has a row it lacked, and no writer has newly
\* chosen its victims.
LEMMA QuietStep ==
  ASSUME TableTypeOK, TableTypeOK', CapPlusWriters, RoomForWriters,
         \A k \in Keys : RowsOf(k)' \subseteq RowsOf(k),
         \A c \in Callers : tx'[c].pc = "scanned" => tx'[c] = tx[c]
  PROVE  CapPlusWriters' /\ RoomForWriters'
<1>1. ASSUME NEW k \in Keys
      PROVE  (Cardinality(RowsOf(k)) <= Cap + Cardinality(Callers) - 1)'
  <2>1. RowsOf(k) \in SUBSET Ids /\ RowsOf(k)' \in SUBSET RowsOf(k)
    BY DEF RowsOf
  <2>2. Cardinality(RowsOf(k)') <= Cardinality(RowsOf(k)) /\ Cardinality(RowsOf(k)') \in Nat /\ Cardinality(RowsOf(k)) \in Nat
    BY <2>1, NoMore
  <2>3. Cap \in Nat /\ Cardinality(Callers) \in Nat
    BY TableAssumption, SomeOfCallers
  <2>4. Cardinality(RowsOf(k)) <= Cap + Cardinality(Callers) - 1
    BY DEF CapPlusWriters
  <2>5. QED
    BY <2>2, <2>3, <2>4
<1>2. ASSUME NEW k \in Keys, NEW S \in SUBSET Chosen(k)', S # {}
      PROVE  (\E c \in S : Cardinality(Left(c)) + Cardinality(S) <= Cap + Cardinality(Callers))'
  <2>1. \A c \in S : c \in Callers /\ tx'[c] = tx[c] /\ c \in Chosen(k)
    BY DEF Chosen
  <2>2. PICK c \in S : Cardinality(Left(c)) + Cardinality(S) <= Cap + Cardinality(Callers)
    BY <1>2, <2>1 DEF RoomForWriters
  <2>3. c \in Callers /\ Open(c) /\ tx'[c] = tx[c]
    BY <2>1, <2>2 DEF Chosen, Open, NoTx
  <2>4. Left(c) \in SUBSET Ids /\ Left(c)' \in SUBSET Left(c)
    BY <2>3, LeftIsIds DEF Left
  <2>5. Cardinality(Left(c)') <= Cardinality(Left(c)) /\ Cardinality(Left(c)') \in Nat /\ Cardinality(Left(c)) \in Nat
    BY <2>4, NoMore
  <2>6. Cap \in Nat /\ Cardinality(Callers) \in Nat /\ Cardinality(S) \in Nat
    BY TableAssumption, SomeOfCallers, <2>1
  <2>7. QED
    BY <2>2, <2>5, <2>6
<1>3. QED
  BY <1>1, <1>2 DEF CapPlusWriters, RoomForWriters

\* A writer that chooses its victims makes room for all the others.
LEMMA ScanMakesRoom ==
  ASSUME TableTypeOK, TableTypeOK', CapPlusWriters, RoomForWriters, NEW c \in Callers, Scan(c)
  PROVE  CapPlusWriters' /\ RoomForWriters'
<1>1. rows' = rows /\ \A d \in Callers : d # c => tx'[d] = tx[d]
  BY DEF Scan, TableTypeOK
<1>2. CapPlusWriters'
  BY <1>1 DEF CapPlusWriters, RowsOf
<1>3. Cardinality(Left(c)') \in Nat /\ Cardinality(Left(c)') <= Cap
  <2>1. tx[c] \in OpenTx
    BY DEF Scan, TableTypeOK, NoTx
  <2>2. /\ tx'[c].victims = Visible(c) \ Newest(Visible(c))
        /\ tx'[c].key = tx[c].key /\ tx'[c].id = tx[c].id
    BY <2>1 DEF Scan, TableTypeOK, OpenTx
  <2>3. Visible(c) \in SUBSET Ids
    BY <2>1 DEF Visible, RowsOf, OpenTx
  <2>4. Left(c)' = Visible(c) \ (Visible(c) \ Newest(Visible(c)))
    BY <1>1, <2>2 DEF Left, Visible, RowsOf
  <2>5. Newest(Visible(c)) \in SUBSET Visible(c)
    BY DEF Newest
  <2>6. Left(c)' = Newest(Visible(c))
    BY <2>4, <2>5
  <2>7. QED
    BY <2>3, <2>5, <2>6, NewestBounded, NoMore
<1>4. ASSUME NEW k \in Keys, NEW S \in SUBSET Chosen(k)', S # {}
      PROVE  (\E d \in S : Cardinality(Left(d)) + Cardinality(S) <= Cap + Cardinality(Callers))'
  <2>1. Cap \in Nat /\ Cardinality(Callers) \in Nat /\ Cardinality(S) \in Nat /\ Cardinality(S) <= Cardinality(Callers)
    <3>1. S \in SUBSET Callers
      BY DEF Chosen
    <3>2. QED
      BY <3>1, TableAssumption, SomeOfCallers
  <2>2. CASE c \in S
    BY <1>3, <2>1, <2>2
  <2>3. CASE c \notin S
    <3>1. \A d \in S : d \in Callers /\ tx'[d] = tx[d] /\ d \in Chosen(k)
      BY <1>1, <2>3 DEF Chosen
    <3>2. PICK d \in S : Cardinality(Left(d)) + Cardinality(S) <= Cap + Cardinality(Callers)
      BY <1>4, <3>1 DEF RoomForWriters
    <3>3. Left(d)' = Left(d)
      BY <1>1, <3>1 DEF Left, RowsOf
    <3>4. QED
      BY <3>2, <3>3
  <2>4. QED
    BY <2>2, <2>3
<1>5. QED
  BY <1>2, <1>4 DEF RoomForWriters

\* A commit uses the room that was made for it.
LEMMA CommitUsesRoom ==
  ASSUME TableTypeOK, TableTypeOK', TxIdsFresh, RowsOwned, CapPlusWriters, RoomForWriters,
         NEW c \in Callers, Commit(c)
  PROVE  CapPlusWriters' /\ RoomForWriters'
<1> DEFINE n == Cardinality(Callers)
           q == tx[c].key
<1>1. Open(c) /\ c \in Chosen(q) /\ q \in Keys /\ Left(c) \in SUBSET Ids
  <2>1. Open(c) /\ tx[c].pc = "scanned"
    BY DEF Commit, Open, NoTx
  <2>2. QED
    BY <2>1, LeftIsIds DEF Chosen
<1>2. n \in Nat /\ Cap \in Nat
  BY TableAssumption, SomeOfCallers
<1>3. Cardinality(Left(c)) + 1 <= Cap + n
  <2>1. \E d \in {c} : Cardinality(Left(d)) + Cardinality({c}) <= Cap + n
    BY <1>1 DEF RoomForWriters
  <2>2. Cardinality({c}) = 1
    BY FS_Singleton
  <2>3. QED
    BY <2>1, <2>2
<1>4. \A k \in Keys : RowsOf(k)' \subseteq IF k = q THEN Left(c) ELSE RowsOf(k)
  BY CommitLeaves
<1>5. \A d \in Callers : d # c => tx'[d] = tx[d]
  BY DEF Commit, TableTypeOK
<1>6. tx'[c] = NoTx
  BY DEF Commit, TableTypeOK
<1>7. ASSUME NEW k \in Keys
      PROVE  (Cardinality(RowsOf(k)) <= Cap + Cardinality(Callers) - 1)'
  <2>1. RowsOf(k) \in SUBSET Ids
    BY DEF RowsOf
  <2>2. CASE k = q
    <3>1. Cardinality(RowsOf(k)') <= Cardinality(Left(c)) /\ Cardinality(RowsOf(k)') \in Nat /\ Cardinality(Left(c)) \in Nat
      BY <1>1, <1>4, <2>2, NoMore
    <3>2. QED
      BY <1>2, <1>3, <3>1
  <2>3. CASE k # q
    <3>1. Cardinality(RowsOf(k)') <= Cardinality(RowsOf(k)) /\ Cardinality(RowsOf(k)') \in Nat /\ Cardinality(RowsOf(k)) \in Nat
      BY <1>4, <2>1, <2>3, NoMore
    <3>2. Cardinality(RowsOf(k)) <= Cap + n - 1
      BY DEF CapPlusWriters
    <3>3. QED
      BY <1>2, <3>1, <3>2
  <2>4. QED
    BY <2>2, <2>3
<1>8. ASSUME NEW k \in Keys, NEW S \in SUBSET Chosen(k)', S # {}
      PROVE  (\E d \in S : Cardinality(Left(d)) + Cardinality(S) <= Cap + Cardinality(Callers))'
  <2>1. \A d \in S : d \in Callers /\ d # c /\ tx'[d] = tx[d] /\ d \in Chosen(k)
    BY <1>5, <1>6 DEF Chosen, NoTx
  <2>2. S \in SUBSET Callers /\ c \notin S
    BY <2>1
  <2>3. Cardinality(S) \in Nat /\ Cardinality(S \cup {c}) = Cardinality(S) + 1
    BY <2>2, SomeOfCallers
  <2>4. \A d \in S : Open(d) /\ tx[d].key = k /\ Left(d) \in SUBSET Ids /\ tx[d].id \in Ids /\ Left(d)' \in SUBSET Ids
    <3>1. ASSUME NEW d \in S
          PROVE  Open(d) /\ tx[d].key = k /\ Left(d) \in SUBSET Ids /\ tx[d].id \in Ids
      BY <2>1, LeftIsIds DEF Chosen, Open, NoTx
    <3>2. \A d \in S : Left(d)' \in SUBSET Ids
      BY <2>1, <3>1 DEF Left, RowsOf
    <3>3. QED
      BY <3>1, <3>2
  <2>5. CASE k # q
    <3>1. PICK d \in S : Cardinality(Left(d)) + Cardinality(S) <= Cap + n
      BY <1>8, <2>1 DEF RoomForWriters
    <3>2. Left(d)' \in SUBSET Left(d)
      BY <1>4, <2>1, <2>4, <2>5 DEF Left
    <3>3. Cardinality(Left(d)') <= Cardinality(Left(d)) /\ Cardinality(Left(d)') \in Nat /\ Cardinality(Left(d)) \in Nat
      BY <2>4, <3>2, NoMore
    <3>4. QED
      BY <1>2, <2>3, <3>1, <3>3
  <2>6. CASE k = q
    <3>1. PICK d \in S \cup {c} : Cardinality(Left(d)) + Cardinality(S \cup {c}) <= Cap + n
      <4>1. S \cup {c} \in SUBSET Chosen(q)
        BY <1>1, <2>1, <2>6
      <4>2. QED
        BY <1>1, <4>1 DEF RoomForWriters
    <3>2. RowsOf(k)' \subseteq Left(c) /\ Left(c) \subseteq RowsOf(k) \cup {tx[c].id} /\ tx[c].id \in Ids
      BY <1>1, <1>4, <2>6, LeftIsIds DEF Left
    <3>3. \A e \in S : Left(e)' = (RowsOf(k)' \cup {tx[e].id}) \ tx[e].victims
      BY <2>1, <2>4 DEF Left
    <3>4. CASE d \in S
      <4>1. Left(d)' \subseteq Left(d) \cup {tx[c].id}
        BY <2>4, <2>6, <3>2, <3>3, <3>4 DEF Left
      <4>2. Cardinality(Left(d)') <= Cardinality(Left(d)) + 1 /\ Cardinality(Left(d)') \in Nat /\ Cardinality(Left(d)) \in Nat
        BY <2>4, <3>2, <3>4, <4>1, OneMore
      <4>3. QED
        BY <1>2, <2>3, <3>1, <3>4, <4>2
    <3>5. CASE d = c
      <4>1. PICK e \in S : TRUE
        BY <1>8
      <4>2. Left(e)' \subseteq Left(c) \cup {tx[e].id}
        BY <3>2, <3>3
      <4>3. Cardinality(Left(e)') <= Cardinality(Left(c)) + 1 /\ Cardinality(Left(e)') \in Nat /\ Cardinality(Left(c)) \in Nat
        BY <1>1, <2>4, <4>2, OneMore
      <4>4. QED
        BY <1>2, <2>3, <3>1, <3>5, <4>3
    <3>6. QED
      BY <3>4, <3>5
  <2>7. QED
    BY <2>5, <2>6
<1>9. QED
  BY <1>7, <1>8 DEF CapPlusWriters, RoomForWriters

\* No rows, no writers.
LEMMA InitCap == TableInit => CapPlusWriters /\ RoomForWriters
<1> SUFFICES ASSUME TableInit PROVE CapPlusWriters /\ RoomForWriters
  OBVIOUS
<1>1. \A k \in Keys : RowsOf(k) = {} /\ Chosen(k) = {}
  BY DEF TableInit, RowsOf, Chosen, NoTx
<1>2. Cardinality({}) = 0 /\ Cardinality(Callers) \in Nat /\ Cap \in Nat /\ Cap >= 1
  BY FS_EmptySet, SomeOfCallers, TableAssumption
<1>3. CapPlusWriters
  BY <1>1, <1>2 DEF CapPlusWriters
<1>4. RoomForWriters
  BY <1>1 DEF RoomForWriters
<1>5. QED
  BY <1>3, <1>4

\* The bound, and the room that carries it, survive every statement.
LEMMA NextCap ==
  ASSUME TableInv, TableInv', CapPlusWriters, RoomForWriters, [TableNext]_tableVars
  PROVE  CapPlusWriters' /\ RoomForWriters'
<1> USE DEF TableInv
<1>1. ASSUME NEW c \in Callers, Scan(c)
      PROVE  CapPlusWriters' /\ RoomForWriters'
  BY <1>1, ScanMakesRoom
<1>2. ASSUME NEW c \in Callers, Commit(c)
      PROVE  CapPlusWriters' /\ RoomForWriters'
  BY <1>2, CommitUsesRoom
<1>3. ASSUME NEW c \in Callers, NEW k \in Keys, NEW x \in Contents, Begin(c, k, x)
      PROVE  CapPlusWriters' /\ RoomForWriters'
  <2>1. \A d \in Callers : tx'[d].pc = "scanned" => tx'[d] = tx[d]
    BY <1>3 DEF Begin, TableTypeOK
  <2>2. QED
    BY <1>3, <2>1, QuietStep DEF Begin, RowsOf
<1>4. ASSUME NEW c \in Callers, Rollback(c)
      PROVE  CapPlusWriters' /\ RoomForWriters'
  <2>1. \A d \in Callers : tx'[d].pc = "scanned" => tx'[d] = tx[d]
    BY <1>4 DEF Rollback, NoTx, TableTypeOK
  <2>2. QED
    BY <1>4, <2>1, QuietStep DEF Rollback, RowsOf
<1>5. CASE DropConnections
  <2>1. \A d \in Callers : tx'[d].pc = "scanned" => tx'[d] = tx[d]
    BY <1>5 DEF DropConnections, NoTx
  <2>2. QED
    BY <1>5, <2>1, QuietStep DEF DropConnections, RowsOf
<1>6. ASSUME NEW k \in Keys, NEW i \in Ids, NEW x \in Contents, UpdateRow(k, i, x)
      PROVE  CapPlusWriters' /\ RoomForWriters'
  <2>1. rows[i] \in Row /\ rows[i] # Absent
    BY <1>6 DEF UpdateRow, RowsOf, TableTypeOK
  <2>2. rows'[i].key = rows[i].key
    BY <1>6, <2>1 DEF UpdateRow, Row, TableTypeOK
  <2>3. \A j \in Ids : j # i => rows'[j] = rows[j]
    BY <1>6 DEF UpdateRow, TableTypeOK
  <2>4. \A q \in Keys : RowsOf(q)' \subseteq RowsOf(q)
    BY <2>1, <2>2, <2>3 DEF RowsOf
  <2>5. QED
    BY <1>6, <2>4, QuietStep DEF UpdateRow
<1>7. ASSUME NEW k \in Keys, NEW i \in Ids, DeleteRow(k, i)
      PROVE  CapPlusWriters' /\ RoomForWriters'
  <2>1. \A q \in Keys : RowsOf(q)' \subseteq RowsOf(q)
    BY <1>7 DEF DeleteRow, RowsOf, TableTypeOK
  <2>2. QED
    BY <1>7, <2>1, QuietStep DEF DeleteRow
<1>8. ASSUME NEW i \in Ids, NEW x \in Contents, SetVector(i, x, x)
      PROVE  CapPlusWriters' /\ RoomForWriters'
  <2>1. \A q \in Keys : RowsOf(q)' \subseteq RowsOf(q)
    <3>1. CASE Pending(i) /\ rows[i].content = x
      <4>1. rows[i] \in Row /\ rows[i] # Absent
        BY <3>1 DEF Pending, TableTypeOK
      <4>2. rows'[i].key = rows[i].key
        BY <1>8, <3>1, <4>1 DEF SetVector, Row, TableTypeOK
      <4>3. \A j \in Ids : j # i => rows'[j] = rows[j]
        BY <1>8, <3>1 DEF SetVector, TableTypeOK
      <4>4. QED
        BY <4>1, <4>2, <4>3 DEF RowsOf
    <3>2. CASE ~(Pending(i) /\ rows[i].content = x)
      BY <1>8, <3>2 DEF SetVector, RowsOf
    <3>3. QED
      BY <3>1, <3>2
  <2>2. QED
    BY <1>8, <2>1, QuietStep DEF SetVector
<1>9. ASSUME NEW k \in Keys, DeleteKey(k)
      PROVE  CapPlusWriters' /\ RoomForWriters'
  <2>1. \A q \in Keys : RowsOf(q)' \subseteq RowsOf(q)
    BY <1>9 DEF DeleteKey, RowsOf
  <2>2. QED
    BY <1>9, <2>1, QuietStep DEF DeleteKey
<1>10. CASE UNCHANGED tableVars
  BY <1>10, QuietStep DEF tableVars, RowsOf
<1>11. QED
  BY <1>1, <1>2, <1>3, <1>4, <1>5, <1>6, <1>7, <1>8, <1>9, <1>10 DEF TableNext

\* However writers of a key overlap, the table never holds more of its memories
\* than the cap and one for each other writer: a reader may see the cap
\* overrun, but what overlaps once is not added to what overlapped before.
THEOREM CapOverrunBounded == TableSpec => []CapPlusWriters
<1>1. TableInv /\ TableInv' /\ (CapPlusWriters /\ RoomForWriters) /\ [TableNext]_tableVars
        => (CapPlusWriters /\ RoomForWriters)'
  BY NextCap
<1>2. QED
  BY InitCap, <1>1, TableInvariant, PTL DEF TableSpec

(***************************************************************************)
(* Isolation of the keys.                                                  *)
(***************************************************************************)
\* What a transaction drops or creates is its own key's.
LEMMA CommitStaysInKey ==
  ASSUME TableInv, NEW c \in Callers, Commit(c)
  PROVE  OthersUntouched(tx[c].key)
<1> DEFINE t == tx[c]
<1> USE TableAssumption
<1>1. Open(c) /\ t \in OpenTx
  BY OpenIsTx DEF Commit, Open, NoTx, TableInv
<1>2. rows[t.id] = Absent
  BY <1>1 DEF TableInv, TxIdsFresh, RowsOwned, TableTypeOK, OpenTx, Row
<1>3. \A i \in Ids : i \in t.victims /\ rows[i] # Absent => rows[i].key = t.key
  BY <1>1, <1>2 DEF TableInv, VictimsOverrun, RowsOwned
<1>4. \A i \in Ids : /\ i \in t.victims => rows'[i] = Absent
                     /\ i \notin t.victims /\ i = t.id => rows'[i] = NewRow(t)
                     /\ i \notin t.victims /\ i # t.id => rows'[i] = rows[i]
  BY DEF Commit
<1>5. NewRow(t).key = t.key
  BY DEF NewRow
<1>6. QED
  BY <1>2, <1>3, <1>4, <1>5 DEF OthersUntouched

\* A statement of a key touches no row of another.
LEMMA StatementStaysInKey ==
  ASSUME TableInv, NEW k \in Keys, StatementOf(k)
  PROVE  OthersUntouched(k)
<1> USE DEF OthersUntouched
<1>1. ASSUME NEW c \in Callers, tx[c] # NoTx, tx[c].key = k, Commit(c)
      PROVE  OthersUntouched(k)
  BY <1>1, CommitStaysInKey
<1>2. ASSUME NEW i \in Ids, NEW x \in Contents, UpdateRow(k, i, x)
      PROVE  OthersUntouched(k)
  <2>1. \A j \in Ids : j # i => rows'[j] = rows[j]
    BY <1>2 DEF UpdateRow, TableInv, TableTypeOK
  <2>2. QED
    BY <1>2, <2>1 DEF UpdateRow, RowsOf
<1>3. ASSUME NEW i \in Ids, DeleteRow(k, i)
      PROVE  OthersUntouched(k)
  BY <1>3 DEF DeleteRow, RowsOf, TableInv, TableTypeOK
<1>4. ASSUME DeleteKey(k)
      PROVE  OthersUntouched(k)
  BY <1>4 DEF DeleteKey, RowsOf
<1>5. QED
  BY <1>1, <1>2, <1>3, <1>4 DEF StatementOf

\* No statement sent for one key changes, drops or creates a row of another,
\* however the transactions of the keys interleave.
THEOREM KeysAreIsolated == TableSpec => KeyIsolation
<1>1. TableInv => [\A k \in Keys : StatementOf(k) => OthersUntouched(k)]_tableVars
  BY StatementStaysInKey
<1>2. QED
  BY <1>1, TableInvariant, PTL DEF KeyIsolation

(***************************************************************************)
(* The tables implement the life of a memory.                              *)
(***************************************************************************)
LEMMA CommitStores ==
  ASSUME TableInv, NEW c \in Callers, Commit(c)
  PROVE  \E k \in Keys, i \in Ids, x \in Contents :
           \E dropped \in SUBSET (Lifecycle!Held(k) \cup {i}) : Lifecycle!Store(k, i, x, dropped)
<1> DEFINE t == tx[c]
           dropped == t.victims \cap (Lifecycle!Held(t.key) \cup {t.id})
<1> USE TableAssumption
<1>1. Open(c) /\ t \in OpenTx /\ t.id \in Ids /\ t.key \in Keys /\ t.content \in Contents
  BY OpenIsTx DEF Commit, Open, NoTx, TableInv, OpenTx
<1>2. t.key \in keys /\ owner[t.id] = NoKey
  BY <1>1 DEF TableInv, TxIdsFresh
<1>3. owner' = [owner EXCEPT ![t.id] = t.key] /\ keys' = keys
  BY DEF Commit
<1>4. \A d \in dropped : Cardinality({j \in Ids : j > d /\ owner'[j] = t.key}) >= Cap
  <2> SUFFICES ASSUME NEW d \in dropped
               PROVE  Cardinality({j \in Ids : j > d /\ owner'[j] = t.key}) >= Cap
    OBVIOUS
  <2>1. Newer(d, t.key, t.id) = {j \in Ids : j > d /\ owner'[j] = t.key}
    BY <1>1, <1>2, <1>3 DEF Newer, TableInv, TableTypeOK
  <2>2. Cardinality(Newer(d, t.key, t.id)) >= Cap
    BY <1>1 DEF TableInv, VictimsOverrun
  <2>3. QED
    BY <2>1, <2>2
<1>5. \A i \in Ids : i \in t.victims => i \in dropped \/ rows[i] = Absent
  BY <1>1 DEF TableInv, VictimsOverrun, RowsOwned, Lifecycle!Held
<1>6. rows' = [j \in Ids |->
                 IF j \in dropped THEN Absent
                 ELSE IF j = t.id THEN [key |-> t.key, content |-> t.content, vec |-> NoVec]
                 ELSE rows[j]]
  <2>1. rows' = [i \in Ids |-> IF i \in t.victims THEN Absent
                              ELSE IF i = t.id THEN NewRow(t) ELSE rows[i]]
    BY DEF Commit
  <2>2. NewRow(t) = [key |-> t.key, content |-> t.content, vec |-> NoVec]
    BY DEF NewRow
  <2>3. ASSUME NEW j \in Ids, j \in t.victims, j \notin dropped
        PROVE  rows[j] = Absent /\ j # t.id
    BY <1>5, <2>3
  <2>4. \A j \in Ids :
          (IF j \in t.victims THEN Absent ELSE IF j = t.id THEN NewRow(t) ELSE rows[j])
          = (IF j \in dropped THEN Absent
             ELSE IF j = t.id THEN [key |-> t.key, content |-> t.content, vec |-> NoVec]
             ELSE rows[j])
    BY <2>2, <2>3
  <2>5. QED
    BY <2>1, <2>4
<1>7. \A S : Lifecycle!Cardinality(S) = Cardinality(S)
  BY DEF Lifecycle!Cardinality, Cardinality
<1>8. Lifecycle!Store(t.key, t.id, t.content, dropped)
  BY <1>2, <1>3, <1>4, <1>6, <1>7 DEF Lifecycle!Store
<1>9. QED
  BY <1>1, <1>8

\* Every statement is a step of MemoryLifecycle, or none.
LEMMA StepImplements ==
  TableInv /\ [TableNext]_tableVars => [Lifecycle!Next]_(Lifecycle!vars)
<1> SUFFICES ASSUME TableInv, [TableNext]_tableVars
             PROVE  Lifecycle!Next \/ UNCHANGED <<keys, rows, owner>>
  BY DEF Lifecycle!vars
<1>1. ASSUME NEW c \in Callers, Commit(c)
      PROVE  Lifecycle!Next
  BY <1>1, CommitStores DEF Lifecycle!Next
<1>2. ASSUME NEW k \in Keys, NEW i \in Ids, NEW x \in Contents, UpdateRow(k, i, x)
      PROVE  Lifecycle!Next
  <2>1. Lifecycle!Edit(i, x)
    BY <1>2 DEF UpdateRow, RowsOf, Lifecycle!Edit
  <2>2. QED
    BY <2>1 DEF Lifecycle!Next
<1>3. ASSUME NEW k \in Keys, NEW i \in Ids, DeleteRow(k, i)
      PROVE  Lifecycle!Next
  <2>1. Lifecycle!Remove(i)
    BY <1>3 DEF DeleteRow, RowsOf, Lifecycle!Remove
  <2>2. QED
    BY <2>1 DEF Lifecycle!Next
<1>4. ASSUME NEW i \in Ids, NEW x \in Contents, SetVector(i, x, x)
      PROVE  Lifecycle!Next \/ UNCHANGED <<keys, rows, owner>>
  <2>1. CASE Pending(i) /\ rows[i].content = x
    <3>1. Lifecycle!Index(i)
      BY <1>4, <2>1 DEF SetVector, Pending, Lifecycle!Index
    <3>2. QED
      BY <3>1 DEF Lifecycle!Next
  <2>2. CASE ~(Pending(i) /\ rows[i].content = x)
    BY <1>4, <2>2 DEF SetVector
  <2>3. QED
    BY <2>1, <2>2
<1>5. ASSUME NEW k \in Keys, DeleteKey(k)
      PROVE  Lifecycle!Next
  <2>1. Lifecycle!Revoke(k)
    BY <1>5 DEF DeleteKey, RowsOf, Lifecycle!Revoke, Lifecycle!Held
  <2>2. QED
    BY <2>1 DEF Lifecycle!Next
<1>6. QED
  BY <1>1, <1>2, <1>3, <1>4, <1>5
  DEF TableNext, tableVars, Begin, Scan, Rollback, DropConnections

\* The transactions and statements of the store implement the life of a
\* memory as MemoryLifecycle states it: one birth, eviction only after Cap
\* newer memories of the key, vectors of the current content, no return.
THEOREM TablesImplementLifecycle == TableSpec => ImplementsLifecycle
<1>1. TableInit => Lifecycle!Init
  BY DEF TableInit, Lifecycle!Init
<1>2. QED
  BY <1>1, StepImplements, TableInvariant, PTL DEF TableSpec, Lifecycle!Spec, ImplementsLifecycle
=============================================================================
