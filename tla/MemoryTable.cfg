\* Three writers with edits, deletes and late vectors over two keys.
SPECIFICATION TableSpec
CONSTANTS
  Keys = {k1, k2}
  Contents = {a, b}
  Callers = {c1, c2, c3}
  Cap = 1
  MaxWrites = 4
  NoVec = NoVec
  NoKey = NoKey
  Absent = Absent
SYMMETRY Symmetric
INVARIANTS EmbeddingFresh RowsHaveKeys CapPlusWriters
PROPERTIES KeyIsolation ImplementsLifecycle
CHECK_DEADLOCK FALSE
