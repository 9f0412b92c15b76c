\* One search over three memories of a key, with writes, edits, embeddings and deletions.
SPECIFICATION FairSearch
CONSTANTS
  Keys = {k1}
  Contents = {"a", "b", "c"}
  Callers = {c1}
  Cap = 2
  MaxWrites = 3
  NoVec = NoVec
  NoKey = NoKey
  Absent = Absent
  Limit = 2
  OverFetch = 1
  Similarity <- Close
  MinScore = 1
  Matches <- Words
  Asking = Asking
  QueryReady = QueryReady
  Failed = Failed
INVARIANTS OneVersion BestFirst NoHalfAnswer
PROPERTIES FailureEndsSearch
