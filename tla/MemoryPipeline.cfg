\* Two rows, one worker, one spilled job: eviction, edits, retries, shutdown and restart.
SPECIFICATION Spec
CONSTANTS
  Keys = {k1}
  Contents = {a, b}
  Callers = {c1}
  Workers = {w1}
  Detached = {d1}
  Cap = 1
  QueueSize = 1
  Attempts = 2
  MaxWrites = 2
  MaxEdits = 1
  MaxRestarts = 1
  NoVec = NoVec
  NoKey = NoKey
  Absent = Absent
  Idle = Idle
SYMMETRY Symmetric
INVARIANTS PendingAccountedFor
PROPERTIES DrivesTable
CHECK_DEADLOCK FALSE
