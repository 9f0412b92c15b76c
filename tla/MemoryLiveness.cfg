\* Every pending row stops waiting, under the fairness of the scheduler.
SPECIFICATION FairSpec
CONSTANTS
  Keys = {k1}
  Contents = {a, b}
  Callers = {c1}
  Workers = {w1}
  Detached = {d1}
  Cap = 1
  QueueSize = 1
  Attempts = 2
  MaxWrites = 1
  MaxEdits = 2
  MaxRestarts = 1
  NoVec = NoVec
  NoKey = NoKey
  Absent = Absent
  Idle = Idle
PROPERTIES PendingResolved
CHECK_DEADLOCK FALSE
