\* Two callers poll in turn; one message per answer.
SPECIFICATION FairSpec
CONSTANTS
  Callers = {a, b2}
  Bases = {b}
  Polls = {q1}
  PartitionCount = 1
  Limit = 1
  Modes = {"group", "earliest", "latest"}
  MaxEvents = 3
  OwnerHeader = OwnerHeader
  Idle = Idle
PROPERTIES Drained
