\* Two callers, two overlapping polls and peeks, one partition.
SPECIFICATION Spec
CONSTANTS
  Callers = {a, b2}
  Bases = {b}
  Polls = {q1, q2}
  PartitionCount = 1
  Limit = 2
  Modes = {"group", "earliest", "latest"}
  MaxEvents = 2
  OwnerHeader = OwnerHeader
  Idle = Idle
SYMMETRY Symmetric
INVARIANTS OwnEventsOnly NothingSkipped HandedInOrder
