\* One reader, with up to two surprises.
SPECIFICATION FairSpec
CONSTANTS
  None = None
  MaxSurprises = 2
INVARIANTS NoDeadEnds DocumentedCallsAccepted
PROPERTY VisitsLand
