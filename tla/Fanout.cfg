\* Four items and two places, with the places taken by goroutines or by the loop.
SPECIFICATION FairSpec
CONSTANTS
  N = 4
  Limit = 2
  None = None
INVARIANTS InFlightBounded
PROPERTIES ImplementsMap Returns
CHECK_DEADLOCK FALSE
