\* Three queries, across the expiry of a token and its replacement.
SPECIFICATION FairSpec
CONSTANTS
  Calls = {c1, c2, c3}
  Grants <- SomeGrants
  Margin = 2
  DefaultTtl = 3
  Timeout = 1
  MaxTime = 5
  None = None
INVARIANTS AcceptedOnArrival NoNeedlessFetch
PROPERTIES GetsPastLock
