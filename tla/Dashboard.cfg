\* Two users, two keys, two fetches of the page and another browser.
SPECIFICATION Spec
CONSTANTS
  Users = {u1, u2}
  KeyIds = {k1, k2}
  Calls = {c1, c2}
  Others = {o1}
  SigningKeys = {s1, s2}
  MaxKeys = 1
  MaxTroubles = 2
  Nobody = Nobody
  Unminted = Unminted
  Revoked = Revoked
  None = None
  Idle = Idle
SYMMETRY Symmetric
INVARIANTS ListAccounted SpinnersHonest OutageNotRefusal TrustEndsAtRestart
PROPERTIES SecretShownOnce ImplementsRegistry
