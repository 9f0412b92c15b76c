\* Two users, overlapping creations and a request through two resolvers, across a restart.
SPECIFICATION Spec
CONSTANTS
  Users = {u1, u2}
  KeyIds = {k1, k2, k3}
  Creators = {c1, c2}
  Requests = {r1}
  Gate = gate
  Scoped = {memory}
  Plain = {skills}
  MaxKeys = 1
  MaxRestarts = 1
  Nobody = Nobody
  Unminted = Unminted
  Revoked = Revoked
  Idle = Idle
SYMMETRY Symmetric
INVARIANTS KeyCapPlusCreators OnlyMintedServed RestartEndsAccess NoFalseRefusal
PROPERTIES OwnershipStable
CHECK_DEADLOCK FALSE
