CONSTANTS
  j1 = j1
  w1 = w1
  w2 = w2
  p1 = p1
  Jobs = {j1}
  Workers = {w1, w2}
  Principals = {p1}
  MaxAttempts = 2
  None = None

SPECIFICATION FairSpec

INVARIANT ClaimsAreExclusive
INVARIANT LeaseMatchesStatus
INVARIANT LogIsTrue

PROPERTY ImplementsContract
PROPERTY JobsSettle

CHECK_DEADLOCK FALSE
