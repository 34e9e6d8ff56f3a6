CONSTANTS
  c1 = c1
  c2 = c2
  w1 = w1
  w2 = w2
  p1 = p1
  p2 = p2
  h1 = h1
  Checkins = {c1, c2}
  Workers = {w1, w2}
  Planners = {p1, p2}
  Hooks = {h1}
  Local = Local
  MaxAttempts = 2
  None = None

SPECIFICATION MCSpec

INVARIANT NeverSentTwice
INVARIANT RecordsAreHonest
INVARIANT PlansHold

PROPERTY ClaimsSettle

CHECK_DEADLOCK FALSE
