CONSTANTS
  Jobs = {j1}
  Workers = {w1, w2}
  Principals = {p1}
  MaxAttempts = 2
  None = None

SPECIFICATION CalmSpec

INVARIANT WorkerSurvivesCancel

CHECK_DEADLOCK FALSE
