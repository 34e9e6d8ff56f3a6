CONSTANTS
  Requests = {r1, r2, r3}
  Payloads = {b1}
  DailyJobs = 2
  MaxLapses = 1
  None = None

SPECIFICATION CalmSpec

INVARIANT OneJobPerKey

CHECK_DEADLOCK FALSE
