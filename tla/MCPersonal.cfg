CONSTANTS
  Ids = {1, 2}
  Hosts = {h1, h2}
  EventIds = {e1}
  Payloads = {a}
  MaxFires = 2
  None = None
  MaxGoals = 3
  Principals = {p1}
  GoalWorkers = {g1, g2}
  Priorities = {0, 1}
  MaxVersion = 3
  Nobody = Nobody
  Pairings = {r1}
  DeviceIds = {d1, d2}
  Capabilities = {k1}
  Commands = {c1}
  Tolerance = 1
  GuardTtl = 1
  Skews = {0, 1}
  MaxTime = 8
  MaxRestarts = 1
  NoDevice = NoDevice
  MaxChecks = 4
  MaxStamp = 3
  Cursors = {x1}
  NoCursor = NoCursor
  StaleAfter = 1
  FailureThreshold = 2
  Syncs = {s1, s2}
  MaxMail = 4
  MaxSecond = 2
  PageSize = 2
  MaxPages = 2
  Calls = {"c1", "c2"}
  Profiles = {"local", "inkling", "shared", "local-transformers", "fugu"}
  Routes <- MCRoutes
  MaxTries = 2
  Users = {u1, u2}
  Replies = {y1, y2}
  Threads = {t1, t2}
  NewThread = NewThread
  Gone = Gone
  Passes = {w1, w2}
  w2 = w2
  Editors = {o1}
  Values = {v1, v2}
  NoValue = NoValue
  MaxRecords = 2
  MaxVersions = 2
  OpenInserts = 2
  BatchSize = 1

SPECIFICATION MCSpec

INVARIANT EvaluationHolds
INVARIANT GoalsHold
INVARIANT DevicesHold
INVARIANT SourcesHold
INVARIANT RepliesHold
INVARIANT ModelIsTheOwners

PROPERTY OverIsOver

CHECK_DEADLOCK FALSE
