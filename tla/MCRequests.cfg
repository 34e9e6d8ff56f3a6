CONSTANTS
  Requests = {r1, r2, r3}
  Payloads = {b1, b2}
  DailyJobs = 2
  MaxLapses = 1
  None = None
  Owners = {o1}
  Tokens = {t1, t2}
  Handlers = {h1, h2}
  NoOwner = NoOwner
  FailLimit = 2
  MaxPasswords = 3
  MaxLinks = 1
  Plans = {"starter", "team"}
  DefaultPlan = "starter"
  GrantsOf <- MCGrants
  HooksOf <- MCHooks
  Tools = {g1, g2}
  Hooks = {k1}
  Calls = {c1, c2}
  NoTool = NoTool
  MaxExcuses = 1
  RateLimit = 2
  WindowLength = 2
  MaxClock = 7
  CleanupEvery = 3
  Rows = {1, 2, 3}
  MaxStamps = 3
  PageLimit = 1
  Callers = {m1, m2}
  m2 = m2
  MaxAttempts = 3
  MaxIssued = 2

SPECIFICATION MCSpec

INVARIANT AnswersAgree
INVARIANT CredentialsHold
INVARIANT LimitsHold
INVARIANT PagesHold
INVARIANT CallsHold
INVARIANT OwnersKeepTheirKey

SYMMETRY Symmetry

CHECK_DEADLOCK FALSE
