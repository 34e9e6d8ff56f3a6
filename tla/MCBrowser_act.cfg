CONSTANTS
  h2 = h2
  Hosts = {h1}
  Sessions = {s1}
  Takeovers = {t1}
  Calls = {c1, c2}
  MaxSessions = 1
  None = None
  n1 = n1
  n2 = n2
  Notices = {n1, n2}
  Deliverers = {d1, d2}
  MaxAttempts = 2
  NoNotice = NoNotice

SPECIFICATION MCSpec

PROPERTY AgentRefused

CHECK_DEADLOCK FALSE
