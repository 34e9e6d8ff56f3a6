CONSTANTS
  Jobs = {j1}
  Workers = {w1, w2}
  Principals = {p1}
  MaxAttempts = 2
  None = None
  ApiRuns = {a1}
  JobRuns = {r1}
  WriteTools = {"w"}
  IsolatedTools = {"i"}
  DetachedTools = {"w"}
  DeniedTools = {"x"}
  MaxSteps = 3
  MaxEvents = 4
  MaxReconnects = 1
  MaxDrops = 2
  Starts = {0, 2}
  Subs = {s1}
  Events = {e1, e2}
  Dispatchers = {x1, x2}
  MaxPosts = 2
  FailLimit = 2
  MaxFaults = 3
  NoDelivery = NoDelivery

SPECIFICATION MCSpec

INVARIANT QueueIsConsistent
INVARIANT RunsAreAccountedFor
INVARIANT StreamsHold
INVARIANT DeliveriesHold

PROPERTY ImplementsContract
PROPERTY JobsSettleOrStrand
PROPERTY RunsAndStreamsEnd
PROPERTY OutboxDrains

CHECK_DEADLOCK FALSE
