CONSTANTS
  Purgers = {p1, p2}
  Runs = {r1}
  Jobs = {j1}
  MaxDeletions = 2
  MaxCrashes = 1
  None = None
  Appenders = {a1, a2}
  Operators = {o1, o2}
  MaxEntries = 3
  VaultNames = {v1}
  HookIds = {h1}
  Rotations = {1, 2}
  Absent = Absent
  Plain = Plain
  Groups = {g1, g2}
  WalGroups = {g1}
  Copies = {c1, c2}
  OldCopies = {c2}
  Unlisted = {g2}
  MaxWrites = 1
  NotCopied = NotCopied
  DataFiles = {f1, f2}
  MaxRewrites = 1
  Damaged = Damaged
  NoManifest = NoManifest
  Exporters = {e1, e2}
  Importers = {i1, i2}
  Files = {f1, f2}
  MaxEdits = 1
  NoExport = NoExport
  Lifespans = {l1, l2}
  Probes = {q1, q2}
  CacheSeconds = 2
  MaxSeconds = 4
  NoLifespan = NoLifespan
  NoCheck = NoCheck

SPECIFICATION MCSpec

INVARIANT DeletionHolds
INVARIANT TrailHolds
INVARIANT OneKeyUnlessMarked
INVARIANT CopiesAreWhole
INVARIANT ServerHolds

PROPERTY CrashedDeletionCompletes

CHECK_DEADLOCK FALSE
