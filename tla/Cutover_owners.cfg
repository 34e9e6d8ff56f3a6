CONSTANTS
  Groups = {jobs, plans}
  WalGroups = {jobs, plans}
  Copies = {c1}
  OldCopies = {}
  Unlisted = {jobs}
  MaxWrites = 2
  NotCopied = NotCopied

SPECIFICATION CutoverSpec

INVARIANT WholeRowsMoved

CHECK_DEADLOCK FALSE
