CONSTANTS
  VaultNames = {v1}
  HookIds = {h1}
  Rotations = {1, 2}
  Absent = Absent
  Plain = Plain

SPECIFICATION RotationSpec

INVARIANT ExclusivePublicationClosesRace

CHECK_DEADLOCK FALSE
