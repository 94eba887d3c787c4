\* Two administrators at a time: a late reload wins.
CONSTANTS
  Admins = {a1, a2}
  Channels = {c1}
  NoOne = NoOne
  Saves = {"off", "on"}
  MaxSecrets = 1
  MaxChanges = 4
  MaxFaults = 0
SPECIFICATION Spec
SYMMETRY Symmetry
INVARIANTS SnapshotIsCurrent
CHECK_DEADLOCK FALSE
