\* Two administrators at a time: an update undoes a rotation.
CONSTANTS
  Admins = {a1, a2}
  Channels = {c1}
  NoOne = NoOne
  Saves = {"off", "on"}
  MaxSecrets = 2
  MaxChanges = 4
  MaxFaults = 0
SPECIFICATION Spec
SYMMETRY Symmetry
INVARIANTS RotatedStaysRevoked
CHECK_DEADLOCK FALSE
