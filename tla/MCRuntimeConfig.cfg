\* Two administrators at a time, one failed request.
CONSTANTS
  Admins = {a1, a2}
  Channels = {c1}
  NoOne = NoOne
  Saves = {"off", "on", "broken"}
  MaxSecrets = 2
  MaxChanges = 6
  MaxFaults = 1
SPECIFICATION Spec
SYMMETRY Symmetry
INVARIANTS TypeOK RoutesReferToChannels LoneChangeIsPublished
CHECK_DEADLOCK FALSE
