\* Two handlers at a time.
CONSTANTS
  Handlers = {h1, h2}
  EventIds = {m1, m2, m3}
  Severities = {1, 2}
  Window = 2
  Retention = 2
  MaxTime = 3
  MaxOccurred = 1
  MaxLog = 3
  MaxDelay = 1
SPECIFICATION Spec
SYMMETRY Symmetry
INVARIANTS TypeOK OnlyOrphansMislead RecordedOnce SwallowedIsOldNews OnlyEscalationsPassWindow
CHECK_DEADLOCK FALSE
