\* Two handlers, events of one severity and one producer time.
CONSTANTS
  Handlers = {h1, h2}
  EventIds = {m1, m2, m3}
  Severities = {1}
  Window = 1
  Retention = 1
  MaxTime = 3
  MaxOccurred = 0
  MaxLog = 3
  MaxDelay = 1
  NewestFirst = TRUE
SPECIFICATION FeedSpec
SYMMETRY Symmetry
INVARIANT MissedOnlyIfOvertaken
CHECK_DEADLOCK FALSE
