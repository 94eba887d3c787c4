\* Two handlers, two signed requests, windows of one tick.
CONSTANTS
  Handlers = {h1, h2}
  Nonces = {n1, n2}
  NoNonce = NoNonce
  Tolerance = 1
  Retention = 3
  Minute = 1
  Limit = 1
  MaxSkew = 1
  MaxDelay = 1
  MaxTime = 5
SPECIFICATION Spec
SYMMETRY Symmetry
INVARIANTS TypeOK OneVerdict WithinLimit
CHECK_DEADLOCK FALSE
