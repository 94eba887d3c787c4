\* Two requests at a time of a browser and a script, two starts.
CONSTANTS
  Handlers = {h1, h2}
  Clients = {browser, script}
  Browsers = {browser}
  Tokens = {t1, t2}
  States = {s1, s2, s3}
  NoToken = NoToken
  NoState = NoState
  NoClient = NoClient
  PasswordOn = TRUE
  Limit = 1
  Cap = 4
  Minute = 1
  AttemptLife = 1
  SessionLife = 2
  MaxDelay = 1
  MaxTime = 2
  Processes = {p1, p2}
  Keys = {k1, k2}
  NoKey = NoKey
  Nobody = Nobody
SPECIFICATION Spec
SYMMETRY Symmetry
INVARIANTS TypeOK LoginsWithinLimit PendingWithinLimit StateUsedOnce OldSessionEnds StartsAgree
CHECK_DEADLOCK FALSE
