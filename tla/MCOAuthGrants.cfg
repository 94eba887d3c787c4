\* Two codes, two grants, five token pairs.
CONSTANTS
  Codes = {c1, c2}
  Grants = {g1, g2}
  Policies = {p1, p2}
  NoCode = NoCode
  CodeLife = 2
  AccessLife = 1
  GrantLife = 3
  MaxDelay = 1
  MaxTime = 5
  MaxPairs = 5
SPECIFICATION Spec
SYMMETRY Symmetry
INVARIANTS TypeOK CodeUsedOnce ReuseEndsGrant AccessEnds GrantFollowsConsent
CHECK_DEADLOCK FALSE
