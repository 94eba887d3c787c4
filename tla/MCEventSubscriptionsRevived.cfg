\* A refresh brings back the generation of a row that is gone.
CONSTANTS
  Requests = {r1, r2}
  Jobs = {j1, j2}
  NoJob = NoJob
  Secrets = {s1, s2}
  NoSecret = NoSecret
  Five = 2
  MaxTTL = 2
  MaxGen = 3
  MaxLag = 1
SPECIFICATION Spec
SYMMETRY Symmetry
PROPERTY OvertakenStaysSilent
