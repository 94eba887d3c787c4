\* Two requests, a job, two generations, three secrets.
CONSTANTS
  Requests = {r1, r2}
  Jobs = {j1}
  NoJob = NoJob
  Secrets = {s1, s2, s3}
  NoSecret = NoSecret
  Five = 2
  MaxTTL = 2
  MaxGen = 2
  MaxLag = 1
SPECIFICATION Spec
SYMMETRY Symmetry
INVARIANT TypeOK
PROPERTIES CancelledStaysSilent LapsedStaysSilent SavedIsVerified OldSecretStillSigns
