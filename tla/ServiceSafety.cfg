SPECIFICATION Spec
CONSTANTS
  v1 = v1  v2 = v2
  Version = {v1, v2}
  Latest = v2
  None = None
  MaxDeaths = 1
  MaxEdits = 1
INVARIANTS TypeOK LiveIsExclusive CompletedIsNotRetried CompletedIsVerified
PROPERTIES AdoptsNoHalfInstall
