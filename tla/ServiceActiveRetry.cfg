SPECIFICATION Spec
CONSTANTS
  v1 = v1  v2 = v2
  Version = {v1, v2}
  Latest = v2
  None = None
  MaxDeaths = 2
  MaxEdits = 1
INVARIANTS ActiveBlocksRecovery
