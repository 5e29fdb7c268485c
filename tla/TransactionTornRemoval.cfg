SPECIFICATION Spec
CONSTANTS
  Path = {p1, p2}
  Content = {old, new}
  Absent = Absent
  NoPath = NoPath
  Faults <- TornRemoval
  MaxFaults = 2
INVARIANTS RecoverySucceeds
