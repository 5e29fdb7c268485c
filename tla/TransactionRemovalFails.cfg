SPECIFICATION Spec
CONSTANTS
  Path = {p1, p2}
  Content = {old, new}
  Absent = Absent
  NoPath = NoPath
  Faults <- RemovalFails
  MaxFaults = 1
INVARIANTS OutcomeTruthful
