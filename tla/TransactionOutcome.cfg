SPECIFICATION FairSpec
CONSTANTS
  Path = {p1, p2}
  Content = {old, new}
  Absent = Absent
  NoPath = NoPath
  Faults <- WithoutRemoval
  MaxFaults = 3
INVARIANTS OutcomeTruthful
PROPERTIES InterruptedIsSettled
