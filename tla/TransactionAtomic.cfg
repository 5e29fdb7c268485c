SPECIFICATION Spec
CONSTANTS
  Path = {p1, p2}
  Content = {old, new}
  Absent = Absent
  NoPath = NoPath
  Faults <- AllButCommitSync
  MaxFaults = 3
INVARIANTS TypeOK WriteAhead FailedRollbackKeepsEvidence
PROPERTIES ImplementsAtomicStore CommitSticks
