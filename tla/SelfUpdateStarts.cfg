SPECIFICATION FairSpec
CONSTANTS
  ui = ui  index = index  sig = sig  cli = cli  other = other
  Final = Final  Dangling = Dangling  rc = rc  hash = hash
  StoreFile = {ui, index, sig, cli}
  Name = {ui, index, sig, cli, other}
  Version <- MCVersion
  None = None
  MaxInt = 2
  MaxBytes = 4
  ReleaseSize = 1
  MaxFaults = 3
INVARIANTS TypeOK StartsWhole StagingBounded
PROPERTIES OpensAgain NoDowngrade
