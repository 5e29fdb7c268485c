SPECIFICATION Spec
CONSTANTS
  exe = exe  old = old  new = new  conf = conf
  exe1 = exe1  exe2 = exe2  old1 = old1  new2 = new2
  conf1 = conf1  conf2 = conf2  exec = exec  mine = mine
  r1 = r1  r2 = r2
  Launcher = Launcher  Temp = Temp  Junk = Junk
  Absent = Absent  None = None
  File <- MCFile
  Content <- MCContent
  Release <- MCRelease
  Ships <- MCShips
  Preserve <- MCPreserve
  Written <- MCWritten
  MaxEdits = 1
  MaxCrashes = 1
  MaxBackups = 1
INVARIANTS TypeOK OriginalsIndexed
PROPERTIES UninstallRestores UnrecordedIsBackedUp DeclaredByBothIsKept ManagedMatches
