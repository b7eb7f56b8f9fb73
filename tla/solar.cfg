SPECIFICATION FairSpec
CONSTANTS
  j1 = j1
  j2 = j2
  j3 = j3
  exe = exe
  dll = dll
  Jobs = {j1, j2, j3}
  Files = {exe, dll}
  Exe = exe
  Nobody = Nobody
  Base = Base
  Absent = Absent
  Torn = Torn
  MaxRestarts = 1
CHECK_DEADLOCK FALSE
INVARIANTS
  TypeOK
  NoLeakedEngine
  SessionIsWired
  StopEndsSession
  PackageIsSound
PROPERTIES
  UpdateKeepsOffEngine
  CallsReturn
