SPECIFICATION MenuFairSpec
CONSTANTS
  r1 = r1
  r2 = r2
  Runners = {r1, r2}
  Main = r1
  MaxClicks = 2
  NoRunner = NoRunner
  MaxConnects = 2
  MinDelay = 1
  MaxDelay = 60
INVARIANTS
  MenuTypeOK
  PauseReachesAttempt
  NoLeakedConn
  ReturnsOnlyWhenCancelled
PROPERTIES
  ImplementsLease
  PauseDropsAttempt
  UnpauseResumes
  CancelStopsRun
  LabelSettles
