SPECIFICATION FairSpec
CONSTANTS
  r1 = r1
  r2 = r2
  Runners = {r1, r2}
  NoRunner = NoRunner
  MaxConnects = 2
  MinDelay = 1
  MaxDelay = 60
PROPERTY
  FailureBacksOff
