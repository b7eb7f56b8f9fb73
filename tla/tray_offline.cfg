SPECIFICATION FairSpec
CONSTANTS
  n1 = n1
  n2 = n2
  Notes = {n1, n2}
  MaxLoads = 2
  None = None
CHECK_DEADLOCK FALSE
PROPERTIES
  OfflineIsShown
