SPECIFICATION DesktopFairSpec
CONSTANTS
  n1 = n1
  n2 = n2
  Notes = {n1, n2}
  MaxLoads = 2
  None = None
  o1 = o1
  o2 = o2
  Openers = {o1, o2}
  w1 = w1
  w2 = w2
  Windows = {w1, w2}
  Nobody = Nobody
  NoWindow = NoWindow
  q1 = q1
  p1 = p1
  Questions = {q1}
  Works = {p1}
  NoDialog = NoDialog
CHECK_DEADLOCK FALSE
INVARIANTS
  DesktopTypeOK
  IconsFreedOnce
  HandlerFiresOnce
  WindowIsTracked
  ProgressIsItsOwn
PROPERTIES
  DesktopAnswers
