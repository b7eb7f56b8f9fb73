SPECIFICATION Spec
CONSTANTS
  a1 = a1
  a2 = a2
  t1 = t1
  t2 = t2
  Agents = {a1, a2}
  User = User
  Secret = Secret
  Tokens = {t1, t2, Secret}
  Provisioned = Provisioned
  Absent = Absent
SYMMETRY Symmetry
INVARIANTS
  InstallProvesConnection
