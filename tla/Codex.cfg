SPECIFICATION Spec
CONSTANTS
  t1 = t1
  t2 = t2
  t3 = t3
  h1 = h1
  h2 = h2
  k = k
  Turns = {t1, t2, t3}
  Thread = {h1, h2}
  Task = {k}
  None = None
  threadOf <- MCThreadOf
  taskOf <- MCTaskOf
  MaxUpset = 2
CONSTRAINTS TwoCalls OneStop InUse
SYMMETRY Alike
CHECK_DEADLOCK FALSE
INVARIANTS
  FreedOnProof
  NobodyWaitsInVain
  ClientSurvives
