SPECIFICATION Spec
CONSTANTS
  h1 = h1
  h2 = h2
  p1 = p1
  p2 = p2
  b1 = b1
  b2 = b2
  step = step
  pub = pub
  batch = batch
  t1 = t1
  Agent = Agent
  Boot = Boot
  NoOne = NoOne
  Others = {Agent}
  Call = {p1, p2, b1}
  Op = {pub, batch}
  Task = {t1}
  Kind <- MCKind
  OpOf <- MCOpOf
  TaskOf <- MCTaskOf
  DashboardCall = {p2, b1}
  MaxCrash = 1
  LockMayTimeOut = FALSE
INVARIANTS
  AtMostOnce
PROPERTIES
  SlotPromise
CHECK_DEADLOCK FALSE
