SPECIFICATION Spec
CONSTANTS
  h1 = h1
  h2 = h2
  p1 = p1
  p2 = p2
  b1 = b1
  b2 = b2
  step = step
  pub = pub
  batch = batch
  t1 = t1
  Agent = Agent
  Boot = Boot
  NoOne = NoOne
  Others = {Agent, Boot}
  Call = {h1, h2, p1}
  Op = {step, pub}
  Task = {t1}
  Kind <- MCKind
  OpOf <- MCOpOf
  TaskOf <- MCTaskOf
  DashboardCall = {h1, h2}
  MaxCrash = 1
  LockMayTimeOut = TRUE
CONSTRAINT AgentAlone
SYMMETRY MCSymmetry
INVARIANTS
  WorkUnderClaim
  HeldUntilSettled
  CompletedWasExecuted
CHECK_DEADLOCK FALSE
