SPECIFICATION Spec
CONSTANTS
  c1 = c1
  c2 = c2
  t1 = t1
  t2 = t2
  k1 = k1
  spec = spec
  a = a
  b = b
  s0 = s0
  s1 = s1
  g0 = g0
  n1 = n1
  n2 = n2
  n3 = n3
  p0 = p0
  p1 = p1
  p2 = p2
  NoTask = NoTask
  NoId = NoId
  General = General
  Caller = {c1, c2}
  Turn = {t1, t2}
  Command = {k1}
  Document = {spec, General}
  Task = {a, b}
  turnOf <- MCTurnOf
  Request <- MCRequest
  newId <- MCNewId
  newProv <- MCNewProv
  Existing <- MCExisting
  MaxSlow = 0
  MaxCrash = 1
INVARIANTS
  SavesWhatItRead
  SessionIsKept
PROPERTIES
  ProviderIdStands
CONSTRAINT Promising
CHECK_DEADLOCK FALSE
