SPECIFICATION LockSpec
CONSTANTS
  c1 = c1
  c2 = c2
  c3 = c3
  p1 = p1
  p2 = p2
  NoFile = NoFile
  Context = {c1, c2, c3}
  Pid = {p1, p2}
  PidOf <- MCPidOf
  Key <- MCPidOf
INVARIANTS
  ExclusionUnlessMisreclaimed
PROPERTIES
  StaleFileCleared
CHECK_DEADLOCK FALSE
