SPECIFICATION FairSpec
CONSTANTS
  s1 = s1
  s2 = s2
  s3 = s3
  b1 = b1
  None = None
  Other = Other
  Task = {1, 2}
  Single = {s1, s2}
  Batch = {b1}
  Last = 3
  HumanStep = {3}
  Automatic = {2, 3}
  Start <- Starts
  Selection = {{1, 2}}
  Fault = {"session", "start", "late", "subscribe", "enrich", "hook", "again"}
  MaxUpset = 1
INVARIANTS
  AdmittedIsCovered
  NoOrphanClaim
  DispatchAfterRelease
  ReservationAccounted
PROPERTIES
  EndedIsSettled
  FinishedBatchIsSettled
CHECK_DEADLOCK FALSE
