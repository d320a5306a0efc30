SPECIFICATION FairSpec
CONSTANTS
  m1 = m1
  m2 = m2
  d1 = d1
  d2 = d2
  d3 = d3
  d4 = d4
  d5 = d5
  d6 = d6
  Message <- MCMessage
  Delivery <- MCDelivery
  MessageOf <- MCMessageOf
  H = 2
  Enlisted <- MCEnlisted
  Transactional <- MCTransactional
  HandlersMayFail = TRUE
  MaxCrash = 1
CONSTRAINT OneMessage
INVARIANTS
  ExactlyOnce
  ProcessedIsHandled
PROPERTIES
  SomeDeliveryProcesses
CHECK_DEADLOCK FALSE
