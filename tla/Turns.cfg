SPECIFICATION Spec
CONSTANTS
  t1 = t1
  t2 = t2
  t3 = t3
  s1 = s1
  s2 = s2
  i1 = i1
  i2 = i2
  x1 = x1
  k = k
  Tool = {x1}
  Interaction = {i1, i2}
  NoInteraction = NoInteraction
  Turns = {t1, t2, t3}
  Session = {s1, s2}
  NoTurn = NoTurn
  sessionOf <- MCSessionOf
  keyOf <- MCKeyOf
  NoKey = NoKey
  Texts = {"commentary", "reasoning", "answer"}
  Restartable = {i1}
  AppServer = {s1}
CONSTRAINT OneSession
CHECK_DEADLOCK FALSE
INVARIANTS
  TypeOK
  StatusTellsTheWork
  IntentPrevails
  FreedIsStopped
  LiveTurnIsRegistered
  CancelledTurnIsAwaited
