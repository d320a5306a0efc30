SPECIFICATION Spec
CONSTANTS
  Turns = {1, 2}
  NoTurn = NoTurn
  NoSequence = NoSequence
  MaxChanges = 1
  MaxVersion = 2
  BufferSize = 2
  MaxLoads = 1
  MaxCrashes = 1
INVARIANTS
  TypeOK
  ShownIsCurrent
  PromptRunsOnce
  WaitsForSomething
CHECK_DEADLOCK FALSE
