SPECIFICATION FairTranscriptSpec
CONSTANTS
  r1 = r1
  r2 = r2
  NoTranscript = NoTranscript
  Reader = {r1, r2}
  MaxChanges = 4
  MaxCrashes = 1
INVARIANTS
  NothingForgotten
  DeletedIsGone
PROPERTIES
  ChangeIsSaved
CHECK_DEADLOCK FALSE
