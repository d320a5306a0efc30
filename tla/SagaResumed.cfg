SPECIFICATION Spec
CONSTANTS
  N <- MCSteps
  Enlisted <- MCSomeEnlisted
  RepositoryMayFail = TRUE
  MaxCrash = 2
INVARIANTS
  OutcomeIsTrue
PROPERTIES
  UndoneFromTheTop
  RecordedFailureIsFinal
CHECK_DEADLOCK FALSE
