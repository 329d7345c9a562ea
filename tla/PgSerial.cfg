SPECIFICATION Spec
CONSTANTS
  Task = {t1}
  Name = {1, 7}
  MaxHandles = 4
  MaxBegins = 3
  MaxFaults = 1
  Serial = TRUE
  Pool = FALSE
INVARIANTS
  TypeOK
  HandlesLive
  NamesExact
  OneRegistry
PROPERTIES
  StrandedOnlyByRecovery
  CallerWorkSafe
  ScopesNest
CHECK_DEADLOCK FALSE
