SPECIFICATION Spec
CONSTANTS
  Task = {t1}
  Name = {7}
  MaxHandles = 4
  MaxBegins = 3
  MaxFaults = 2
  Serial = TRUE
  Pool = TRUE
INVARIANTS
  HandlesLive
  ConnectionAccounted
PROPERTIES
  StrandedOnlyByRecovery
CHECK_DEADLOCK FALSE
