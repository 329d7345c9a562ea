SPECIFICATION Spec
CONSTANTS
  Task = {t1}
  Name = {1, 7}
  MaxHandles = 3
  MaxBegins = 2
  MaxFaults = 0
  Serial = TRUE
  Pool = FALSE
INVARIANTS
  CommitIsDurable
CHECK_DEADLOCK FALSE
