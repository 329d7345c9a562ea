SPECIFICATION FairSpec
CONSTANTS
  Task = {t1, t2}
  Name = {7}
  MaxHandles = 2
  MaxBegins = 1
  MaxFaults = 1
  Serial = FALSE
  Pool = FALSE
PROPERTIES
  OperationsEnd
CHECK_DEADLOCK FALSE
