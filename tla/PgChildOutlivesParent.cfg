SPECIFICATION Spec
CONSTANTS
  Task = {t1, t2}
  Name = {7}
  MaxHandles = 2
  MaxBegins = 1
  MaxFaults = 0
  Serial = FALSE
  Pool = FALSE
INVARIANTS
  ParentInvalidatesChildren
CHECK_DEADLOCK FALSE
