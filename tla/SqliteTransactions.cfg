SPECIFICATION Spec
CONSTANTS
  Modes = {"autocommit", "pep249", "legacy", "manual"}
  Name = {2}
  MaxHandles = 4
  MaxBegins = 2
  MaxWrites = 2
  MaxFaults = 2
INVARIANTS
  TypeOK
  HandlesLive
  NamesExact
PROPERTIES
  StrandedByTwoFaults
  WritesFollowScopes
  HandlesNest
CHECK_DEADLOCK FALSE
