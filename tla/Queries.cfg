SPECIFICATION Spec
CONSTANTS
  MaxParameters = 6
  Menus <- QueryMenus
INVARIANTS
  TypeOK
  ParametersMatch
  NamesResolve
  NullsAcknowledged
  GroupedRowsDetermined
  WritesAuthorized
  ArbiterConstant
  SqlitePortable
  BatchesFit
PROPERTIES
  ClausesKept
CHECK_DEADLOCK FALSE
