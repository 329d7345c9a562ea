SPECIFICATION Spec
CONSTANTS
  MaxParameters = 6
  Menus <- WindowMenus
INVARIANTS
  WindowsKeepValues
CHECK_DEADLOCK FALSE
