SPECIFICATION Spec
CONSTANTS
  Migrator = {"edited", "renamed", "careless", "merged"}
  Enforced = {"edited", "renamed", "careless", "merged"}
  Shipped <- Packages
  MaxFaults = 1
  MaxInterrupts = 0
INVARIANTS
  ForeignKeysHold
  SettingsRestored
PROPERTIES
  ImplementsHistory
