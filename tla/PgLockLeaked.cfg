SPECIFICATION Spec
CONSTANTS
  Migrator = {"a"}
  Pooled = {}
  Schema = {"public", "other"}
  Home = "public"
  Shipped <- Packages
  MaxFaults = 0
  MaxCancels = 1
INVARIANTS
  LockAlwaysReleased
