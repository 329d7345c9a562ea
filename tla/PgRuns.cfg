SPECIFICATION FairSpec
CONSTANTS
  Migrator = {"a", "sly", "sqlite"}
  Pooled = {"sly"}
  Schema = {"public", "other"}
  Home = "public"
  Shipped <- Packages
  MaxFaults = 1
  MaxCancels = 1
INVARIANTS
  TypeOK
  ReportsHold
  SessionReleased
PROPERTIES
  ImplementsHistory
  RunsEnd
