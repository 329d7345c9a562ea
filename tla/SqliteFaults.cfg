SPECIFICATION FairSpec
CONSTANTS
  Migrator = {"a", "b"}
  Enforced = {"a"}
  Shipped <- Packages
  MaxFaults = 2
  MaxInterrupts = 1
INVARIANTS
  TypeOK
  ReportsHold
PROPERTIES
  LockReleased
  RunsProgress
  RunsEnd
