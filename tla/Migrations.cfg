CONSTANTS
  Processes = {p1, p2}
  MaxCrashes = 2
SPECIFICATION Spec
INVARIANTS
  TypeOK
  VersionHonest
  OpenMeansMigrated
  AppliedInOrder
