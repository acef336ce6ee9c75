CONSTANTS
  Managers = {m1, m2}
  Handlers = {h1, h2}
  MaxSalts = 8
  MaxDay = 2
  MaxLag = 1
  MaxFaults = 1
  None = None
SPECIFICATION Spec
SYMMETRY Symmetry
INVARIANTS
  TypeOK
  OneSaltPerDay
  CachePersisted
  NeverOlderSalt
CHECK_DEADLOCK FALSE
