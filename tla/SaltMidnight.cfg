CONSTANTS
  Managers = {m1}
  Handlers = {h1, h2}
  MaxSalts = 7
  MaxDay = 2
  MaxLag = 1
  MaxFaults = 1
  None = None
SPECIFICATION Spec
INVARIANT KeepsAPromise
CHECK_DEADLOCK FALSE
