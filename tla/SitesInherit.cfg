CONSTANTS
  Admins = {a1, a2}
  Beacons = {b1}
  MaxTokens = 3
  MaxFaults = 0
  None = None
SPECIFICATION Spec
INVARIANT NothingInherited
