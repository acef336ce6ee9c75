CONSTANTS
  Admins = {a1, a2}
  Beacons = {b1}
  MaxTokens = 3
  MaxFaults = 1
  None = None
SPECIFICATION Spec
INVARIANTS
  TypeOK
  IndexesAgree
  LoneReloadHeals
PROPERTIES
  ShareLinkStable
