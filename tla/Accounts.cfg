CONSTANTS
  Processes = {p1, p2}
  Slots = {s1}
  Names = {ann, bob}
  Passwords = {old, new}
  MaxId = 3
  Tokens = {k1, k2}
  Ttl = 1
  MaxTime = 2
SPECIFICATION Spec
INVARIANTS
  TypeOK
  AccountRemains
  ResetHolds
PROPERTY
  AdmitsExactly
SYMMETRY Symmetry
CHECK_DEADLOCK FALSE
