CONSTANTS
  Processes = {p1}
  Slots = {s1, s2}
  Names = {ann, bob}
  Passwords = {new}
  MaxId = 2
  Tokens = {k1}
  Ttl = 1
  MaxTime = 0
SPECIFICATION Spec
INVARIANT
  LastAdminStays
CHECK_DEADLOCK FALSE
