CONSTANTS
  Handlers = {h1, h2}
  Admins = {a1}
  LastStatement = 2
  MaxDay = 1
  Nobody = Nobody
SPECIFICATION Spec
INVARIANT
  TypeOK
PROPERTIES
  EveryoneServed
  ShutdownEnds
