CONSTANTS
  Events = {e1, e2, e3}
  QueueSize = 1
  BatchSize = 2
  MaxRestarts = 1
SPECIFICATION Spec
INVARIANTS
  TypeOK
  ExactlyOnePlace
  AcceptanceOrder
  DrainOnStop
  DroppedUndercounts
PROPERTIES
  WholeBatches
  CleanShutdown
  Settles
  ShutdownTerminates
  DeliverySpec
CHECK_DEADLOCK FALSE
