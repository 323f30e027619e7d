SPECIFICATION Spec
CONSTANTS
  QueueSize = 4
  PoolSize = 3
  MaxRx = 3
  MaxTx = 5
INVARIANTS
  TypeOK
  DeliveryInOrder
  LenNeverExceedsHeld
  SentInOrder
  AcceptedNotLost
  PbufsAccounted
  BacklogHasWakeup
PROPERTY BacklogDrains
CHECK_DEADLOCK FALSE
