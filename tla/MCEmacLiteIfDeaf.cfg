SPECIFICATION Spec
CONSTANTS
  QueueSize = 4
  PoolSize = 3
  MaxRx = 3
  MaxTx = 5
INVARIANT NeverDeaf
CHECK_DEADLOCK FALSE
