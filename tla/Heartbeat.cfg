CONSTANTS
  WorkerCount = 3
  Interval = 2
  Timeout = 5
  Window = 3
  Seeds = 2
  FaultInjection = TRUE
  MaxSupersteps = 3
  MaxGap = 6
SPECIFICATION Spec
INVARIANTS TypeOK RollingWindow NoEarlySuspicion
PROPERTY SuspicionMonotone
