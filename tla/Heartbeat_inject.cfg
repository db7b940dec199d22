CONSTANTS
  WorkerCount = 3
  Interval = 4
  Timeout = 5
  Window = 3
  Seeds = 2
  FaultInjection = TRUE
  MaxSupersteps = 3
  MaxGap = 6
SPECIFICATION FairSpec
PROPERTY InjectionDetected
