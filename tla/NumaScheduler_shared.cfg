CONSTANTS
  w1 = w1
  w2 = w2
  Submitters = {w1, w2}
  Hints <- TwoHints
  NumaNodes = 2
  ThreadsPerNode = 1
  SpikeCap = 1
  MaxBatches = 2
SPECIFICATION FairSpec
INVARIANTS TypeOK TasksConserved LoadAccurate SpikeHistoryBounded EarlyReturnBounded NothingDropped
PROPERTY PoolTerminates
