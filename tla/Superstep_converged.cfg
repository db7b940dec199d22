CONSTANTS
  WorkerCount = 1
  Vertices = {0, 1}
  Edges <- PairEdges
  UseRdma = TRUE
  Benchmark = FALSE
  MaxSupersteps = 2
  MaxMessages = 1
SPECIFICATION Spec
INVARIANTS ConvergedQuiet
