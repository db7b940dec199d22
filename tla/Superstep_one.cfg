CONSTANTS
  WorkerCount = 1
  Vertices = {0, 1, 2}
  Edges <- TriangleEdges
  UseRdma = TRUE
  Benchmark = FALSE
  MaxSupersteps = 3
  MaxMessages = 3
SPECIFICATION FairSpec
PROPERTIES ImplementsPregel RunEnds
