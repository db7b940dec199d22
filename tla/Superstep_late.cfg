CONSTANTS
  WorkerCount = 2
  Vertices = {0, 1, 2}
  Edges <- ForkEdges
  UseRdma = TRUE
  Benchmark = FALSE
  MaxSupersteps = 3
  MaxMessages = 1
SPECIFICATION Spec
INVARIANTS ReceivedNext
