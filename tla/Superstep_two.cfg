CONSTANTS
  WorkerCount = 2
  Vertices = {0, 1, 2}
  Edges <- ForkEdges
  UseRdma = TRUE
  Benchmark = TRUE
  MaxSupersteps = 4
  MaxMessages = 2
SPECIFICATION Spec
INVARIANTS TypeOK BarrierQuiesces SentAccounted LocalDelay NoMailLeft
