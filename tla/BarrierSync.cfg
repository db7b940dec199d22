CONSTANTS
  Workers = {w1, w2, w3, w4}
  EpochMod = 2
  MaxRounds = 4
SPECIFICATION FairSpec
INVARIANTS TypeOK BarrierHolds QuiescentReset IInv
PROPERTIES ImplementsBarrier AllRoundsPass
