SPECIFICATION FairSpec
CONSTANTS
  STAGE = 2
  WARPS_M = 2  WARPS_N = 2
  kBlockM = 4  kBlockN = 2
  SeqLen = 8  Heads = 2
  IsCausal = TRUE
  BlockIdx = 0  GridDim = 3
  Torn = Torn
INVARIANTS TypeOK BlockInv NoParityAlias NoOverlap OperandsIntact
  BarSyncAligned
PROPERTIES ImplementsOutput Termination
