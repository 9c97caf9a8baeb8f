SPECIFICATION FairSpec
CONSTANTS
  w0 = w0  w1 = w1
  STAGE = 2
  Warps <- TwoWarps
  Leader = w0
  BlockIdx = 1
  GridDim = 2
  TilesNum = 6
  KNum = 3
  Torn = Torn
INVARIANTS TypeOK BlockInv NoParityAlias NoLoadUnderReader OperandsInOrder
  BarSyncAligned SourceStable BarrierLifetime
PROPERTIES ImplementsOutput Termination
