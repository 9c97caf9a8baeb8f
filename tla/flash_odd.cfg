SPECIFICATION Spec
CONSTANTS
  STAGE = 2
  WARPS_M = 2  WARPS_N = 1
  kBlockM = 2  kBlockN = 4
  SeqLen = 12  Heads = 2
  IsCausal = TRUE
  BlockIdx = 1  GridDim = 3
  Torn = Torn
INVARIANTS OutputMatchesReference
