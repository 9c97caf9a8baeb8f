SPECIFICATION Spec
CONSTANTS
  kNWarps = 2
  kBlockM = 4  kBlockN = 2
  seq_len = 4  Heads = 1
  is_causal = FALSE
  BlockIdx = 0  GridDim = 1
  Torn = Torn
INVARIANT OutputMatchesReference
