SPECIFICATION FairSpec
CONSTANTS
  kNWarps = 2
  kBlockM = 6  kBlockN = 2
  seq_len = 12  Heads = 2
  is_causal = TRUE
  BlockIdx = 1  GridDim = 2
  Torn = Torn
PROPERTIES ImplementsOutput Termination
