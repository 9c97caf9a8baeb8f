SPECIFICATION Spec
CONSTANTS
  MaxSmem = 102400
  BlockMs = {64, 128}
  BlockNs = {32, 64}
  WarpNs = {1, 2}
  MaxNames = 2
  SeqLens = {64, 192, 384}
  Batches = {0, 2}
  HeadNums = {3, 32}
  SmNum = 188
INVARIANTS BuiltKernelsFit LaunchIsSound FwdSelectsByHeadDim
