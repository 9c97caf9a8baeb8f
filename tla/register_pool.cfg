SPECIFICATION PoolSpec
CONSTANTS
  CWGs = {1, 2, 3, 4}
  FlashWarps = {5, 6, 7, 8}
INVARIANTS RequestsValid NobodyStarves
