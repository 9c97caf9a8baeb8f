SPECIFICATION Spec
CONSTANTS
  Rows = {1, 2, 3}
  Columns = {1, 2, 3, 4, 5}
  Widths = {1, 2, 3, 8}
  SmCounts = {1, 2, 3}
INVARIANTS ExclusivePlaces CoveredWhenDone BalancedBlocks
