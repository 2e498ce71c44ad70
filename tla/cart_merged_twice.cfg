SPECIFICATION CartSpec
CONSTANTS
  Configurations = {k1}
  CeilingOf <- TwoOfEach
  AvailableOf <- TwoOfEach
  MaxLines = 1
  Tabs = {w1, w2}
  CartTasks = {"add", "merge"}
  Additions = {1}
  MaxClicks = 1
  MaxCarts = 2
  MaxCartCrashes = 0
SYMMETRY AlikeTabs
CHECK_DEADLOCK FALSE
INVARIANT PiecesAskedFor
