SPECIFICATION Spec
CONSTANTS
  Kinds = {a, b, c}
  PlanTimes = {400, 5000, 500000, 600000}
  Policies = {"CAFGD", "FGDPP"}
  SmallWinSize = 2
  BigWinSize = 4
  WaterNum = 3
  WaterDen = 4
  Recent = 1
  WinSize = 2
  MaxNodes = 2
  MaxPods = 9
INVARIANT WindowCounts
INVARIANT TopCovers
INVARIANT MemoCurrent
INVARIANT TopKFresh
