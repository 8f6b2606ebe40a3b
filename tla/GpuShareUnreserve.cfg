SPECIFICATION RetrySpec
CONSTANTS
  n1 = n1  n2 = n2
  s = s  t = t  u = u  x = x  g = g  c = c
  Pods = {s, x}
  Nodes = {n1, n2}
  NoPod = NoPod
  NoNode = NoNode
  GpuCount <- MCGpuCount
  GpuMilli <- MCGpuMilli
  GpuNum <- MCGpuNum
  Preset <- MCPreset
  Accessible <- MCAccessible
  MILLI <- MCMILLI
  GpuSelMethod = "best"
  MaxEvents = 2
INVARIANTS UnreserveUndoes
\* A panic ends the program.
CHECK_DEADLOCK FALSE
