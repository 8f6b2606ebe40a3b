SPECIFICATION Spec
CONSTANTS
  n1 = n1  n2 = n2
  s = s  t = t  x = x  c = c  b = b
  Pods = {s, t, x, b}
  Nodes = {n1, n2}
  NoPod = NoPod
  NoNode = NoNode
  GpuCount <- MCGpuCount
  GpuMilli <- MCGpuMilli
  GpuNum <- MCGpuNum
  Preset <- MCPreset
  Accessible <- MCAccessible
  MILLI <- MCMILLI
  Start <- MCStart
  End <- MCEnd
  Cpu <- MCCpu
  CpuCapacity <- MCCpuCapacity
  Deletable = {}
  Shuffle = FALSE
  MaxArrivals = 4
PROPERTIES CpuLackIsReal
\* The trace ends.
CHECK_DEADLOCK FALSE
