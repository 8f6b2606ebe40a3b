SPECIFICATION Spec
CONSTANTS
  n1 = n1  n2 = n2
  s = s  t = t  u = u  x = x  g = g  c = c
  Pods = {s, t, x, g, c}
  Nodes = {n1, n2}
  NoPod = NoPod
  NoNode = NoNode
  GpuCount <- MCGpuCount
  GpuMilli <- MCGpuMilli
  GpuNum <- MCGpuNum
  Preset <- MCPreset
  Accessible <- MCAccessible
  MILLI <- MCMILLI
  GpuSelMethod = "random"
  MaxEvents = 2
INVARIANTS TypeOK NoOversubscription FilterHonoured ReportsSeeTruth Handshake GotWhatItAsked BooksInv
PROPERTIES NeverUnlisted LedgerSpec DriverReturns
