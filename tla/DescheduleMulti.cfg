SPECIFICATION FairSpec
CONSTANTS
  MILLI = 4
  MaxNumGpuPerNode = 2
  Nodes = {1, 2}
  Pods = {1, 2, 3, 4}
  NodeRes <- MCNodeRes
  PodRes <- MCPodRes
  Distributions <- MCDistributions
  Policies = {"fragMultiPod"}
  RatioNum = 3
  RatioDen = 4
  CpuBar = 3
  GpuBar = 1
  MaxRuns = 2
INVARIANT NoVictimLeft
