SPECIFICATION Spec
CONSTANTS
  MILLI = 4
  MaxNumGpuPerNode = 3
  MaxSpecCpu = 4
  MaxSpecGpu = 8
  Frequency <- MCFrequency
  Sigmoid <- MCSigmoid
  TanhScore <- MCTanhScore
  Nodes <- MCNodes
  Pods <- MCPods
  NodeRes <- MCNodeRes
  PodRes <- MCPodRes
  Policies <- MCPolicies
INVARIANT CycleSucceeds
INVARIANT SelectionFits
INVARIANT HostScoredBest
INVARIANT SelectsWhatWasScored
INVARIANT PackingPrefersUsed
INVARIANT FragAccountsForAll
