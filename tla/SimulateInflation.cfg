SPECIFICATION Spec
CONSTANTS
  MILLI = 2
  MaxNumGpuPerNode = 1
  IsInvolvedCpuPods = TRUE
  PodPopularityThreshold = 60
  PodIncreaseStep = 1
  GpuResWeight = 1
  MaxCounted = 10
  Nodes = {1, 2}
  Hashes = {1, 2}
  Now = 9
  Resources <- MCResources
  App <- MCApp
  NodeRes <- MCNodeRes
  Shuffle = FALSE
  TuneNum = {0, 1, 3, 6}
  TuneDen = 4
  InflateNum = 3
  InflateDen = 2
  MaxTuned = 3
INVARIANT InflationWithinCapacity
