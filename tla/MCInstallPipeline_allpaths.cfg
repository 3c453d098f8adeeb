CONSTANTS
  d1 = d1
  d2 = d2
  Disk = {d1, d2}
  Scenario <- AllPaths
  MaxRuns = 2
SPECIFICATION FairSpec
INVARIANT TypeOK
INVARIANT FstabMatchesMounts
INVARIANT FailsOnlyOnFault
INVARIANT InitramfsCurrent
INVARIANT SentinelImpliesService
INVARIANT EveryMirrorBoots
INVARIANT CacheReleased
PROPERTY ImplementsContract
PROPERTY PipelineEnds
CHECK_DEADLOCK FALSE
