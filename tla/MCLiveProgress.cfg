CONSTANTS
  e1 = e1
  e2 = e2
  Episodes = {e1}
  FaultClasses = {crashLoop, diskFull, memoryLeak}
  HoldingClasses = {crashLoop, memoryLeak}
  AutoFixClasses = {crashLoop, diskFull}
  MemoryLeak = memoryLeak
  Clicks = {click}
  CrashBound = 2
  GuardedFaultBound = 1
  UnguardedFaultBound = 0
SPECIFICATION FairSpec
INVARIANTS AbandonHonoured
PROPERTIES EveryEpisodeEnds
