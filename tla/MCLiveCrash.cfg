CONSTANTS
  e1 = e1
  e2 = e2
  Episodes = {e1, e2}
  FaultClasses = {diskFull, memoryLeak}
  HoldingClasses = {}
  AutoFixClasses = {diskFull}
  MemoryLeak = memoryLeak
  Clicks = {click}
  CrashBound = 1
  GuardedFaultBound = 1
  UnguardedFaultBound = 1
SPECIFICATION Spec
INVARIANTS LiveInv SingleInFlight CheckoutPause InjectorNeverMeetsScorer
PROPERTIES TerminalIsFinal
SYMMETRY EpisodeSymmetry
