CONSTANTS
  AutoFix = {oom}
  ReportOnly = {}
  NoFault = none
  PromotionStreak = 2
  DiagnoserStreak = 2
  ActionStreak = 2
  FailureThreshold = 2
  HoldThreshold = 2
  StreakBound = 3
  FailureBound = 3
  MisdispatchBound = 2
  OverrideBound = 1
SPECIFICATION Spec
INVARIANTS LadderInv EarnedTrust
PROPERTIES AutonomyContract LlmTrustContract
