CONSTANTS
  oom = oom
  crash = crash
  leak = leak
  none = none
  e1 = e1
  e2 = e2
  e3 = e3
  AutoFix = {oom}
  ReportOnly = {}
  NoFault = none
  PromotionStreak = 1
  DiagnoserStreak = 1
  ActionStreak = 1
  FailureThreshold = 2
  HoldThreshold = 1
  Scorers = {s1, s2}
  Episodes = {e1}
  Actual <- AllOom
  Seasoned = {oom}
  LlmDriven = {oom}
  LlmActs = {}
  Unclassified = unclassified
  Nothing = nothing
  Exclusive = FALSE
  KillBound = 1
  OverrideBound = 1
SPECIFICATION Spec
INVARIANTS ScorerInv RescueNeverCounts OneLateFix
SYMMETRY ScorerSymmetry
CHECK_DEADLOCK FALSE
