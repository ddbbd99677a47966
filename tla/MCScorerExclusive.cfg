CONSTANTS
  oom = oom
  crash = crash
  leak = leak
  none = none
  e1 = e1
  e2 = e2
  e3 = e3
  AutoFix = {oom, crash}
  ReportOnly = {leak}
  NoFault = none
  PromotionStreak = 2
  DiagnoserStreak = 1
  ActionStreak = 1
  FailureThreshold = 2
  HoldThreshold = 1
  Scorers = {s1}
  Episodes = {e1, e2}
  Actual <- OomThenCrash
  Seasoned = {crash}
  LlmDriven = {crash, none}
  LlmActs = {crash}
  Unclassified = unclassified
  Nothing = nothing
  Exclusive = TRUE
  KillBound = 1
  OverrideBound = 1
SPECIFICATION Spec
INVARIANTS EarnedAutonomy MisdispatchReachesGuard
PROPERTIES TripReachesEveryDimension
CHECK_DEADLOCK FALSE
