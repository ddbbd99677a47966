SPECIFICATION Spec
CONSTANTS
    Classes = {"crash-loop", "oom", "disk-full", "cpu-throttling", "under-provisioned-replicas", "bad-rollout"}
    MaxRuns = 2
    MaxEpisodes = 2
    MaxPods = 3
    WINDOW = 3
INVARIANTS FixHolds VerdictHonest RemediationInv
PROPERTIES HandlersEnd
CHECK_DEADLOCK FALSE
