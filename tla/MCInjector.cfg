CONSTANTS
  Faults = {"crash-loop", "oom", "disk-full", "network-latency", "memory-leak", "connection-pool-exhaustion", "network-partition", "init-failure", "session-cart-failure", "under-provisioned-replicas", "bad-rollout", "cpu-throttling"}
  MaxRuns = 2
  MAX_INJECT_ATTEMPTS = 3
SPECIFICATION Spec
INVARIANTS TidyEnd CleanStart InjectorInv
PROPERTIES LockIsFreed
CHECK_DEADLOCK FALSE
