SPECIFICATION PoolSpec
CONSTANTS
  Pids <- MCPids
  Workers = 2
  Bounds <- MCOneFailure
  worker_count = 1
INVARIANT SignalsOwnOnly
CHECK_DEADLOCK FALSE
