SPECIFICATION PoolFairSpec
CONSTANTS
  Pids <- MCPids
  Workers = 2
  Bounds <- MCBounds
  worker_count = 2
INVARIANTS TypeOK  SignalsKept
PROPERTIES RefilledIfForked StopCompletes PoolKept WindowsPoolKept WindowsStopCompletes
CHECK_DEADLOCK FALSE
