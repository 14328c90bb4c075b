SPECIFICATION StoreSpec
CONSTANTS
  w1 = w1  w2 = w2  c1 = c1  c2 = c2
  None = None
  Workflows = {w1, w2}
  Callers = {c1, c2}
  MaxExec = 2
  MaxClock = 2
  KeepLimit = 1
  MaxAge = 1
  PoolGrows = TRUE
SYMMETRY Symmetry
INVARIANTS TypeOK QueueIntegrity RunningIsAccountedFor HeldIsRunning
PROPERTIES ClaimIsFifo RetentionDropsOldest LifecycleSpec
