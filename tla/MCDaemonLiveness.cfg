\* Every goroutine is scheduled; one fault at any step; lumnd may be started again, or not.
SPECIFICATION FairDaemonSpec
CONSTANTS
  w1 = w1
  op1 = op1
  user1 = user1
  main = main
  None = None
  Workflows = {w1}
  Operators = {op1}
  Users = {user1}
  Firers = {}
  Main = main
  Callers = {op1, user1, main}
  QueueLimit = 1
  MaxExec = 2
  MaxInst = 1
  MaxFaults = 1
  MaxClock = 0
  KeepLimit = 0
  MaxAge = 0
  PoolGrows = FALSE
  Requests = {"start", "shutdown"}
  Signals = FALSE
  RunOutcomes = {"ok"}
PROPERTIES QueueIsServed
\* Operators, users and firers may all stay idle, and a process that is
\* down or wedged may stay so: nothing left to do is not a deadlock.
CHECK_DEADLOCK FALSE
