\* Two callers race for the queue of one workflow.
SPECIFICATION DaemonSpec
CONSTANTS
  w1 = w1
  op1 = op1
  user1 = user1
  fire1 = fire1
  main = main
  None = None
  Workflows = {w1}
  Operators = {op1}
  Users = {user1}
  Firers = {fire1}
  Main = main
  Callers = {op1, user1, fire1, main}
  QueueLimit = 1
  MaxExec = 3
  MaxInst = 1
  MaxFaults = 0
  MaxClock = 0
  KeepLimit = 0
  MaxAge = 0
  PoolGrows = FALSE
  Requests = {"start"}
  Signals = FALSE
  RunOutcomes = {"ok"}
INVARIANTS DaemonTypeOK QueueBounded 
\* Operators, users and firers may all stay idle, and a process that is
\* down or wedged may stay so: nothing left to do is not a deadlock.
CHECK_DEADLOCK FALSE
