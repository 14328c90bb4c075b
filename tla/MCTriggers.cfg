\* Two workflows started, stopped, killed and restored with every kind of trigger.
SPECIFICATION Spec
CONSTANTS
  w1 = w1  w2 = w2
  k1 = k1  k2 = k2
  f1 = f1
  None = None
  Workflows = {w1, w2}
  Keys = {k1, k2}
  Files = {f1}
  Ops <- MCOps
  Lists <- MCLists
  Interval = 2
  MaxInst = 2
  MaxEvents = 3
  MaxTime = 4
  MaxKills = 1
INVARIANTS TypeOK RoutesMatch OneRunPerTime RowIsNextRun EventIsKept ArmedIsStoppable
\* Nothing has to happen to a daemon.
CHECK_DEADLOCK FALSE
