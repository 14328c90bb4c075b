\* Does "lumn daemon stop" end the process?
SPECIFICATION FairSpec
CONSTANTS
  p1 = p1  p2 = p2  c1 = c1  c2 = c2
  None = None  Main = Main
  Procs = {p1}
  Callers = {c1}
  Clients = {c1}
  MaxCommands = 3
  Situations <- Stopping
  Cwd <- Wd
  IdOf <- Ids
PROPERTIES StopEndsProcess
\* The client may have nothing more to ask.
CHECK_DEADLOCK FALSE
